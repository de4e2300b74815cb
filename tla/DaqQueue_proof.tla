--------------------------- MODULE DaqQueue_proof ---------------------------
(***************************************************************************)
(* That the acquisition's ring of bytes is a queue of whole records, for a *)
(* ring of any size and records of any length: the arithmetic of a ring    *)
(* whose ends wrap, what a push and a take do to the records it holds, and *)
(* the refinement of RecordQueue.  The last section shows that a task that *)
(* adapts leaves a record out only at the top of its ladder.               *)
(***************************************************************************)
EXTENDS DaqEngine_proof

-----------------------------------------------------------------------------
(* Arithmetic.                                                             *)

LEMMA Wrapped ==
    \A x \in 0..(2 * Bytes - 1) :
        x % Bytes = (IF x < Bytes THEN x ELSE x - Bytes) /\ x % Bytes \in Offsets
<1> SUFFICES ASSUME NEW x \in 0..(2 * Bytes - 1)
             PROVE  /\ x % Bytes = (IF x < Bytes THEN x ELSE x - Bytes)
                    /\ x % Bytes \in Offsets
  OBVIOUS
<1>1. Bytes \in Nat \ {0} /\ x \in Nat
  BY Numbers
<1>2. CASE x < Bytes
  BY <1>1, <1>2 DEF Offsets
<1>3. CASE ~(x < Bytes)
  BY <1>1, <1>3 DEF Offsets
<1> QED
  BY <1>2, <1>3

LEMMA UsedIs ==
    ASSUME NEW h \in Offsets, NEW t \in Offsets
    PROVE  /\ Used(h, t) = IF h >= t THEN h - t ELSE h + Bytes - t
           /\ Used(h, t) \in Offsets
<1>1. h \in Nat /\ t \in Nat /\ h < Bytes /\ t < Bytes /\ Bytes \in Nat \ {0}
  BY Numbers DEF Offsets
<1>2. h + Bytes - t \in 0..(2 * Bytes - 1)
  BY <1>1
<1> DEFINE x == h + Bytes - t
<1>3. Used(h, t) = x % Bytes
  BY DEF Used
<1>4. x \in 0..(2 * Bytes - 1)
  BY <1>2
<1> HIDE DEF x
<1>5. Used(h, t) = (IF x < Bytes THEN x ELSE x - Bytes) /\ Used(h, t) \in Offsets
  BY <1>3, <1>4, Wrapped
<1> QED
  BY <1>1, <1>5 DEF x

LEMMA Quotient ==
    ASSUME NEW s \in Nat \ {0}, NEW m \in Nat
    PROVE  (m * s) \div s = m
OBVIOUS

LEMMA QuotientIs ==
    ASSUME NEW s \in Nat \ {0}, NEW x \in Nat
    PROVE  x \div s \in Nat /\ (x < s => x \div s = 0)
OBVIOUS

\* The i-th of m records lies inside the bytes of all of them.
LEMMA Inside ==
    ASSUME NEW s \in Nat, NEW m \in Nat, NEW i \in 1..m
    PROVE  /\ (i - 1) * s \in Nat
           /\ (i - 1) * s + s <= m * s
           /\ (i + 1 - 1) * s = (i - 1) * s + s
<1>1. i - 1 \in Nat /\ m - i \in Nat
  OBVIOUS
<1>2. (m - i) * s \in Nat /\ (i - 1) * s \in Nat
  BY <1>1
<1>3. m * s = (i - 1) * s + s + (m - i) * s
  OBVIOUS
<1>4. (i + 1 - 1) * s = (i - 1) * s + s
  OBVIOUS
<1> QED
  BY <1>2, <1>3, <1>4


-----------------------------------------------------------------------------
(* The ring and its buffer as a value: the records waiting in them.        *)

Count(r) == IF r.stride = 0 THEN 0 ELSE Used(r.head, r.tail) \div r.stride

\* Where the i-th record waiting begins.
Place(r, i) == (r.tail + (i - 1) * r.stride) % Bytes

RecordFrom(r, b, o) == [k \in 1..r.stride |-> b[(o + k - 1) % Bytes]]

Line(r, b) == [i \in 1..Count(r) |-> RecordFrom(r, b, Place(r, i))]

LEMMA LineIsQueue ==
    /\ QueueOf = Line(ring, buf) /\ QueueOf' = Line(ring', buf')
    /\ Waiting = Count(ring) /\ Waiting' = Count(ring')
BY DEF QueueOf, Line, RecordAt, RecordFrom, Place, Waiting, Available, Count

\* The ring is full of records: none is there in part.
Aligned(r) == Used(r.head, r.tail) = Count(r) * r.stride

Buffers == [Offsets -> ByteState]

LEMMA RingIs ==
    ASSUME NEW r \in RingState
    PROVE  /\ r.head \in Offsets /\ r.tail \in Offsets
           /\ r.stride \in Nat /\ r.stride < Bytes
           /\ Used(r.head, r.tail) \in Offsets /\ Count(r) \in Nat
<1>1. \A f \in Fields : f \in Nat /\ StrideOf(f) \in Nat /\ StrideOf(f) < Bytes
  BY DaqAssumption DEF StrideOf
<1>2. /\ r.head \in Offsets /\ r.tail \in Offsets
      /\ r.stride \in Nat /\ r.stride < Bytes
  BY <1>1, Numbers DEF RingState
<1>3. Used(r.head, r.tail) \in Offsets
  BY <1>2, UsedIs
<1>4. Count(r) \in Nat
  <2>1. Used(r.head, r.tail) \in Nat
    BY <1>3 DEF Offsets
  <2> QED
    BY <1>2, <2>1, QuotientIs DEF Count
<1> QED
  BY <1>2, <1>3, <1>4

\* Byte d of a ring that is not read past: where it lies.
Spot(r, d) == IF r.tail + d < Bytes THEN r.tail + d ELSE r.tail + d - Bytes

\* The k-th byte of the i-th record waiting.
LEMMA RecordBytes ==
    ASSUME NEW r \in RingState, Aligned(r), NEW i \in 1..Count(r), NEW k \in 1..r.stride
    PROVE  LET d == (i - 1) * r.stride + k - 1
           IN /\ d \in Nat /\ d < Used(r.head, r.tail)
              /\ Place(r, i) \in Offsets
              /\ (Place(r, i) + k - 1) % Bytes = Spot(r, d)
              /\ Spot(r, d) \in Offsets
<1> DEFINE c == (i - 1) * r.stride
           u == Used(r.head, r.tail)
           n == Count(r)
           x == r.tail + c
           y == Place(r, i) + k - 1
<1>1. /\ r.tail \in Nat /\ r.tail < Bytes /\ r.stride \in Nat /\ r.stride < Bytes
      /\ Bytes \in Nat \ {0}
      /\ n \in Nat /\ u \in Nat /\ u < Bytes /\ k \in Nat /\ k >= 1 /\ k <= r.stride
  BY RingIs, Numbers DEF Offsets
<1>2. c \in Nat /\ c + r.stride <= n * r.stride /\ u = n * r.stride
  BY <1>1, Inside DEF Aligned
<1>3. c + r.stride <= u
  BY <1>2
<1>4. Place(r, i) = x % Bytes
  BY DEF Place
<1> HIDE DEF c, u, n
<1>5. x \in 0..(2 * Bytes - 1) /\ c + k - 1 \in Nat /\ c + k - 1 < u
  BY <1>1, <1>2, <1>3
<1>6. /\ Place(r, i) = (IF x < Bytes THEN x ELSE x - Bytes) /\ Place(r, i) \in Offsets
  BY <1>4, <1>5, Wrapped
<1>7. y \in 0..(2 * Bytes - 1)
  <2>1. Place(r, i) \in Nat /\ Place(r, i) < Bytes
    BY <1>1, <1>6 DEF Offsets
  <2> HIDE DEF x
  <2> QED
    BY <1>1, <2>1
<1>8. y % Bytes = IF y < Bytes THEN y ELSE y - Bytes
  BY <1>7, Wrapped
<1>9. y % Bytes = Spot(r, c + k - 1) /\ Spot(r, c + k - 1) \in Offsets
  BY <1>1, <1>2, <1>3, <1>6, <1>8 DEF Spot, Offsets
<1> QED
  BY <1>5, <1>6, <1>9 DEF c, u

LEMMA RecordIs ==
    ASSUME NEW r \in RingState, NEW b \in Buffers, NEW o \in Offsets
    PROVE  RecordFrom(r, b, o) \in Seq(ByteState) /\ Len(RecordFrom(r, b, o)) = r.stride
<1>1. r.stride \in Nat /\ r.stride < Bytes
  BY RingIs
<1>2. \A k \in 1..r.stride : b[(o + k - 1) % Bytes] \in ByteState
  <2>1. SUFFICES ASSUME NEW k \in 1..r.stride PROVE (o + k - 1) % Bytes \in Offsets
    BY DEF Buffers
  <2>2. o + k - 1 \in 0..(2 * Bytes - 1)
    BY <1>1, Numbers DEF Offsets
  <2> QED
    BY <2>2, Wrapped
<1> QED
  BY <1>1, <1>2 DEF RecordFrom

LEMMA LineIs ==
    ASSUME NEW r \in RingState, NEW b \in Buffers, Aligned(r)
    PROVE  Line(r, b) \in Seq(Seq(ByteState)) /\ Len(Line(r, b)) = Count(r)
<1>1. Count(r) \in Nat /\ r.stride \in Nat
  BY RingIs
<1>2. \A i \in 1..Count(r) : RecordFrom(r, b, Place(r, i)) \in Seq(ByteState)
  <2>1. SUFFICES ASSUME NEW i \in 1..Count(r) PROVE Place(r, i) \in Offsets
    BY RecordIs
  <2>2. r.stride # 0
    BY <2>1 DEF Count
  <2>3. 1 \in 1..r.stride
    BY <1>1, <2>2
  <2> QED
    BY <2>1, <2>3, RecordBytes
<1> QED
  BY <1>1, <1>2 DEF Line

\* A ring whose ends meet has no record.
LEMMA EmptyLine ==
    ASSUME NEW r \in RingState, NEW b \in Buffers, r.head = r.tail
    PROVE  Line(r, b) = <<>> /\ Aligned(r) /\ Count(r) = 0
<1>1. Used(r.head, r.tail) = 0
  <2>1. r.head \in Offsets /\ r.tail \in Offsets
    BY RingIs
  <2> QED
    BY <2>1, UsedIs DEF Offsets
<1>2. Count(r) = 0 /\ r.stride \in Nat
  BY <1>1, RingIs, QuotientIs DEF Count
<1>3. Aligned(r)
  BY <1>1, <1>2 DEF Aligned
<1>4. Line(r, b) \in Seq(Seq(ByteState)) /\ Len(Line(r, b)) = 0
  BY <1>2, <1>3, LineIs
<1> HIDE DEF Line
<1>5. Line(r, b) = <<>>
  BY <1>4, EmptySeq
<1> QED
  BY <1>2, <1>3, <1>5

-----------------------------------------------------------------------------
(* A record is pushed.                                                     *)

\* How far a waiting byte, or one behind them, lies past the head.
LEMMA PastHead ==
    ASSUME NEW r \in RingState, NEW d \in Offsets
    PROVE  LET u == Used(r.head, r.tail)
           IN /\ Spot(r, d) \in Offsets
              /\ Used(Spot(r, d), r.head) = IF d < u THEN d + Bytes - u ELSE d - u
<1> DEFINE u == Used(r.head, r.tail)
           o == Spot(r, d)
<1>1. /\ r.head \in Offsets /\ r.tail \in Offsets /\ Bytes \in Nat \ {0}
      /\ u = IF r.head >= r.tail THEN r.head - r.tail ELSE r.head + Bytes - r.tail
  BY RingIs, UsedIs, Numbers
<1>2. o = (IF r.tail + d < Bytes THEN r.tail + d ELSE r.tail + d - Bytes) /\ o \in Offsets
  BY <1>1 DEF Spot, Offsets
<1>3. Used(o, r.head) = IF o >= r.head THEN o - r.head ELSE o + Bytes - r.head
  BY <1>1, <1>2, UsedIs
<1> HIDE DEF u, o
<1>4. Used(o, r.head) = IF d < u THEN d + Bytes - u ELSE d - u
  BY <1>1, <1>2, <1>3 DEF Offsets
<1> QED
  BY <1>2, <1>4 DEF u, o

\* The head moves on by a stride that has room.
LEMMA HeadMoves ==
    ASSUME NEW r \in RingState, Aligned(r), r.stride # 0,
           Bytes - Used(r.head, r.tail) > r.stride,
           NEW q \in RingState, q.stride = r.stride, q.tail = r.tail,
           q.head = (r.head + r.stride) % Bytes
    PROVE  /\ Used(q.head, q.tail) = Used(r.head, r.tail) + r.stride
           /\ Count(q) = Count(r) + 1 /\ Aligned(q)
<1> DEFINE u == Used(r.head, r.tail)
<1>1. /\ r.head \in Offsets /\ r.tail \in Offsets /\ q.head \in Offsets
      /\ r.stride \in Nat /\ r.stride < Bytes /\ Bytes \in Nat \ {0} /\ Count(r) \in Nat
      /\ u = IF r.head >= r.tail THEN r.head - r.tail ELSE r.head + Bytes - r.tail
  BY RingIs, UsedIs, Numbers
<1>2. r.head + r.stride \in 0..(2 * Bytes - 1)
  BY <1>1 DEF Offsets
<1>3. q.head = IF r.head + r.stride < Bytes THEN r.head + r.stride
               ELSE r.head + r.stride - Bytes
  <2> DEFINE x == r.head + r.stride
  <2>1. x \in 0..(2 * Bytes - 1) /\ q.head = x % Bytes
    BY <1>2
  <2> HIDE DEF x
  <2>2. q.head = IF x < Bytes THEN x ELSE x - Bytes
    BY <2>1, Wrapped
  <2> QED
    BY <1>1, <2>2 DEF x, Offsets
<1>4. Used(q.head, r.tail) = IF q.head >= r.tail THEN q.head - r.tail
                             ELSE q.head + Bytes - r.tail
  BY <1>1, UsedIs
<1>5. u + r.stride < Bytes
  BY <1>1 DEF Offsets
<1> HIDE DEF u
<1>6. Used(q.head, r.tail) = u + r.stride
  BY <1>1, <1>3, <1>4, <1>5 DEF Offsets
<1>7. u = Count(r) * r.stride
  BY DEF u, Aligned
<1>8. u + r.stride = (Count(r) + 1) * r.stride
  BY <1>1, <1>7
<1>9. Count(q) = Count(r) + 1
  BY <1>1, <1>6, <1>8, Quotient DEF Count
<1> QED
  BY <1>6, <1>8, <1>9 DEF Aligned, u

LEMMA PushLine ==
    ASSUME ring \in RingState, buf \in Buffers, Aligned(ring), RoomForRecord,
           task.fields \in Fields, ring.stride = StrideOf(task.fields),
           NEW rec \in 1..MaxRecords, Put(rec),
           ring' \in RingState, buf' \in Buffers,
           ring'.stride = ring.stride, ring'.tail = ring.tail,
           ring'.head = (ring.head + ring.stride) % Bytes
    PROVE  /\ Line(ring', buf') = Append(Line(ring, buf), WholeRecord(rec, ring.stride))
           /\ Aligned(ring') /\ Count(ring') = Count(ring) + 1
           /\ Used(ring'.head, ring'.tail) = Used(ring.head, ring.tail) + ring.stride
           /\ \A i \in 1..Count(ring) :
                RecordFrom(ring', buf', Place(ring', i)) = RecordFrom(ring, buf, Place(ring, i))
<1> DEFINE u == Used(ring.head, ring.tail)
           n == Count(ring)
           S == ring.stride
           Old(i) == RecordFrom(ring, buf, Place(ring, i))
           New(i) == RecordFrom(ring', buf', Place(ring', i))
<1>1. /\ S \in Nat \ {0} /\ S < Bytes /\ Bytes \in Nat \ {0} /\ u \in Nat /\ n \in Nat
      /\ u = n * S /\ Bytes - u > S /\ u < Bytes
  <2>1. S # 0
    <3>1. task.fields \in Nat \ {0}
      BY DaqAssumption
    <3> QED
      BY <3>1, Numbers DEF StrideOf
  <2>2. u \in Offsets
    BY RingIs
  <2> QED
    BY <2>1, <2>2, RingIs, Numbers DEF Aligned, RoomForRecord, Offsets
<1>2. /\ Used(ring'.head, ring'.tail) = u + S /\ Count(ring') = n + 1 /\ Aligned(ring')
  BY <1>1, HeadMoves
<1>3. \A o \in Offsets :
        buf'[o] = IF Used(o, ring.head) < S THEN Laid(rec, Used(o, ring.head)) ELSE buf[o]
  BY DEF Put, Used
<1>4. ASSUME NEW d \in Nat, d < u + S
      PROVE  /\ Spot(ring', d) = Spot(ring, d) /\ Spot(ring, d) \in Offsets
             /\ buf'[Spot(ring, d)] = IF d < u THEN buf[Spot(ring, d)] ELSE Byte(rec, d - u)
  <2>1. d \in Offsets /\ Spot(ring', d) = Spot(ring, d)
    BY <1>1, <1>4 DEF Offsets, Spot
  <2> DEFINE o == Spot(ring, d)
             far == Used(o, ring.head)
  <2>2. o \in Offsets /\ far = IF d < u THEN d + Bytes - u ELSE d - u
    BY <2>1, PastHead
  <2>3. buf'[o] = IF far < S THEN Laid(rec, far) ELSE buf[o]
    BY <1>3, <2>2
  <2> HIDE DEF o, far, u
  <2>4. CASE d < u
    BY <1>1, <2>1, <2>2, <2>3, <2>4 DEF o
  <2>5. CASE ~(d < u)
    <3>1. far = d - u /\ far < S
      BY <1>1, <1>4, <2>2, <2>5
    <3>2. Laid(rec, far) = Byte(rec, far)
      BY <3>1 DEF Laid
    <3> QED
      BY <2>1, <2>2, <2>3, <2>5, <3>1, <3>2 DEF o
  <2> QED
    BY <2>4, <2>5
<1>5. ASSUME NEW i \in 1..(n + 1), NEW k \in 1..S
      PROVE  LET d == (i - 1) * S + k - 1
             IN d \in Nat /\ d < u + S /\ New(i)[k] = buf'[Spot(ring', d)]
  <2>1. i \in 1..Count(ring') /\ k \in 1..ring'.stride
    BY <1>2, <1>5
  <2> QED
    BY <1>2, <2>1, RecordBytes DEF RecordFrom
<1>6. ASSUME NEW i \in 1..n
      PROVE  New(i) = Old(i)
  <2>1. ASSUME NEW k \in 1..S PROVE New(i)[k] = Old(i)[k]
    <3> DEFINE d == (i - 1) * S + k - 1
    <3>1. d \in Nat /\ d < u /\ Old(i)[k] = buf[Spot(ring, d)]
      BY RecordBytes DEF RecordFrom
    <3>2. i \in 1..(n + 1)
      BY <1>1
    <3>3. d < u + S /\ New(i)[k] = buf'[Spot(ring', d)]
      BY <1>5, <3>2
    <3> HIDE DEF d, New, Old, u
    <3> QED
      BY <1>4, <3>1, <3>3
  <2> QED
    BY <2>1 DEF RecordFrom
<1>7. New(n + 1) = WholeRecord(rec, S)
  <2>1. ASSUME NEW k \in 1..S PROVE New(n + 1)[k] = Byte(rec, k - 1)
    <3> DEFINE i == n + 1
               d == (i - 1) * S + k - 1
    <3>1. i \in 1..(n + 1)
      BY <1>1
    <3>3. d = u + (k - 1) /\ k - 1 \in Nat
      BY <1>1
    <3> HIDE DEF i, n, New, u, S
    <3>2. d \in Nat /\ d < u + S /\ New(i)[k] = buf'[Spot(ring', d)]
      BY <1>5, <3>1
    <3> HIDE DEF d
    <3>4. ~(d < u) /\ d - u = k - 1
      BY <1>1, <3>3
    <3> QED
      BY <1>4, <3>2, <3>4 DEF i
  <2> QED
    BY <2>1 DEF RecordFrom, WholeRecord
<1>8. Line(ring', buf') = Append(Line(ring, buf), WholeRecord(rec, S))
  <2>1. /\ Line(ring', buf') = [i \in 1..(n + 1) |-> New(i)]
        /\ Line(ring, buf) = [i \in 1..n |-> Old(i)]
    BY <1>2 DEF Line
  <2>2. Line(ring, buf) \in Seq(Seq(ByteState)) /\ Len(Line(ring, buf)) = n
    BY LineIs
  <2>3. New(n + 1) \in Seq(ByteState)
    <3>1. n + 1 \in 1..Count(ring') /\ 1 \in 1..ring'.stride
      BY <1>1, <1>2
    <3> QED
      BY <3>1, <1>2, RecordBytes, RecordIs
  <2> HIDE DEF Line, New, Old, n
  <2>4. [i \in 1..(n + 1) |-> New(i)] = Append([i \in 1..n |-> Old(i)], New(n + 1))
    BY <1>1, <1>6, <2>1, <2>2, <2>3
  <2> QED
    BY <1>7, <2>1, <2>4
<1> QED
  BY <1>2, <1>6, <1>8

-----------------------------------------------------------------------------
(* A record is taken.                                                      *)

\* The oldest record begins at the tail.
LEMMA Oldest ==
    ASSUME NEW r \in RingState
    PROVE  Place(r, 1) = r.tail
<1>1. r.tail \in Nat /\ r.tail < Bytes /\ r.stride \in Nat /\ Bytes \in Nat \ {0}
  BY RingIs, Numbers DEF Offsets
<1>2. r.tail + (1 - 1) * r.stride = r.tail /\ r.tail % Bytes = r.tail
  BY <1>1
<1> QED
  BY <1>2 DEF Place

\* The ends of a ring as numbers: the tail y moves s on from t, toward h.
LEMMA Toward ==
    ASSUME NEW B \in Nat, NEW h \in Nat, NEW t \in Nat, NEW s \in Nat, NEW y \in Nat,
           h < B, t < B, s < B, y = (IF t + s < B THEN t + s ELSE t + s - B),
           NEW u \in Nat, u = (IF h >= t THEN h - t ELSE h + B - t), s <= u,
           NEW w \in Nat, w = (IF h >= y THEN h - y ELSE h + B - y)
    PROVE  /\ u = w + s
           /\ \A d \in Nat : d < w =>
                 (IF y + d < B THEN y + d ELSE y + d - B)
                   = (IF t + (d + s) < B THEN t + (d + s) ELSE t + (d + s) - B)
OBVIOUS

LEMMA TailMoves ==
    ASSUME NEW r \in RingState, Aligned(r), Count(r) # 0,
           NEW q \in RingState, q.stride = r.stride, q.head = r.head,
           q.tail = (r.tail + r.stride) % Bytes
    PROVE  /\ Used(r.head, r.tail) = Used(q.head, q.tail) + r.stride
           /\ Count(q) = Count(r) - 1 /\ Aligned(q)
           /\ \A d \in Nat : d < Used(q.head, q.tail) => Spot(q, d) = Spot(r, d + r.stride)
<1> DEFINE u == Used(r.head, r.tail)
           n == Count(r)
           x == r.tail + r.stride
<1> DEFINE w == Used(r.head, q.tail)
<1>1. /\ r.head \in Nat /\ r.head < Bytes /\ r.tail \in Nat /\ r.tail < Bytes
      /\ q.tail \in Nat /\ r.stride \in Nat /\ r.stride < Bytes /\ Bytes \in Nat
  BY RingIs, Numbers DEF Offsets
<1>2. /\ u \in Nat /\ u = IF r.head >= r.tail THEN r.head - r.tail ELSE r.head + Bytes - r.tail
      /\ w \in Nat /\ w = IF r.head >= q.tail THEN r.head - q.tail ELSE r.head + Bytes - q.tail
  <2>1. /\ r.head \in Offsets /\ r.tail \in Offsets /\ q.tail \in Offsets
        /\ \A o \in Offsets : o \in Nat
    BY RingIs, Numbers DEF Offsets
  <2> HIDE DEF x
  <2> QED
    BY <2>1, UsedIs
<1>3. r.stride # 0 /\ u = n * r.stride /\ n \in Nat \ {0}
  BY RingIs DEF Aligned, Count
<1>4. q.tail = IF x < Bytes THEN x ELSE x - Bytes
  <2>1. x \in 0..(2 * Bytes - 1) /\ q.tail = x % Bytes
    BY <1>1
  <2> HIDE DEF x
  <2> QED
    BY <2>1, Wrapped
<1> HIDE DEF u, n, w
<1>5. u = (n - 1) * r.stride + r.stride /\ (n - 1) * r.stride \in Nat
  BY <1>1, <1>3
<1>6. r.stride <= u
  BY <1>1, <1>5
<1>7. /\ u = w + r.stride
      /\ \A d \in Nat : d < w =>
            (IF q.tail + d < Bytes THEN q.tail + d ELSE q.tail + d - Bytes)
              = (IF r.tail + (d + r.stride) < Bytes THEN r.tail + (d + r.stride)
                 ELSE r.tail + (d + r.stride) - Bytes)
  BY <1>1, <1>2, <1>4, <1>6, Toward
<1>8. w = (n - 1) * r.stride
  <2> DEFINE m == (n - 1) * r.stride
  <2>1. u = m + r.stride /\ m \in Nat /\ u = w + r.stride
    BY <1>5, <1>7
  <2> HIDE DEF m
  <2>2. w = m
    BY <1>1, <1>2, <2>1
  <2> QED
    BY <2>2 DEF m
<1>9. Count(q) = n - 1
  BY <1>1, <1>3, <1>8, Quotient DEF Count, w
<1> QED
  BY <1>7, <1>8, <1>9, SMTT(30) DEF u, n, w, Aligned, Spot

LEMMA TakeLine ==
    ASSUME NEW r \in RingState, NEW b \in Buffers, Aligned(r), Count(r) # 0,
           NEW q \in RingState, q.stride = r.stride, q.head = r.head,
           q.tail = (r.tail + r.stride) % Bytes
    PROVE  /\ Line(q, b) = Tail(Line(r, b)) /\ Line(r, b) # <<>>
           /\ Head(Line(r, b)) = RecordFrom(r, b, r.tail)
           /\ Aligned(q)
<1> DEFINE n == Count(r)
           S == r.stride
           Was(i) == RecordFrom(r, b, Place(r, i))
           Is(i) == RecordFrom(q, b, Place(q, i))
<1>1. /\ n \in Nat \ {0} /\ S \in Nat /\ Aligned(q) /\ Count(q) = n - 1
      /\ Used(r.head, r.tail) = Used(q.head, q.tail) + S
  BY RingIs, TailMoves
<1>2. ASSUME NEW i \in 1..(n - 1)
      PROVE  Is(i) = Was(i + 1)
  <2>1. ASSUME NEW k \in 1..S PROVE Is(i)[k] = Was(i + 1)[k]
    <3> DEFINE d == (i - 1) * S + k - 1
               e == (i + 1 - 1) * S + k - 1
    <3>1. /\ d \in Nat /\ d < Used(q.head, q.tail)
          /\ (Place(q, i) + k - 1) % Bytes = Spot(q, d)
      BY <1>1, RecordBytes
    <3>2. i + 1 \in 1..n
      BY <1>1
    <3>3. (Place(r, i + 1) + k - 1) % Bytes = Spot(r, e)
      BY <3>2, RecordBytes
    <3>4. e = d + S
      <4>1. (i + 1 - 1) * S = (i - 1) * S + S
        BY <1>1, Inside
      <4>2. (i - 1) * S \in Nat
        BY <1>1, Inside
      <4> QED
        BY <1>1, <4>1, <4>2
    <3> HIDE DEF d, e
    <3>5. Spot(q, d) = Spot(r, e)
      BY <3>1, <3>4, TailMoves
    <3> QED
      BY <3>1, <3>3, <3>5 DEF RecordFrom
  <2> QED
    BY <2>1 DEF RecordFrom
<1>3. /\ Line(r, b) = [i \in 1..n |-> Was(i)]
      /\ Line(q, b) = [i \in 1..(n - 1) |-> Is(i)]
  BY <1>1 DEF Line
<1>4. /\ Line(r, b) \in Seq(Seq(ByteState)) /\ Len(Line(r, b)) = n
      /\ Line(q, b) \in Seq(Seq(ByteState)) /\ Len(Line(q, b)) = n - 1
  BY <1>1, LineIs
<1>5. Was(1) = RecordFrom(r, b, r.tail)
  BY Oldest
<1> HIDE DEF Line, Was, Is, n
<1>6. /\ Line(r, b) # <<>> /\ Head(Line(r, b)) = Line(r, b)[1]
      /\ Tail(Line(r, b)) \in Seq(Seq(ByteState)) /\ Len(Tail(Line(r, b))) = n - 1
      /\ \A i \in 1..(n - 1) : Tail(Line(r, b))[i] = Line(r, b)[i + 1]
  BY <1>1, <1>4, HeadTailProperties
<1>7. Line(r, b)[1] = Was(1)
  BY <1>1, <1>3
<1>8. \A i \in 1..(n - 1) : Line(q, b)[i] = Tail(Line(r, b))[i]
  BY <1>1, <1>2, <1>3, <1>6
<1>9. Line(q, b) = Tail(Line(r, b))
  BY <1>4, <1>6, <1>8, SeqEqual
<1> QED
  BY <1>1, <1>5, <1>6, <1>7, <1>9

-----------------------------------------------------------------------------
(* The invariant, and the queue's step behind each of the engine's.        *)

\* A task runs over a ring laid out for its own fields.
Runs ==
    task.running => task.fields \in Fields /\ ring.stride = StrideOf(task.fields)

\* The interrupt only adds to what a read saw when it loaded the head.
Seen ==
    take.step = "tail" => Used(take.head, ring.tail) <= Used(ring.head, ring.tail)

First == RecordFrom(ring, buf, ring.tail)

\* What a read has copied is still the record at the tail.
Taken ==
    /\ ~Idle => ring.stride # 0
    /\ take.step \in {"rest", "store"} => Count(ring) # 0
    /\ take.step = "rest" => take.got = [k \in 1..ToEnd(ring.tail) |-> First[k]]
    /\ take.step = "store" =>
          take.got = First /\ take.next = (ring.tail + ring.stride) % Bytes

Ordered == Aligned(ring) /\ Runs /\ Seen /\ Taken

QueueInv == ReadInv /\ Ordered

\* A step of the queue's, or none.
Moves == Queue!Next \/ UNCHANGED <<QueueOf, take.batch>>

LEMMA Still ==
    ASSUME ring' = ring, buf' = buf
    PROVE  /\ QueueOf' = QueueOf /\ First' = First /\ ToEnd(ring.tail)' = ToEnd(ring.tail)
           /\ Aligned(ring) => Aligned(ring)'
BY LineIsQueue DEF First, ToEnd

\* A read in hand that the ring's changes do not concern.
LEMMA ReadStays ==
    ASSUME Ordered, take' = take, ring'.stride = ring.stride, ring'.tail = ring.tail,
           Aligned(ring)', Runs',
           Used(ring.head, ring.tail) <= Used(ring'.head, ring'.tail),
           Used(ring.head, ring.tail) \in Nat, Used(ring'.head, ring'.tail) \in Nat,
           Count(ring) # 0 => Count(ring') # 0 /\ First' = First,
           take \in TakeState, ring \in RingState
    PROVE  Ordered'
<1>1. Idle' = Idle /\ ToEnd(ring.tail)' = ToEnd(ring.tail)
  BY DEF Idle, ToEnd
<1>2. Seen'
  <2>1. take.step = "tail" => Used(take.head, ring.tail) \in Nat
    <3>1. take.head \in Offsets /\ ring.tail \in Offsets
      BY RingIs DEF TakeState
    <3> QED
      BY <3>1, UsedIs DEF Offsets
  <2> QED
    BY <2>1 DEF Ordered, Seen
<1>3. Taken'
  BY <1>1 DEF Ordered, Taken
<1> QED
  BY <1>2, <1>3 DEF Ordered

\* A read that is over, over a ring that is whole.
LEMMA NoneInHand ==
    ASSUME Aligned(ring)', Runs', take'.step = "idle"
    PROVE  Ordered'
BY DEF Ordered, Seen, Taken, Idle

\* A step that leaves the ring and its reader alone.
LEMMA Elsewhere ==
    ASSUME TypeOK, Ordered, UNCHANGED <<ring, buf, take>>,
           task'.running => task.running /\ task'.fields = task.fields
    PROVE  Ordered' /\ Moves
<1>1. Ordered'
  <2>1. Runs' /\ Used(ring.head, ring.tail) \in Nat
    BY RingIs DEF Ordered, Runs, TypeOK, Offsets
  <2>2. Aligned(ring)' /\ First' = First
    BY Still DEF Ordered
  <2> QED
    BY <2>1, <2>2, ReadStays DEF TypeOK
<1> QED
  BY <1>1, Still DEF Moves

\* A step that empties the ring while no read is in hand.
LEMMA Empties ==
    ASSUME Idle, take' = take, ring' \in RingState, buf' \in Buffers,
           ring'.head = ring'.tail, Runs'
    PROVE  Ordered' /\ Moves
<1>1. Line(ring', buf') = <<>> /\ Aligned(ring')
  BY EmptyLine
<1>2. QueueOf' = <<>> /\ UNCHANGED take.batch
  BY <1>1, LineIsQueue
<1>3. Moves
  BY <1>2 DEF Moves, Queue!Next, Queue!Forget
<1> QED
  BY <1>1, <1>3, NoneInHand DEF Idle

LEMMA PushMoves ==
    ASSUME TypeOK, Ordered, task.running, PushRecord, take' = take
    PROVE  Ordered' /\ Moves
<1>1. /\ ring \in RingState /\ buf \in Buffers /\ take \in TakeState
      /\ ring' \in RingState /\ buf' \in Buffers /\ PutRecord
      /\ task.fields \in Fields /\ ring.stride = StrideOf(task.fields)
      /\ task'.fields = task.fields
  <2>1. /\ task \in TaskState
        /\ \E a, b, c : task' = [task EXCEPT !.accumulate = a, !.running = b, !.done = c]
    BY DEF PushRecord, TypeOK
  <2>2. task'.fields = task.fields
    BY <2>1 DEF TaskState
  <2> QED
    BY <2>2, PushIs DEF Ordered, Runs, TypeOK, PushRecord, Buffers
<1>2. CASE RoomForRecord
  <2> DEFINE rec == ring.produced + 1
             h == (ring.head + ring.stride) % Bytes
  <2>1. /\ ring.produced < MaxRecords /\ Put(rec)
        /\ ring' = [ring EXCEPT !.head = h, !.produced = rec]
    BY <1>1, <1>2 DEF PutRecord, RingState
  <2>2. rec \in 1..MaxRecords
    BY <1>1, <2>1, Numbers DEF RingState
  <2> HIDE DEF rec, h
  <2>3. ring'.stride = ring.stride /\ ring'.tail = ring.tail /\ ring'.head = h
    BY <1>1, <2>1 DEF RingState
  <2>4. /\ Line(ring', buf') = Append(Line(ring, buf), WholeRecord(rec, ring.stride))
        /\ Aligned(ring') /\ Count(ring') = Count(ring) + 1
        /\ Used(ring'.head, ring'.tail) = Used(ring.head, ring.tail) + ring.stride
        /\ \A i \in 1..Count(ring) :
             RecordFrom(ring', buf', Place(ring', i)) = RecordFrom(ring, buf, Place(ring, i))
    BY <1>1, <1>2, <2>1, <2>2, <2>3, PushLine DEF Ordered, h
  <2>5. /\ ring.stride \in Nat /\ Used(ring.head, ring.tail) \in Nat
        /\ Used(ring'.head, ring'.tail) \in Nat /\ Count(ring) \in Nat
    BY <1>1, RingIs DEF Offsets
  <2>6. Count(ring) # 0 => Count(ring') # 0 /\ First' = First
    <3>1. SUFFICES ASSUME Count(ring) # 0 PROVE Count(ring') # 0 /\ First' = First
      OBVIOUS
    <3>2. 1 \in 1..Count(ring)
      BY <2>5, <3>1
    <3> QED
      BY <1>1, <2>4, <2>5, <3>2, Oldest DEF First
  <2>7. Ordered'
    <3>1. Runs'
      BY <1>1, <2>3 DEF Runs
    <3> QED
      BY <1>1, <2>3, <2>4, <2>5, <2>6, <3>1, ReadStays
  <2>8. WholeRecord(rec, ring.stride) \in WholeRecords
    BY <1>1, <2>2 DEF WholeRecords
  <2>9. Moves
    BY <2>4, <2>8, LineIsQueue DEF Moves, Queue!Next, Queue!Push
  <2> QED
    BY <2>7, <2>9
<1>3. CASE ~RoomForRecord
  <2>1. ring' = ring /\ buf' = buf
    BY <1>1, <1>3 DEF PutRecord
  <2> QED
    BY <1>1, <2>1, Elsewhere
<1> QED
  BY <1>2, <1>3

LEMMA SweepMoves ==
    ASSUME TypeOK, PoweredRead, Ordered, OnInjected \/ Poll
    PROVE  Ordered' /\ Moves
<1>1. /\ task.running /\ Sweep /\ take' = take /\ (Idle \/ task.clock = "tim1")
  BY DEF OnInjected, Poll
<1>2. CASE FeedWaits \/ FeedSwallows
  BY <1>1, <1>2, Elsewhere DEF FeedWaits, FeedSwallows
<1>3. CASE FeedCloses
  BY <1>1, <1>3, PushMoves DEF FeedCloses
<1>4. CASE ~afe /\ LosePower
  <2>1. Idle
    BY <1>1, <1>4 DEF PoweredRead
  <2>2. ring' \in RingState /\ buf' \in Buffers /\ ring'.head = ring'.tail /\ ~task'.running
    BY <1>4, LosePowerIs DEF TypeOK, Buffers
  <2> QED
    BY <1>1, <2>1, <2>2, Empties DEF Runs
<1> QED
  BY <1>1, <1>2, <1>3, <1>4 DEF Sweep, Feed

-----------------------------------------------------------------------------
(* The read's steps.                                                       *)

\* A step of a read that leaves the ring alone.
LEMMA ReadingOn ==
    ASSUME TypeOK, Ordered, ring' = ring, buf' = buf, task' = task,
           Seen', Taken', take'.batch \in {take.batch, <<>>}
    PROVE  Ordered' /\ Moves
<1>1. Ordered'
  BY Still DEF Ordered, Runs
<1> QED
  BY <1>1, Still DEF Moves, Queue!Next, Queue!Answer

LEMMA OverMoves ==
    ASSUME TypeOK, Ordered, ring' = ring, buf' = buf, task' = task, take' = NoRead
    PROVE  Ordered' /\ Moves
BY ReadingOn DEF Seen, Taken, Idle, NoRead

LEMMA BeginReadMoves ==
    ASSUME TypeOK, Ordered, NEW want \in Wants, BeginRead(want)
    PROVE  Ordered' /\ Moves
<1>1. /\ ring.stride # 0 /\ take' = [NoRead EXCEPT !.step = "head", !.want = want]
      /\ ring' = ring /\ buf' = buf /\ task' = task
  BY DEF BeginRead
<1>2. take'.step = "head" /\ take'.batch = <<>>
  BY <1>1 DEF NoRead
<1> QED
  BY <1>1, <1>2, ReadingOn DEF Seen, Taken

LEMMA ReadHeadMoves ==
    ASSUME TypeOK, Ordered, ReadHead
    PROVE  Ordered' /\ Moves
<1>1. /\ take.step = "head" /\ take \in TakeState /\ ring \in RingState
      /\ ring' = ring /\ buf' = buf /\ task' = task
      /\ \/ take' = [take EXCEPT !.head = ring.head, !.step = "tail"]
         \/ take' = NoRead
  BY DEF ReadHead, TypeOK
<1>2. CASE take' = [take EXCEPT !.head = ring.head, !.step = "tail"]
  <2>1. take'.step = "tail" /\ take'.head = ring.head /\ take'.batch = take.batch
    BY <1>1, <1>2 DEF TakeState
  <2>2. Used(ring.head, ring.tail) \in Nat
    BY <1>1, RingIs DEF Offsets
  <2>3. Seen'
    BY <1>1, <2>1, <2>2 DEF Seen
  <2>4. Taken'
    BY <1>1, <2>1 DEF Taken, Ordered, Idle
  <2> QED
    BY <1>1, <2>1, <2>3, <2>4, ReadingOn
<1> QED
  BY <1>1, <1>2, OverMoves

LEMMA ReadTailMoves ==
    ASSUME TypeOK, Ordered, ReadTail
    PROVE  Ordered' /\ Moves
<1> DEFINE e == ToEnd(ring.tail)
           copied == [k \in 1..e |-> buf[ring.tail + k - 1]]
           seen == Used(take.head, ring.tail)
<1>1. /\ take.step = "tail" /\ take \in TakeState /\ ring \in RingState
      /\ ring' = ring /\ buf' = buf /\ task' = task
      /\ take' = IF Available(take.head, ring.tail) = 0 THEN NoRead
                 ELSE [take EXCEPT !.head = 0, !.got = copied, !.step = "rest"]
  BY DEF ReadTail, TypeOK
<1>2. CASE Available(take.head, ring.tail) = 0
  BY <1>1, <1>2, OverMoves
<1>3. CASE Available(take.head, ring.tail) # 0
  <2>1. /\ ring.tail \in Nat /\ ring.tail < Bytes /\ Bytes \in Nat
        /\ ring.stride \in Nat \ {0} /\ seen \in Nat /\ Used(ring.head, ring.tail) \in Nat
    <3>1. take.head \in Offsets /\ ring.tail \in Offsets /\ ring.stride # 0
      BY <1>1, RingIs DEF Ordered, Taken, Idle, TakeState
    <3> QED
      BY <1>1, <3>1, UsedIs, RingIs, Numbers DEF Offsets
  <2>2. copied = [k \in 1..e |-> First[k]]
    <3>1. e \in Nat /\ e <= ring.stride /\ ring.tail + e <= Bytes
      BY <2>1 DEF ToEnd, Least
    <3> HIDE DEF e
    <3>2. ASSUME NEW k \in 1..e PROVE First[k] = buf[ring.tail + k - 1]
      <4>1. k \in 1..ring.stride /\ ring.tail + k - 1 \in Nat /\ ring.tail + k - 1 < Bytes
        BY <2>1, <3>1
      <4>2. (ring.tail + k - 1) % Bytes = ring.tail + k - 1
        BY <2>1, <4>1
      <4> QED
        BY <4>1, <4>2 DEF First, RecordFrom
    <3> QED
      BY <3>2
  <2>3. Count(ring) # 0
    <3>1. seen \div ring.stride # 0
      BY <1>3, <2>1 DEF Available
    <3> HIDE DEF seen
    <3>2. seen >= ring.stride
      BY <2>1, <3>1, QuotientIs
    <3>3. Used(ring.head, ring.tail) >= ring.stride
      BY <1>1, <2>1, <3>2 DEF Ordered, Seen, seen
    <3>4. Used(ring.head, ring.tail) = Count(ring) * ring.stride
      BY DEF Ordered, Aligned
    <3> QED
      BY <2>1, <3>3, <3>4
  <2> HIDE DEF copied
  <2>4. take'.step = "rest" /\ take'.got = copied /\ take'.batch = take.batch
    BY <1>1, <1>3 DEF TakeState
  <2>5. Seen'
    BY <2>4 DEF Seen
  <2>6. Taken'
    BY <1>1, <2>1, <2>2, <2>3, <2>4, Still DEF Taken
  <2> QED
    BY <1>1, <2>4, <2>5, <2>6, ReadingOn
<1> QED
  BY <1>2, <1>3

LEMMA ReadRestMoves ==
    ASSUME TypeOK, Ordered, ReadRest
    PROVE  Ordered' /\ Moves
<1> DEFINE S == ring.stride
           e == ToEnd(ring.tail)
           more == [k \in 1..(S - Len(take.got)) |-> buf[k - 1]]
           got == take.got \o more
           next == (ring.tail + S) % Bytes
<1>1. /\ take.step = "rest" /\ take \in TakeState /\ ring \in RingState
      /\ buf \in Buffers /\ ring' = ring /\ buf' = buf /\ task' = task
      /\ take' = [take EXCEPT !.got = got, !.next = next, !.step = "store"]
  BY DEF ReadRest, TypeOK, TakeState, Buffers
<1>2. /\ ring.tail \in Offsets /\ ring.tail \in Nat /\ ring.tail < Bytes /\ Bytes \in Nat \ {0}
      /\ S \in Nat \ {0} /\ Count(ring) # 0
      /\ take.got = [k \in 1..e |-> First[k]]
  BY <1>1, RingIs, Numbers DEF Ordered, Taken, Idle, Offsets
<1>3. e \in 0..S /\ (e < S => e = Bytes - ring.tail)
  BY <1>2 DEF ToEnd, Least
<1>4. First \in Seq(ByteState) /\ Len(First) = S
  BY <1>1, <1>2, RecordIs DEF First
<1> HIDE DEF e
<1>5. take.got \in Seq(ByteState) /\ Len(take.got) = e
  BY <1>1, <1>2, <1>3, SMTT(30) DEF TakeState
<1>6. \A j \in 1..(S - e) : buf[j - 1] = First[e + j]
  <2> SUFFICES ASSUME NEW j \in 1..(S - e) PROVE buf[j - 1] = First[e + j]
    OBVIOUS
  <2> DEFINE x == ring.tail + (e + j) - 1
  <2>1. x = Bytes + (j - 1) /\ j - 1 \in Nat /\ j - 1 < Bytes /\ e + j \in 1..S
    <3>1. e < S /\ e = Bytes - ring.tail
      BY <1>2, <1>3
    <3>2. S < Bytes
      BY <1>1, RingIs
    <3> QED
      BY <1>2, <3>1, <3>2, SMTT(30)
  <2>2. x % Bytes = j - 1
    <3> HIDE DEF x
    <3>1. x \in 0..(2 * Bytes - 1) /\ ~(x < Bytes) /\ x - Bytes = j - 1
      BY <1>2, <2>1
    <3>2. x % Bytes = x - Bytes
      BY <3>1, Wrapped
    <3> QED
      BY <3>1, <3>2
  <2> QED
    BY <2>1, <2>2 DEF First, RecordFrom
<1>7. more \in Seq(ByteState) /\ Len(more) = S - e
  <2>1. S - e \in Nat /\ \A j \in 1..(S - e) : e + j \in 1..S
    BY <1>2, <1>3
  <2>2. \A j \in 1..(S - e) : buf[j - 1] \in ByteState
    BY <1>4, <1>6, <2>1
  <2> QED
    BY <1>5, <2>1, <2>2
<1>8. got = First
  <2>1. more = [j \in 1..(S - e) |-> First[e + j]]
    BY <1>5, <1>6
  <2> HIDE DEF more, First, S
  <2>2. /\ got \in Seq(ByteState) /\ Len(got) = Len(take.got) + Len(more)
        /\ \A i \in 1..(Len(take.got) + Len(more)) :
             got[i] = IF i <= Len(take.got) THEN take.got[i] ELSE more[i - Len(take.got)]
    BY <1>5, <1>7, ConcatProperties
  <2> HIDE DEF got
  <2>3. ASSUME NEW i \in 1..S PROVE got[i] = First[i]
    <3>1. got[i] = IF i <= e THEN take.got[i] ELSE more[i - e]
      BY <1>2, <1>3, <1>5, <1>7, <2>2
    <3>2. CASE i <= e
      BY <1>2, <1>3, <3>1, <3>2
    <3>3. CASE ~(i <= e)
      <4>1. i - e \in 1..(S - e) /\ e + (i - e) = i
        BY <1>2, <1>3, <3>3
      <4> QED
        BY <2>1, <3>1, <3>3, <4>1
    <3> QED
      BY <3>2, <3>3
  <2>4. Len(got) = S
    BY <1>2, <1>3, <1>5, <1>7, <2>2
  <2> QED
    BY <1>4, <2>2, <2>3, <2>4, SeqEqual
<1> HIDE DEF got, next
<1>9. take'.step = "store" /\ take'.got = got /\ take'.next = next /\ take'.batch = take.batch
  BY <1>1 DEF TakeState
<1>10. Seen'
  BY <1>9 DEF Seen
<1>11. Taken'
  BY <1>1, <1>2, <1>8, <1>9, Still DEF Taken, next
<1> QED
  BY <1>1, <1>9, <1>10, <1>11, ReadingOn

LEMMA StoreTailMoves ==
    ASSUME TypeOK, TypeOK', Ordered, StoreTail
    PROVE  Ordered' /\ Moves
<1> DEFINE batch == Append(take.batch, take.got)
<1>1. /\ take.step = "store" /\ take \in TakeState /\ ring \in RingState
      /\ ring' \in RingState /\ buf \in Buffers
      /\ ring' = [ring EXCEPT !.tail = take.next]
      /\ take' = [take EXCEPT !.batch = batch, !.got = <<>>, !.next = 0, !.step = "head"]
      /\ buf' = buf /\ task' = task
  BY DEF StoreTail, TypeOK, TakeState, Buffers
<1>2. /\ Aligned(ring) /\ Count(ring) # 0 /\ ring.stride # 0
      /\ take.got = First /\ take.next = (ring.tail + ring.stride) % Bytes
  BY <1>1 DEF Ordered, Taken, Idle
<1>3. /\ ring'.stride = ring.stride /\ ring'.head = ring.head
      /\ ring'.tail = (ring.tail + ring.stride) % Bytes
  BY <1>1, <1>2 DEF RingState
<1>4. /\ Line(ring', buf) = Tail(Line(ring, buf)) /\ Line(ring, buf) # <<>>
      /\ Head(Line(ring, buf)) = First /\ Aligned(ring')
  BY <1>1, <1>2, <1>3, TakeLine DEF First
<1> HIDE DEF batch
<1>5. take'.step = "head" /\ take'.batch = batch
  BY <1>1 DEF TakeState
<1>6. Ordered'
  BY <1>1, <1>2, <1>3, <1>4, <1>5 DEF Ordered, Runs, Seen, Taken
<1>7. Queue!Take
  BY <1>1, <1>2, <1>4, <1>5, LineIsQueue DEF Queue!Take, batch
<1> QED
  BY <1>6, <1>7 DEF Moves, Queue!Next

-----------------------------------------------------------------------------
(* The host's other ops, and the refinement.                               *)

LEMMA FreshRuns ==
    ASSUME NEW n \in {0} \cup {StrideOf(f) : f \in Fields}
    PROVE  Fresh(n) \in RingState /\ Fresh(n).head = Fresh(n).tail /\ Fresh(n).stride = n
<1>1. Fresh(n).head = Fresh(n).tail /\ Fresh(n).stride = n
  BY DEF Fresh, NoRing
<1> QED
  BY <1>1, FreshIs

LEMMA StartMoves ==
    ASSUME TypeOK, Ordered, Start, "heeds" \in Habits
    PROVE  Ordered' /\ Moves
<1>1. /\ Idle /\ ring.stride # 0 /\ ring.stride = StrideOf(task.fields)
      /\ ring' = Fresh(ring.stride) /\ buf' = AllStale /\ take' = take
      /\ task' = [task EXCEPT !.running = TRUE, !.done = FALSE, !.lost = FALSE]
      /\ ring \in RingState /\ task \in TaskState
  BY DEF Start, TypeOK
<1>2. ring' \in RingState /\ buf' \in Buffers /\ ring'.head = ring'.tail
      /\ ring'.stride = ring.stride
  BY <1>1, FreshRuns, AllStaleIs DEF RingState, Buffers
<1>3. task'.fields = task.fields
  BY <1>1 DEF TaskState
<1>4. task.fields \in Fields
  <2>1. PICK f \in Fields : StrideOf(task.fields) = StrideOf(f)
    BY <1>1 DEF RingState
  <2>2. f \in Nat /\ task.fields \in Nat /\ Overhead \in Nat
    BY <1>1, DaqAssumption DEF TaskState
  <2>3. f = task.fields
    BY <2>1, <2>2 DEF StrideOf
  <2> QED
    BY <2>3
<1> QED
  BY <1>1, <1>2, <1>3, <1>4, Empties DEF Runs

LEMMA HostOpsMove ==
    ASSUME TypeOK, Ordered, HostOps, "heeds" \in Habits
    PROVE  Ordered' /\ Moves
<1>1. ASSUME NEW f \in Fields, NEW a \in Accumulates, NEW c \in Counts,
             NEW adapt \in BOOLEAN, NEW k \in Clocks, Configure(f, a, c, adapt, k)
      PROVE  Ordered' /\ Moves
  <2>1. /\ Idle /\ take' = take /\ ring' = Fresh(StrideOf(f)) /\ buf' = AllStale
        /\ ~task'.running
    BY <1>1 DEF Configure
  <2>2. ring' \in RingState /\ buf' \in Buffers /\ ring'.head = ring'.tail
    BY <2>1, FreshRuns, AllStaleIs DEF Buffers
  <2> QED
    BY <2>1, <2>2, Empties DEF Runs
<1>2. ASSUME NEW f \in Refused, ConfigureRefused(f)
      PROVE  Ordered' /\ Moves
  <2>1. ~task.running /\ task' = [task EXCEPT !.fields = f] /\ task \in TaskState
    BY <1>2 DEF ConfigureRefused, TypeOK
  <2>2. ~task'.running
    BY <2>1 DEF TaskState
  <2> QED
    BY <1>2, <2>2, Elsewhere DEF ConfigureRefused
<1>3. CASE Stop
  <2>1. task' = [task EXCEPT !.running = FALSE] /\ task \in TaskState
    BY <1>3 DEF Stop, TypeOK
  <2>2. ~task'.running
    BY <2>1 DEF TaskState
  <2> QED
    BY <1>3, <2>2, Elsewhere DEF Stop
<1>4. CASE Lend
  <2>1. /\ Idle /\ take' = take /\ buf' = AllStale /\ ~task'.running
        /\ ring \in RingState /\ ring' = Emptied(ring)
    BY <1>4 DEF Lend, TypeOK
  <2>2. ring' \in RingState /\ buf' \in Buffers /\ ring'.head = ring'.tail
    BY <2>1, AllStaleIs, Numbers DEF Emptied, RingState, Buffers
  <2> QED
    BY <2>1, <2>2, Empties DEF Runs
<1>5. ASSUME NEW filters \in BOOLEAN, SetFilter(filters)
      PROVE  Ordered' /\ Moves
  BY <1>5, Elsewhere DEF SetFilter
<1>6. ASSUME NEW d \in Designs, SetBottom(d)
      PROVE  Ordered' /\ Moves
  <2>1. ~task.running /\ task' = [task EXCEPT !.accumulate = d.boxcar] /\ task \in TaskState
    BY <1>6 DEF SetBottom, TypeOK
  <2>2. ~task'.running
    BY <2>1 DEF TaskState
  <2> QED
    BY <1>6, <2>2, Elsewhere DEF SetBottom
<1>7. ASSUME NEW d \in Designs, NEW n \in 1..Ladder, SetRung(n, d)
      PROVE  Ordered' /\ Moves
  BY <1>7, Elsewhere DEF SetRung
<1> QED
  BY <1>1, <1>2, <1>3, <1>4, <1>5, <1>6, <1>7, StartMoves, BeginReadMoves DEF HostOps

LEMMA StepMoves ==
    ASSUME QueueInv, [Next]_vars, {"powered", "heeds"} \subseteq Habits
    PROVE  QueueInv' /\ Moves
<1>1. TypeOK /\ PoweredRead /\ Ordered
  BY DEF QueueInv, ReadInv
<1>2. TypeOK' /\ ReadInv'
  BY <1>1, StepKeeps DEF QueueInv
<1>3. Ordered' /\ Moves
  <2>1. CASE OnInjected \/ Poll
    BY <1>1, <2>1, SweepMoves
  <2>2. CASE TakeStep
    BY <1>1, <1>2, <2>2, ReadHeadMoves, ReadTailMoves, ReadRestMoves, StoreTailMoves
    DEF TakeStep
  <2>3. CASE HostOps
    BY <1>1, <2>3, HostOpsMove
  <2>4. CASE SwitchAfe
    BY <1>1, <2>4, Elsewhere DEF SwitchAfe
  <2>5. CASE UNCHANGED vars
    BY <1>1, <2>5, Elsewhere DEF vars
  <2> QED
    BY <2>1, <2>2, <2>3, <2>4, <2>5 DEF Next
<1> QED
  BY <1>2, <1>3 DEF QueueInv

LEMMA QueueStarts ==
    ASSUME Init
    PROVE  QueueInv /\ Queue!Init
<1>1. ReadInv /\ ring \in RingState /\ buf \in Buffers
  BY InitKeeps DEF TypeOK, Buffers
<1>2. ring.head = ring.tail /\ ~task.running /\ take = NoRead
  BY DEF Init, NoRing
<1>3. take.step = "idle" /\ take.batch = <<>>
  BY <1>2 DEF NoRead
<1>4. Line(ring, buf) = <<>> /\ Aligned(ring)
  BY <1>1, <1>2, EmptyLine
<1> QED
  BY <1>1, <1>2, <1>3, <1>4, LineIsQueue
  DEF QueueInv, Ordered, Runs, Seen, Taken, Idle, Queue!Init

\* daq_take and push_record make a queue of the ring: a record comes out whole
\* and once, oldest first, and one that finds no room is left out altogether,
\* for a ring of any size and wherever between its loads the interrupt falls;
\* for a host that reads under power and starts what it configured.
THEOREM QueueImplemented ==
    ASSUME {"powered", "heeds"} \subseteq Habits
    PROVE  Spec => IsQueue
<1>1. Init => QueueInv /\ Queue!Init
  BY QueueStarts
<1>2. QueueInv /\ [Next]_vars => QueueInv' /\ [Queue!Next]_(Queue!vars)
  BY StepMoves DEF Moves, Queue!vars
<1> QED
  BY <1>1, <1>2, PTL DEF Spec, IsQueue, Queue!Spec

-----------------------------------------------------------------------------
(* The ladder and the ring.                                                *)

ClimbOf(stride) == Least(((Bytes \div stride) * ClimbAt) \div Eighths, ClimbMax)

\* Between the climb mark and a full ring there is a record for each rung.
Margin ==
    \A f \in Fields :
        /\ ClimbOf(StrideOf(f)) >= 1
        /\ ClimbOf(StrideOf(f)) + Ladder <= (Bytes \div StrideOf(f)) + 1

\* Short of the top, a task is a rung up for every record past the mark.
Ahead ==
    task.running /\ Adapts =>
        lad.rung + 1 >= Held \/ lad.rung + Climb > Waiting

LEMMA ClimbIs ==
    ASSUME Margin, TypeOK, ring.stride # 0
    PROVE  /\ Capacity \in Nat /\ Climb \in Nat /\ Climb >= 1 /\ Climb + Ladder <= Capacity + 1
<1>1. PICK f \in Fields : ring.stride = StrideOf(f)
  BY DEF TypeOK, RingState
<1>2. ring.stride \in Nat /\ Bytes \in Nat
  BY RingIs, Numbers DEF TypeOK
<1>3. Capacity = Bytes \div ring.stride /\ Climb = ClimbOf(ring.stride)
  BY DEF Capacity, Climb, ClimbOf
<1>4. Capacity \in Nat
  BY <1>2, <1>3, QuotientIs
<1>5. Climb \in Nat
  <2>1. Capacity * ClimbAt \in Nat /\ Eighths \in Nat \ {0} /\ ClimbMax \in Nat
    BY <1>4, DaqAssumption
  <2>2. (Capacity * ClimbAt) \div Eighths \in Nat
    BY <2>1, QuotientIs
  <2> QED
    BY <2>1, <2>2 DEF Climb, Least
<1> QED
  BY <1>1, <1>3, <1>4, <1>5 DEF Margin

\* The ring of a task that runs has a record's length.
LEMMA RunningStride ==
    ASSUME TypeOK, Runs, task.running
    PROVE  ring.stride # 0
<1>1. task.fields \in Nat \ {0} /\ Overhead \in Nat \ {0}
  BY DaqAssumption DEF Runs
<1> QED
  BY <1>1 DEF Runs, StrideOf

LEMMA RungAtMark ==
    ASSUME NEW w \in Nat, Climb \in Nat, Adapts, w >= Climb
    PROVE  RungFor(w) = IF lad.rung + 1 < Held THEN lad.rung + 1 ELSE lad.rung
BY DEF RungFor

\* A ring without room holds all the records it has room for but one.
LEMMA FullIs ==
    ASSUME TypeOK, Aligned(ring), ring.stride # 0, ~RoomForRecord
    PROVE  Waiting + 1 >= Capacity
<1> DEFINE S == ring.stride
           c == Bytes \div S
           n == Count(ring)
<1>1. /\ S \in Nat \ {0} /\ Bytes \in Nat /\ n \in Nat /\ Used(ring.head, ring.tail) \in Nat
      /\ Used(ring.head, ring.tail) = n * S /\ Bytes - n * S <= S
  BY RingIs, Numbers DEF TypeOK, Aligned, RoomForRecord, Offsets
<1>2. c \in Nat /\ c * S <= Bytes
  BY <1>1
<1>3. Waiting = n /\ Capacity = c
  BY LineIsQueue DEF Capacity
<1> HIDE DEF S, c, n
<1>4. c * S <= (n + 1) * S
  <2>1. (n + 1) * S = n * S + S /\ n * S \in Nat
    BY <1>1
  <2> QED
    BY <1>1, <1>2, <2>1
<1>5. c <= n + 1
  <2>1. SUFFICES ASSUME c >= n + 2 PROVE FALSE
    BY <1>1, <1>2
  <2>2. c - (n + 2) \in Nat
    BY <1>1, <1>2, <2>1
  <2>3. (c - (n + 2)) * S \in Nat
    BY <1>1, <2>2
  <2>4. c * S = (n + 1) * S + S + (c - (n + 2)) * S
    BY <1>1, <1>2
  <2>5. (n + 1) * S \in Nat /\ c * S \in Nat
    BY <1>1, <1>2
  <2> QED
    BY <1>1, <1>4, <2>3, <2>4, <2>5
<1> QED
  BY <1>1, <1>2, <1>3, <1>5

\* A closed window adds one record at most, and at the mark a rung.
LEMMA PushAhead ==
    ASSUME Margin, QueueInv, Ahead, task.running, PushRecord, take' = take
    PROVE  Ahead'
<1>1. /\ TypeOK /\ ring \in RingState /\ ring' \in RingState /\ lad \in LadState
      /\ task \in TaskState /\ Ordered /\ Runs /\ Aligned(ring)
      /\ lad'.rungs = lad.rungs /\ task'.adapt = task.adapt /\ lad' \in LadState
  BY PushIs DEF QueueInv, ReadInv, TypeOK, Ordered
<1>2. /\ ring'.stride = ring.stride /\ ring'.tail = ring.tail
      /\ Waiting \in Nat /\ Waiting' \in Nat /\ Waiting' <= Waiting + 1
  <2>1. CASE RoomForRecord
    <3> DEFINE h == (ring.head + ring.stride) % Bytes
               p == ring.produced + 1
    <3>1. ring' = [ring EXCEPT !.head = h, !.produced = p]
      BY <1>1, <2>1 DEF PushRecord, PutRecord, RingState
    <3> HIDE DEF p
    <3>2. ring'.stride = ring.stride /\ ring'.tail = ring.tail /\ ring'.head = h
      BY <1>1, <3>1 DEF RingState
    <3>3. ring.stride # 0
      BY <1>1, RunningStride
    <3>4. Count(ring') = Count(ring) + 1 /\ Count(ring) \in Nat
      BY <1>1, <2>1, <3>2, <3>3, HeadMoves, RingIs DEF RoomForRecord
    <3> QED
      BY <3>2, <3>4, LineIsQueue
  <2>2. CASE ~RoomForRecord
    <3>1. ring' = ring
      BY <2>2 DEF PushRecord, PutRecord
    <3> QED
      BY <1>1, <3>1, LineIsQueue, RingIs
  <2> QED
    BY <2>1, <2>2
<1>3. Held' = Held /\ Adapts' = Adapts /\ Climb' = Climb
  BY <1>1, <1>2 DEF Held, Adapts, Climb, Capacity
<1>4. lad'.rung = RungFor(Waiting')
  <2>1. OnRung(RungFor(Available(ring'.head, ring.tail)),
               LowFor(Available(ring'.head, ring.tail)))
    BY DEF PushRecord
  <2>2. Available(ring'.head, ring.tail) = Waiting'
    BY <1>2 DEF Available, Waiting
  <2> QED
    BY <1>1, <2>1, <2>2 DEF OnRung, LadState
<1>5. /\ Climb \in Nat /\ Climb >= 1 /\ Held \in Nat /\ lad.rung \in Nat /\ lad'.rung \in Nat
  BY <1>1, RunningStride, ClimbIs DEF LadState, Held
<1>6. SUFFICES ASSUME Adapts PROVE lad'.rung + 1 >= Held \/ lad'.rung + Climb > Waiting'
  BY <1>3 DEF Ahead
<1>7. lad.rung + 1 >= Held \/ lad.rung + Climb > Waiting
  BY <1>6 DEF Ahead
<1>8. CASE Waiting' >= Climb
  <2>1. lad'.rung = IF lad.rung + 1 < Held THEN lad.rung + 1 ELSE lad.rung
    BY <1>2, <1>4, <1>5, <1>6, <1>8, RungAtMark
  <2> QED
    BY <1>2, <1>5, <1>7, <2>1
<1>9. CASE ~(Waiting' >= Climb)
  BY <1>2, <1>5, <1>9
<1> QED
  BY <1>8, <1>9

\* The ladder, the ring and the task as they were.
LEMMA AheadStays ==
    ASSUME Ahead, UNCHANGED <<ring, lad>>, task'.running => task.running /\ task'.adapt = task.adapt
    PROVE  Ahead'
BY DEF Ahead, Adapts, Held, Climb, Capacity, Waiting, Available

LEMMA StoreTailAhead ==
    ASSUME Margin, QueueInv, Ahead, TypeOK', StoreTail
    PROVE  Ahead'
<1>1. /\ take.step = "store" /\ take \in TakeState /\ ring \in RingState /\ ring' \in RingState
      /\ ring' = [ring EXCEPT !.tail = take.next] /\ lad \in LadState
      /\ task' = task /\ lad' = lad
  BY DEF StoreTail, TypeOK, QueueInv, ReadInv
<1>2. /\ Aligned(ring) /\ Count(ring) # 0 /\ take.next = (ring.tail + ring.stride) % Bytes
  BY <1>1 DEF QueueInv, Ordered, Taken
<1>3. /\ ring'.tail = (ring.tail + ring.stride) % Bytes
      /\ ring'.stride = ring.stride /\ ring'.head = ring.head
  BY <1>1, <1>2 DEF RingState
<1>4. Count(ring') = Count(ring) - 1 /\ Count(ring) \in Nat
  BY <1>1, <1>2, <1>3, TailMoves, RingIs
<1>5. Waiting' = Waiting - 1 /\ Waiting \in Nat
  BY <1>4, LineIsQueue
<1>6. Held' = Held /\ Adapts' = Adapts /\ Climb' = Climb
  BY <1>1, <1>3 DEF Held, Adapts, Climb, Capacity
<1>7. task.running => Climb \in Nat
  BY RunningStride, ClimbIs DEF QueueInv, ReadInv, Ordered
<1> QED
  BY <1>1, <1>5, <1>6, <1>7 DEF Ahead, LadState

LEMMA StartAhead ==
    ASSUME Margin, QueueInv, QueueInv', Start
    PROVE  Ahead'
<1>1. /\ ring' = Fresh(ring.stride) /\ task'.running /\ lad' \in LadState
      /\ ring' \in RingState /\ buf' \in Buffers
  BY DEF Start, QueueInv, ReadInv, TypeOK, TaskState, Buffers
<1>2. ring'.head = ring'.tail
  BY <1>1 DEF Fresh, NoRing
<1>3. Waiting' = 0
  BY <1>1, <1>2, EmptyLine, LineIsQueue
<1>4. Climb' \in Nat /\ Climb' >= 1
  <2>1. ring'.stride = ring.stride /\ ring.stride # 0
    BY <1>1 DEF Fresh, NoRing, Start
  <2>2. Climb' = Climb
    BY <2>1 DEF Climb, Capacity
  <2> QED
    BY <2>1, <2>2, ClimbIs DEF QueueInv, ReadInv
<1>5. lad'.rung \in Nat
  BY <1>1 DEF LadState
<1> QED
  BY <1>3, <1>4, <1>5 DEF Ahead

LEMMA StepAhead ==
    ASSUME Margin, QueueInv, QueueInv', Ahead, [Next]_vars
    PROVE  Ahead'
<1>1. TypeOK /\ TypeOK' /\ task \in TaskState
  BY DEF QueueInv, ReadInv, TypeOK
<1>2. CASE OnInjected \/ Poll
  <2>1. task.running /\ Sweep /\ take' = take
    BY <1>2 DEF OnInjected, Poll
  <2>2. CASE FeedWaits \/ FeedSwallows
    BY <2>2, AheadStays DEF FeedWaits, FeedSwallows
  <2>3. CASE FeedCloses
    BY <2>1, <2>3, PushAhead DEF FeedCloses
  <2>4. CASE LosePower
    BY <1>1, <2>4, LosePowerIs DEF Ahead
  <2> QED
    BY <2>1, <2>2, <2>3, <2>4 DEF Sweep, Feed
<1>3. CASE TakeStep
  BY <1>1, <1>3, AheadStays, StoreTailAhead DEF TakeStep, ReadHead, ReadTail, ReadRest
<1>4. CASE HostOps
  <2>1. CASE Start
    BY <2>1, StartAhead
  <2>2. CASE \E want \in Wants : BeginRead(want)
    BY <2>2, AheadStays DEF BeginRead
  <2>3. CASE Stop
    <3>1. ~task'.running
      BY <1>1, <2>3 DEF Stop, TaskState
    <3> QED
      BY <3>1 DEF Ahead
  <2>4. CASE \E f \in Fields, a \in Accumulates, c \in Counts, adapt \in BOOLEAN,
                k \in Clocks : Configure(f, a, c, adapt, k)
    <3>1. ~task'.running
      BY <2>4 DEF Configure
    <3> QED
      BY <3>1 DEF Ahead
  <2>5. CASE Lend \/ \E f \in Refused : ConfigureRefused(f)
    <3>1. ~task'.running
      BY <1>1, <2>5 DEF Lend, ConfigureRefused, TaskState
    <3> QED
      BY <3>1 DEF Ahead
  <2>6. CASE \/ \E filters \in BOOLEAN : SetFilter(filters)
             \/ \E d \in Designs : SetBottom(d) \/ \E n \in 1..Ladder : SetRung(n, d)
    <3>1. ~task'.running
      BY <1>1, <2>6 DEF SetFilter, SetBottom, SetRung, TaskState
    <3> QED
      BY <3>1 DEF Ahead
  <2> QED
    BY <1>4, <2>1, <2>2, <2>3, <2>4, <2>5, <2>6 DEF HostOps
<1>5. CASE SwitchAfe \/ UNCHANGED vars
  BY <1>5, AheadStays DEF SwitchAfe, vars
<1> QED
  BY <1>2, <1>3, <1>4, <1>5 DEF Next

\* ladder_step is ahead of the ring: put_record leaves a record out only where
\* there is no slower rung to go to, for a ring and a ladder of any size with
\* that many records between the climb mark and the full ring.
THEOREM LeftOutAtTop ==
    ASSUME {"powered", "heeds"} \subseteq Habits, Margin
    PROVE  Spec => []LeavesOutAtTop
<1>1. Init => QueueInv /\ Ahead
  <2> SUFFICES ASSUME Init PROVE QueueInv /\ Ahead
    OBVIOUS
  <2>1. ~task.running
    BY DEF Init
  <2> QED
    BY <2>1, QueueStarts DEF Ahead
<1>2. QueueInv /\ [Next]_vars => QueueInv'
  BY StepMoves
<1>3. QueueInv /\ QueueInv' /\ Ahead /\ [Next]_vars => Ahead'
  BY StepAhead
<1>4. QueueInv /\ Ahead => LeavesOutAtTop
  <2> SUFFICES ASSUME QueueInv, Ahead, task.running, Adapts, ~RoomForRecord
               PROVE  lad.rung + 1 >= Held
    BY DEF LeavesOutAtTop
  <2>1. TypeOK /\ Runs /\ Aligned(ring) /\ lad \in LadState /\ Held <= Ladder
    BY DEF QueueInv, ReadInv, Ordered, TypeOK
  <2>2. /\ ring.stride # 0 /\ Capacity \in Nat /\ Climb \in Nat
        /\ Climb + Ladder <= Capacity + 1
    BY <2>1, RunningStride, ClimbIs
  <2>3. Waiting + 1 >= Capacity /\ Waiting \in Nat
    BY <2>1, <2>2, FullIs, LineIsQueue, RingIs DEF TypeOK
  <2>4. lad.rung \in Nat /\ Held \in Nat /\ Ladder \in Nat
    BY <2>1, Numbers DEF LadState, Held
  <2>5. lad.rung + 1 >= Held \/ lad.rung + Climb > Waiting
    BY DEF Ahead
  <2> QED
    BY <2>1, <2>2, <2>3, <2>4, <2>5
<1> QED
  BY <1>1, <1>2, <1>3, <1>4, PTL DEF Spec

=============================================================================
