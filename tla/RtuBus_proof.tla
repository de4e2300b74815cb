---------------------------- MODULE RtuBus_proof ----------------------------
(***************************************************************************)
(* The bus with any number of nodes, whatever noise there is.  No ring, no *)
(* frame and no input outgrows its bound; a quiet line ends every frame,   *)
(* spoilt ones included; a node acts on a request once; the answer the     *)
(* host takes is its request's; and what no noise has touched is heard and *)
(* answered.  The invariants build on each other: QuietInv, OnceInv,       *)
(* OwnInv on both, CleanInv on OwnInv.                                     *)
(***************************************************************************)
EXTENDS RtuBus, SequenceTheorems, FiniteSetTheorems, TLAPS

-----------------------------------------------------------------------------
(* The types.                                                              *)

ReceiverState == [receiving : BOOLEAN, bad : BOOLEAN, rx : Seq(Chars), last : Nat]

PortState ==
    [ring : Seq(Stamped), fault : BOOLEAN, rtu : ReceiverState, taken : 0..Take,
     since : Nat, held : Stamped \cup {None}, out : Frames \cup {None},
     sent : 0..Size, ran : Nat]

HostState ==
    [pc : {"idle", "send", "settle", "wait"}, request : Frames, sent : 0..Size,
     got : Seq(Chars), quiet : 0..(Timeout + Gap), unit : Units \cup {Broadcast, None},
     proven : BOOLEAN, clean : BOOLEAN, harmed : BOOLEAN]

\* A ring, a frame and the host's input within their bounds.
PortFits(p) == p \in PortState /\ Len(p.ring) <= Ring /\ Len(p.rtu.rx) <= AduMax

HostFits(h) == h \in HostState /\ Len(h.got) <= Size + 1

BusTypes ==
    /\ HostFits(host)
    /\ port = [u \in Units |-> port[u]] /\ \A u \in Units : PortFits(port[u])
    /\ noise \in 0..MaxNoise /\ still \in 0..Calm /\ hit \in BOOLEAN

LEMMA ConstantsAre ==
    /\ Size \in Nat \ {0} /\ T15 \in Nat \ {0} /\ T35 \in Nat \ {0} /\ Take \in Nat \ {0}
    /\ Ring \in Nat \ {0} /\ AduMax \in Nat \ {0} /\ Timeout \in Nat \ {0}
    /\ Quiet \in Nat \ {0} /\ Gap \in Nat \ {0} /\ Settle \in Nat \ {0}
    /\ Late \in Nat \ {0} /\ MaxNoise \in Nat /\ Calm \in Nat /\ Size <= AduMax
    /\ Calm = T35 + 3 * Late
<1>1. /\ Size \in Nat \ {0} /\ T15 \in Nat \ {0} /\ T35 \in Nat \ {0} /\ Take \in Nat \ {0}
      /\ Ring \in Nat \ {0} /\ AduMax \in Nat \ {0} /\ Timeout \in Nat \ {0}
      /\ Quiet \in Nat \ {0} /\ Gap \in Nat \ {0} /\ Settle \in Nat \ {0}
      /\ Late \in Nat \ {0} /\ MaxNoise \in Nat /\ Size <= AduMax
  BY BusAssumption
<1>2. Calm = T35 + 3 * Late
  BY DEF Calm
<1> QED
  BY <1>1, <1>2

LEMMA CharsAre ==
    /\ Chars = [frame : Frames \cup {None}, k : 0..Size]
    /\ Garbage \in Chars
    /\ \A f \in Frames : \A k \in 0..Size : Char(f, k) \in Chars
    /\ \A c \in Chars : c # None
<1>1. Chars = [frame : Frames \cup {None}, k : 0..Size]
  BY DEF Chars
<1>2. 0 \in 0..Size
  BY ConstantsAre
<1> QED
  BY <1>1, <1>2, NoneAssumption DEF Garbage, Char

LEMMA RequestIs ==
    ASSUME NEW to \in Units \cup {Broadcast}, NEW hinted \in BOOLEAN
    PROVE  Request(to, hinted) \in Frames
BY DEF Request, Frames

LEMMA AnswerIs ==
    ASSUME NEW u \in Units, NEW now \in BOOLEAN
    PROVE  Answer(u, now) \in Frames
BY DEF Answer, Frames

LEMMA LesserIs ==
    ASSUME NEW a \in Nat, NEW b \in Nat
    PROVE  Lesser(a, b) \in 0..b /\ Lesser(a, b) <= a
BY DEF Lesser

LEMMA ElapsedIs ==
    ASSUME NEW at \in Nat, NEW then \in Nat
    PROVE  Elapsed(at, then) \in Nat
BY DEF Elapsed, Forever

-----------------------------------------------------------------------------
(* The receiver.                                                           *)

ReceiverFits(r) == r \in ReceiverState /\ Len(r.rx) <= AduMax

LEMMA ReceiverIs == ReceiverFits(Receiver) /\ ~ Receiver.receiving
<1> DEFINE rx == <<>>
<1>1. rx \in Seq(Chars) /\ Len(rx) = 0
  OBVIOUS
<1> HIDE DEF rx
<1>2. Receiver = [receiving |-> FALSE, bad |-> FALSE, rx |-> rx, last |-> 0]
  BY DEF Receiver, rx
<1> QED
  BY <1>1, <1>2, ConstantsAre DEF ReceiverFits, ReceiverState

LEMMA OnByteIs ==
    ASSUME NEW r, ReceiverFits(r), NEW char \in Chars, NEW at \in Nat
    PROVE  LET q == OnByte(r, char, at)
           IN ReceiverFits(q) /\ q.receiving /\ q.last = at
<1> DEFINE room == ~ r.receiving \/ Len(r.rx) < AduMax
           bad == \/ r.receiving /\ (r.bad \/ Elapsed(at, r.last) > T15)
                  \/ ~ room
           rx == IF ~ r.receiving THEN <<char>> ELSE IF room THEN Append(r.rx, char) ELSE r.rx
<1>1. OnByte(r, char, at) = [receiving |-> TRUE, bad |-> bad, rx |-> rx, last |-> at]
  BY DEF OnByte
<1>2. bad \in BOOLEAN
  BY DEF ReceiverFits, ReceiverState
<1>3. rx \in Seq(Chars) /\ Len(rx) <= AduMax
  <2>1. r.rx \in Seq(Chars) /\ Len(r.rx) <= AduMax /\ Len(r.rx) \in Nat
        /\ r.receiving \in BOOLEAN
    BY DEF ReceiverFits, ReceiverState
  <2>2. <<char>> \in Seq(Chars) /\ Len(<<char>>) = 1
    OBVIOUS
  <2>3. Append(r.rx, char) \in Seq(Chars) /\ Len(Append(r.rx, char)) = Len(r.rx) + 1
    BY <2>1
  <2> DEFINE one == <<char>>
             more == Append(r.rx, char)
  <2> HIDE DEF one, more
  <2>4. rx = IF ~ r.receiving THEN one ELSE IF room THEN more ELSE r.rx
    BY DEF one, more
  <2>5. CASE ~ r.receiving
    BY <2>2, <2>4, <2>5, ConstantsAre DEF one
  <2>6. CASE r.receiving /\ room
    BY <2>1, <2>3, <2>4, <2>6, ConstantsAre DEF more
  <2>7. CASE r.receiving /\ ~ room
    BY <2>1, <2>4, <2>7
  <2> QED
    BY <2>5, <2>6, <2>7
<1> HIDE DEF bad, rx
<1> QED
  BY <1>1, <1>2, <1>3 DEF ReceiverFits, ReceiverState

LEMMA OnErrorIs ==
    ASSUME NEW r, ReceiverFits(r)
    PROVE  LET q == OnError(r)
           IN ReceiverFits(q) /\ q.receiving /\ q.last = 0
BY DEF OnError, ReceiverFits, ReceiverState

\* A frame of ours is a frame.
LEMMA OursIs ==
    ASSUME NEW r, ReceiverFits(r), NEW u, Ours(r, u)
    PROVE  r.rx[1].frame \in Frames
<1>1. r.rx \in Seq(Chars) /\ Len(r.rx) = Size /\ Head(r.rx).frame # None
  BY DEF Ours, Whole, ReceiverFits, ReceiverState
<1>2. 1 \in 1..Len(r.rx) /\ Head(r.rx) = r.rx[1]
  BY <1>1, ConstantsAre
<1>3. r.rx[1] \in Chars /\ r.rx[1].frame # None
  BY <1>1, <1>2
<1> QED
  BY <1>3, CharsAre

-----------------------------------------------------------------------------
(* A node's steps, field by field.                                         *)

LEMMA PortIs ==
    ASSUME NEW p, PortFits(p)
    PROVE  /\ p.ring \in Seq(Stamped) /\ Len(p.ring) \in Nat /\ Len(p.ring) <= Ring
           /\ ReceiverFits(p.rtu) /\ p.taken \in 0..Take /\ p.since \in Nat
           /\ p.held \in Stamped \cup {None} /\ p.out \in Frames \cup {None}
           /\ p.sent \in 0..Size /\ p.ran \in Nat /\ p.fault \in BOOLEAN
           /\ p.rtu.last \in Nat /\ p.rtu.receiving \in BOOLEAN
BY DEF PortFits, PortState, ReceiverFits, ReceiverState

\* The answer a closed frame gets, and the count of requests after it.
OutOf(u, rtu) ==
    IF Ours(rtu, u) /\ rtu.rx[1].frame.to # Broadcast
    THEN Answer(u, rtu.rx[1].frame.now) ELSE None
RanOf(u, rtu, ran) == IF Ours(rtu, u) /\ rtu.rx[1].frame.now THEN ran + 1 ELSE ran

\* The receiver is emptied; an answer may have to be sent.
LEMMA PumpedIs ==
    ASSUME NEW u \in Units, NEW p, PortFits(p), p.out = None
    PROVE  LET q == Pumped(u, p)
           IN /\ PortFits(q) /\ q.rtu = Receiver
              /\ q.out = OutOf(u, p.rtu) /\ q.ran = RanOf(u, p.rtu, p.ran)
              /\ q.ring = p.ring /\ q.fault = p.fault /\ q.taken = p.taken
              /\ q.since = p.since /\ q.held = p.held /\ q.sent = p.sent
<1> DEFINE rtu == p.rtu
           frame == rtu.rx[1].frame
           closed == [p EXCEPT !.rtu = Receiver]
           ran == IF frame.now THEN p.ran + 1 ELSE p.ran
           out == IF frame.to = Broadcast THEN None ELSE Answer(u, frame.now)
           full == [closed EXCEPT !.ran = ran, !.out = out]
<1>1. p \in PortState /\ ReceiverFits(p.rtu) /\ p.ran \in Nat /\ Len(p.ring) <= Ring
  BY PortIs DEF PortFits
<1>2. Receiver \in ReceiverState /\ Len(Receiver.rx) <= AduMax
  BY ReceiverIs DEF ReceiverFits
<1>3. /\ closed \in PortState /\ closed.rtu = Receiver /\ closed.ran = p.ran
      /\ closed.ring = p.ring /\ closed.fault = p.fault /\ closed.taken = p.taken
      /\ closed.since = p.since /\ closed.held = p.held /\ closed.sent = p.sent
      /\ closed.out = None
  BY <1>1, <1>2 DEF PortState
<1>4. CASE ~ Ours(rtu, u)
  <2>1. Pumped(u, p) = closed
    BY <1>4 DEF Pumped, Closed
  <2>2. OutOf(u, p.rtu) = None /\ RanOf(u, p.rtu, p.ran) = p.ran
    BY <1>4 DEF OutOf, RanOf
  <2> HIDE DEF closed
  <2> QED
    BY <1>1, <1>2, <1>3, <2>1, <2>2 DEF PortFits
<1>5. CASE Ours(rtu, u)
  <2>1. frame \in Frames
    BY <1>1, <1>5, OursIs
  <2>2. ran \in Nat /\ out \in Frames \cup {None}
    BY <1>1, <2>1, AnswerIs DEF Frames
  <2>3. Pumped(u, p) = [closed EXCEPT !.ran = IF frame.now THEN @ + 1 ELSE @,
                                      !.out = out]
    BY <1>5 DEF Pumped, Closed
  <2>4. Pumped(u, p) = full
    BY <1>3, <2>3 DEF PortState
  <2>6. OutOf(u, p.rtu) = out /\ RanOf(u, p.rtu, p.ran) = ran
    BY <1>5 DEF OutOf, RanOf
  <2> HIDE DEF closed, ran, out
  <2>5. /\ full \in PortState /\ full.rtu = Receiver /\ full.ran = ran /\ full.out = out
        /\ full.ring = p.ring /\ full.fault = p.fault /\ full.taken = p.taken
        /\ full.since = p.since /\ full.held = p.held /\ full.sent = p.sent
    BY <1>3, <2>2 DEF PortState
  <2> QED
    BY <1>1, <1>2, <2>4, <2>5, <2>6 DEF PortFits
<1> QED
  BY <1>4, <1>5

\* A step of one node's.
Alone(u) ==
    /\ UNCHANGED <<host, noise, still, hit>>
    /\ port' = [v \in Units |-> port'[v]]
    /\ \A v \in Units \ {u} : port'[v] = port[v]

LEMMA PortSet ==
    ASSUME BusTypes, NEW u \in Units, NEW q, port' = [port EXCEPT ![u] = q],
           UNCHANGED <<host, noise, still, hit>>
    PROVE  Alone(u) /\ port'[u] = q
BY DEF BusTypes, Alone

\* The ring's next character came after the silence that ends a frame.
Breaks(p) == p.rtu.receiving /\ Elapsed(Head(p.ring).at, p.rtu.last) > T35

\* A character of the ring's goes into the receiver, or is held while the frame
\* before it is answered.
LEMMA TakeOneIs ==
    ASSUME BusTypes, NEW u \in Units, TakeOne(u)
    PROVE  LET p == port[u]
               q == port'[u]
           IN /\ Alone(u) /\ PortFits(q)
              /\ p.out = None /\ ~ p.fault /\ p.taken < Take /\ p.ring # <<>>
              /\ q.ring = Tail(p.ring) /\ q.taken = p.taken + 1 /\ ~ q.fault
              /\ q.since = p.since /\ q.sent = p.sent
              /\ q.out = IF Breaks(p) THEN OutOf(u, p.rtu) ELSE None
              /\ q.ran = IF Breaks(p) THEN RanOf(u, p.rtu, p.ran) ELSE p.ran
              /\ \/ q.out # None /\ q.held = Head(p.ring) /\ q.rtu = Receiver
                 \/ /\ q.out = None /\ q.held = p.held /\ q.rtu.last = Head(p.ring).at
                    /\ q.rtu = OnByte(IF Breaks(p) THEN Receiver ELSE p.rtu,
                                      Head(p.ring).char, Head(p.ring).at)
<1> DEFINE p == port[u]
           c == Head(p.ring)
           tail == Tail(p.ring)
           taken == p.taken + 1
           popped == [p EXCEPT !.ring = tail, !.taken = taken]
           late == p.rtu.receiving /\ Elapsed(c.at, p.rtu.last) > T35
           pumped == IF late THEN Pumped(u, popped) ELSE popped
           heard == OnByte(pumped.rtu, c.char, c.at)
           holding == [pumped EXCEPT !.held = c]
           taking == [pumped EXCEPT !.rtu = heard]
<1>1. /\ PortFits(p) /\ HostFits(host) /\ p \in PortState
      /\ p.out = None /\ ~ p.fault /\ p.taken < Take /\ p.ring # <<>>
  BY DEF TakeOne, Looping, BusTypes, PortFits
<1>2. /\ p.ring \in Seq(Stamped) /\ p.taken \in 0..Take /\ Len(p.ring) <= Ring
      /\ Len(p.ring) \in Nat /\ Len(p.rtu.rx) <= AduMax
  BY <1>1, PortIs DEF PortFits
<1>3. c \in Stamped /\ tail \in Seq(Stamped) /\ Len(tail) <= Ring /\ taken \in 0..Take
  <2>1. Len(p.ring) # 0
    BY <1>1, <1>2, EmptySeq
  <2>2. taken \in 0..Take
    BY <1>1, <1>2, ConstantsAre
  <2>3. c \in Stamped /\ tail \in Seq(Stamped) /\ Len(tail) = Len(p.ring) - 1
    BY <1>1, <1>2, <2>1
  <2>4. Len(tail) <= Ring
    BY <1>2, <2>1, <2>3, ConstantsAre
  <2> QED
    BY <2>2, <2>3, <2>4
<1>4. c.char \in Chars /\ c.at \in Nat
  BY <1>3 DEF Stamped
<1>5. port' = [port EXCEPT ![u] = IF pumped.out # None THEN [pumped EXCEPT !.held = c]
                                  ELSE [pumped EXCEPT !.rtu = OnByte(@, c.char, c.at)]]
      /\ UNCHANGED <<host, noise, still, hit>>
  <2>1. popped = [p EXCEPT !.ring = Tail(@), !.taken = @ + 1]
    BY <1>1 DEF PortState
  <2> HIDE DEF tail, taken, popped
  <2> QED
    BY <2>1 DEF TakeOne
<1> HIDE DEF c, tail, taken
<1>6. /\ PortFits(popped) /\ popped.ring = tail /\ popped.taken = taken
      /\ popped.fault = p.fault /\ popped.since = p.since /\ popped.sent = p.sent
      /\ popped.held = p.held /\ popped.out = None
      /\ popped.rtu = p.rtu /\ popped.ran = p.ran
  <2>1. /\ popped \in PortState /\ popped.ring = tail /\ popped.taken = taken
        /\ popped.fault = p.fault /\ popped.since = p.since /\ popped.sent = p.sent
        /\ popped.held = p.held /\ popped.out = p.out /\ popped.rtu = p.rtu
        /\ popped.ran = p.ran
    BY <1>1, <1>3 DEF PortState
  <2> QED
    BY <1>1, <1>2, <1>3, <2>1 DEF PortFits
<1> HIDE DEF popped
<1>7. /\ PortFits(pumped) /\ pumped.ring = tail /\ pumped.taken = taken
      /\ pumped.fault = p.fault /\ pumped.since = p.since /\ pumped.sent = p.sent
      /\ pumped.held = p.held /\ (pumped.out # None => pumped.rtu = Receiver)
      /\ pumped.rtu = (IF late THEN Receiver ELSE p.rtu)
      /\ pumped.out = (IF late THEN OutOf(u, p.rtu) ELSE None)
      /\ pumped.ran = (IF late THEN RanOf(u, p.rtu, p.ran) ELSE p.ran)
  <2> HIDE DEF late
  <2>1. CASE late
    BY <1>1, <1>6, <2>1, PumpedIs
  <2>2. CASE ~ late
    BY <1>1, <1>6, <2>2
  <2> QED
    BY <2>1, <2>2
<1>8. pumped \in PortState /\ ReceiverFits(pumped.rtu) /\ Len(pumped.ring) <= Ring
      /\ Len(pumped.rtu.rx) <= AduMax
  BY <1>7, PortIs DEF PortFits
<1> HIDE DEF pumped
<1>9. ReceiverFits(heard) /\ heard.receiving /\ heard.last = c.at
  BY <1>4, <1>8, OnByteIs
<1>10. port' = [port EXCEPT ![u] = IF pumped.out # None THEN holding ELSE taking]
  BY <1>5, <1>8 DEF PortState
<1> HIDE DEF heard
<1>11. /\ PortFits(holding) /\ holding.ring = tail /\ holding.taken = taken
       /\ holding.fault = p.fault /\ holding.since = p.since /\ holding.sent = p.sent
       /\ holding.held = c /\ holding.out = pumped.out /\ holding.rtu = pumped.rtu
       /\ holding.ran = pumped.ran
  BY <1>3, <1>7, <1>8 DEF PortFits, PortState
<1>12. /\ PortFits(taking) /\ taking.ring = tail /\ taking.taken = taken
       /\ taking.fault = p.fault /\ taking.since = p.since /\ taking.sent = p.sent
       /\ taking.held = p.held /\ taking.out = pumped.out /\ taking.rtu = heard
       /\ taking.ran = pumped.ran
  BY <1>7, <1>8, <1>9 DEF PortFits, PortState, ReceiverFits
<1> HIDE DEF holding, taking
<1>13. Alone(u) /\ port'[u] = IF pumped.out # None THEN holding ELSE taking
  BY <1>5, <1>10, PortSet
<1>14. late <=> Breaks(p)
  BY DEF Breaks, c
<1>15. heard = OnByte(IF late THEN Receiver ELSE p.rtu, c.char, c.at)
  BY <1>7 DEF heard
<1> HIDE DEF late
<1> QED
  BY <1>1, <1>7, <1>9, <1>11, <1>12, <1>13, <1>14, <1>15 DEF c, tail, taken

\* The error reported, the frame ended, or neither.
LEMMA PassEndsIs ==
    ASSUME BusTypes, NEW u \in Units, PassEnds(u)
    PROVE  LET p == port[u]
               q == port'[u]
           IN /\ Alone(u) /\ PortFits(q)
              /\ p.out = None /\ (p.fault \/ p.ring = <<>> \/ p.taken = Take)
              /\ q.ring = p.ring /\ q.taken = 0 /\ q.since = 0
              /\ q.held = p.held /\ q.sent = p.sent
              /\ \/ /\ p.fault /\ p.taken < Take
                    /\ ~ q.fault /\ q.rtu.last = 0 /\ q.out = None
                    /\ q.rtu = OnError(p.rtu) /\ q.ran = p.ran
                 \/ /\ ~ (p.fault /\ p.taken < Take) /\ Ends(p.rtu, u, 0)
                    /\ q.fault = p.fault /\ q.rtu = Receiver
                    /\ q.out = OutOf(u, p.rtu) /\ q.ran = RanOf(u, p.rtu, p.ran)
                 \/ /\ ~ (p.fault /\ p.taken < Take) /\ ~ Ends(p.rtu, u, 0)
                    /\ q.fault = p.fault /\ q.rtu = p.rtu /\ q.out = None /\ q.ran = p.ran
                    /\ p.rtu.receiving => p.rtu.last < T35
<1> DEFINE p == port[u]
           over == [p EXCEPT !.taken = 0, !.since = 0]
           error == OnError(p.rtu)
           told == [over EXCEPT !.fault = FALSE, !.rtu = error]
           new == IF p.fault /\ p.taken < Take THEN told
                  ELSE IF Ends(p.rtu, u, 0) THEN Pumped(u, over) ELSE over
<1>1. /\ PortFits(p) /\ HostFits(host) /\ p \in PortState
      /\ p.out = None /\ (p.fault \/ p.ring = <<>> \/ p.taken = Take)
  BY DEF PassEnds, Looping, BusTypes, PortFits
<1>2. /\ Len(p.ring) <= Ring /\ Len(p.rtu.rx) <= AduMax /\ ReceiverFits(p.rtu)
      /\ p.fault \in BOOLEAN /\ p.rtu.last \in Nat
  BY <1>1, PortIs DEF PortFits
<1>3. 0 \in 0..Take /\ 0 \in Nat
  BY ConstantsAre
<1>4. /\ PortFits(over) /\ over \in PortState /\ over.ring = p.ring /\ over.taken = 0
      /\ over.since = 0 /\ over.held = p.held /\ over.sent = p.sent
      /\ over.fault = p.fault /\ over.rtu = p.rtu /\ over.out = None /\ over.ran = p.ran
  BY <1>1, <1>2, <1>3 DEF PortFits, PortState
<1>5. port' = [port EXCEPT ![u] =
                  IF p.fault /\ p.taken < Take
                  THEN [over EXCEPT !.fault = FALSE, !.rtu = OnError(@)]
                  ELSE IF Ends(p.rtu, u, 0) THEN Pumped(u, over) ELSE over]
      /\ UNCHANGED <<host, noise, still, hit>>
  <2> HIDE DEF over
  <2> QED
    BY DEF PassEnds, over
<1>6. port' = [port EXCEPT ![u] = new]
  BY <1>4, <1>5 DEF PortState
<1> HIDE DEF over, error
<1>7. ReceiverFits(error) /\ error.last = 0
  BY <1>2, OnErrorIs DEF error
<1>8. /\ PortFits(told) /\ told.ring = p.ring /\ told.taken = 0 /\ told.since = 0
      /\ told.held = p.held /\ told.sent = p.sent
      /\ ~ told.fault /\ told.rtu = error /\ told.out = None /\ told.ran = p.ran
  BY <1>2, <1>4, <1>7 DEF PortFits, PortState, ReceiverFits
<1> DEFINE pumped == Pumped(u, over)
<1>9. /\ PortFits(pumped) /\ pumped.ring = p.ring /\ pumped.taken = 0 /\ pumped.since = 0
      /\ pumped.held = p.held /\ pumped.sent = p.sent
      /\ pumped.fault = p.fault /\ pumped.rtu = Receiver
      /\ pumped.out = OutOf(u, p.rtu) /\ pumped.ran = RanOf(u, p.rtu, p.ran)
  BY <1>1, <1>4, PumpedIs
<1>10. ~ Ends(p.rtu, u, 0) => (p.rtu.receiving => p.rtu.last < T35)
  BY <1>2, ConstantsAre DEF Ends, Elapsed
<1> HIDE DEF told, pumped
<1>11. new = IF p.fault /\ p.taken < Take THEN told
             ELSE IF Ends(p.rtu, u, 0) THEN pumped ELSE over
  BY DEF pumped
<1> HIDE DEF new
<1>12. Alone(u) /\ port'[u] = new
  BY <1>5, <1>6, PortSet
<1>13. CASE p.fault /\ p.taken < Take
  <2>1. port'[u] = told
    BY <1>11, <1>12, <1>13
  <2> QED
    BY <1>1, <1>7, <1>8, <1>12, <1>13, <2>1 DEF error
<1>14. CASE ~ (p.fault /\ p.taken < Take) /\ Ends(p.rtu, u, 0)
  <2>1. port'[u] = pumped
    BY <1>11, <1>12, <1>14
  <2> QED
    BY <1>1, <1>9, <1>12, <1>14, <2>1
<1>15. CASE ~ (p.fault /\ p.taken < Take) /\ ~ Ends(p.rtu, u, 0)
  <2>1. port'[u] = over
    BY <1>11, <1>12, <1>15
  <2> QED
    BY <1>1, <1>4, <1>10, <1>12, <1>15, <2>1
<1> QED
  BY <1>13, <1>14, <1>15

\* The echo purged, the character held heard.
LEMMA SentIs ==
    ASSUME BusTypes, NEW u \in Units, Sent(u)
    PROVE  LET p == port[u]
               q == port'[u]
           IN /\ Alone(u) /\ PortFits(q)
              /\ p.out # None /\ p.sent = Size
              /\ q.ring = <<>> /\ ~ q.fault /\ q.out = None /\ q.sent = 0 /\ q.since = 0
              /\ q.taken = p.taken /\ q.ran = p.ran
              /\ \/ p.held = None /\ q.held = p.held /\ q.rtu = p.rtu
                 \/ /\ p.held # None /\ q.held = None /\ q.rtu.last = p.held.at
                    /\ q.rtu = OnByte(p.rtu, p.held.char, p.held.at)
<1> DEFINE p == port[u]
           ring == <<>>
           purged == [p EXCEPT !.ring = ring, !.fault = FALSE, !.out = None, !.sent = 0,
                               !.since = 0]
           heard == OnByte(p.rtu, p.held.char, p.held.at)
           full == [purged EXCEPT !.held = None, !.rtu = heard]
<1>1. /\ PortFits(p) /\ p \in PortState /\ p.out # None /\ p.sent = Size
  BY DEF Sent, BusTypes, PortFits
<1>2. /\ Len(p.rtu.rx) <= AduMax /\ ReceiverFits(p.rtu) /\ p.held \in Stamped \cup {None}
  BY <1>1, PortIs DEF PortFits
<1>3. ring \in Seq(Stamped) /\ Len(ring) = 0 /\ 0 \in 0..Size /\ 0 <= Ring
  BY ConstantsAre
<1>4. port' = [port EXCEPT ![u] =
                  IF p.held = None THEN purged
                  ELSE [purged EXCEPT !.held = None,
                                      !.rtu = OnByte(@, p.held.char, p.held.at)]]
      /\ UNCHANGED <<host, noise, still, hit>>
  BY DEF Sent
<1> HIDE DEF ring
<1>5. /\ PortFits(purged) /\ purged \in PortState /\ purged.ring = ring /\ ~ purged.fault
      /\ purged.out = None /\ purged.sent = 0 /\ purged.since = 0
      /\ purged.taken = p.taken /\ purged.held = p.held /\ purged.rtu = p.rtu
      /\ purged.ran = p.ran
  BY <1>1, <1>2, <1>3 DEF PortFits, PortState
<1>6. port' = [port EXCEPT ![u] = IF p.held = None THEN purged ELSE full]
  BY <1>4, <1>5 DEF PortState
<1> HIDE DEF purged, full
<1>7. Alone(u) /\ port'[u] = IF p.held = None THEN purged ELSE full
  BY <1>4, <1>6, PortSet
<1>8. CASE p.held = None
  BY <1>1, <1>5, <1>7, <1>8 DEF ring
<1>9. CASE p.held # None
  <2>1. ReceiverFits(heard) /\ heard.last = p.held.at
    <3>1. p.held.char \in Chars /\ p.held.at \in Nat
      BY <1>2, <1>9 DEF Stamped
    <3> QED
      BY <1>2, <3>1, OnByteIs
  <2> HIDE DEF heard
  <2>2. /\ PortFits(full) /\ full.ring = ring /\ ~ full.fault
        /\ full.out = None /\ full.sent = 0 /\ full.since = 0
        /\ full.taken = p.taken /\ full.held = None /\ full.rtu = heard
        /\ full.ran = p.ran
    BY <1>3, <1>5, <2>1 DEF PortFits, PortState, ReceiverFits, full
  <2>3. port'[u] = full
    BY <1>7, <1>9
  <2> QED
    BY <1>1, <1>7, <1>9, <2>1, <2>2, <2>3 DEF ring, heard
<1> QED
  BY <1>8, <1>9

-----------------------------------------------------------------------------
(* A character's time, field by field.                                     *)

LEMMA OlderIs ==
    ASSUME NEW c \in Stamped
    PROVE  Older(c) \in Stamped /\ Older(c).at = c.at + 1 /\ Older(c).char = c.char
BY DEF Older, Stamped

LEMMA AgedRing ==
    ASSUME NEW ring \in Seq(Stamped)
    PROVE  LET aged == [k \in DOMAIN ring |-> Older(ring[k])]
           IN /\ aged \in Seq(Stamped) /\ Len(aged) = Len(ring)
              /\ \A k \in DOMAIN aged : k \in DOMAIN ring /\ aged[k].at = ring[k].at + 1
                                      /\ aged[k].char = ring[k].char
<1> DEFINE aged == [k \in DOMAIN ring |-> Older(ring[k])]
<1>1. DOMAIN ring = 1..Len(ring) /\ Len(ring) \in Nat
  OBVIOUS
<1>2. \A k \in DOMAIN ring : ring[k] \in Stamped
  BY <1>1
<1>3. \A k \in DOMAIN ring : aged[k] \in Stamped /\ aged[k].at = ring[k].at + 1
                             /\ aged[k].char = ring[k].char
  BY <1>2, OlderIs
<1>4. aged = [k \in 1..Len(ring) |-> aged[k]] /\ DOMAIN aged = 1..Len(ring)
  BY <1>1
<1> HIDE DEF aged
<1>5. aged \in [1..Len(ring) -> Stamped]
  BY <1>1, <1>3, <1>4
<1>6. aged \in Seq(Stamped) /\ Len(aged) = Len(ring)
  BY <1>1, <1>5
<1> QED
  BY <1>1, <1>3, <1>4, <1>6 DEF aged

LEMMA AgedIs ==
    ASSUME NEW p, PortFits(p)
    PROVE  LET q == Aged(p)
           IN /\ PortFits(q) /\ Len(q.ring) = Len(p.ring)
              /\ \A k \in DOMAIN q.ring : k \in DOMAIN p.ring /\ q.ring[k].at = p.ring[k].at + 1
                                        /\ q.ring[k].char = p.ring[k].char
              /\ q.held # None => p.held # None /\ q.held.at = p.held.at + 1
                                 /\ q.held.char = p.held.char
              /\ (p.held = None) = (q.held = None) /\ q.ran = p.ran
              /\ q.rtu.receiving = p.rtu.receiving /\ q.rtu.rx = p.rtu.rx /\ q.rtu.bad = p.rtu.bad
              /\ q.rtu.receiving => q.rtu.last = p.rtu.last + 1
              /\ q.since = IF p.out = None \/ p.sent = Size THEN p.since + 1 ELSE 0
              /\ q.fault = p.fault /\ q.taken = p.taken /\ q.out = p.out /\ q.sent = p.sent
<1> DEFINE ring == [k \in DOMAIN p.ring |-> Older(p.ring[k])]
           held == IF p.held = None THEN None ELSE Older(p.held)
           last == IF p.rtu.receiving THEN p.rtu.last + 1 ELSE 0
           rtu == [p.rtu EXCEPT !.last = last]
           since == IF p.out = None \/ p.sent = Size THEN p.since + 1 ELSE 0
           q == [p EXCEPT !.ring = ring, !.held = held, !.rtu = rtu, !.since = since]
<1>1. /\ p \in PortState /\ p.ring \in Seq(Stamped) /\ Len(p.ring) <= Ring
      /\ p.rtu \in ReceiverState /\ Len(p.rtu.rx) <= AduMax
      /\ p.held \in Stamped \cup {None} /\ p.since \in Nat
  BY PortIs DEF PortFits, ReceiverFits
<1>2. Aged(p) = q
  BY <1>1 DEF Aged, PortState, ReceiverState
<1>3. /\ ring \in Seq(Stamped) /\ Len(ring) = Len(p.ring)
      /\ \A k \in DOMAIN ring : k \in DOMAIN p.ring /\ ring[k].at = p.ring[k].at + 1
                              /\ ring[k].char = p.ring[k].char
  BY <1>1, AgedRing, Zenon
<1>4. held \in Stamped \cup {None} /\ (held # None => p.held # None /\ held.at = p.held.at + 1
                                                         /\ held.char = p.held.char)
      /\ (p.held = None) = (held = None)
  BY <1>1, OlderIs, NoneAssumption
<1>5. last \in Nat /\ since \in Nat
  BY <1>1 DEF ReceiverState
<1>6. /\ rtu \in ReceiverState /\ rtu.rx = p.rtu.rx /\ rtu.receiving = p.rtu.receiving
      /\ rtu.last = last /\ rtu.bad = p.rtu.bad
  <2> HIDE DEF last
  <2> QED
    BY <1>1, <1>5 DEF ReceiverState
<1> HIDE DEF ring, held, rtu, since
<1>7. /\ q \in PortState /\ q.ring = ring /\ q.held = held /\ q.rtu = rtu /\ q.since = since
      /\ q.fault = p.fault /\ q.taken = p.taken /\ q.out = p.out /\ q.sent = p.sent
      /\ q.ran = p.ran
  BY <1>1, <1>3, <1>4, <1>5, <1>6 DEF PortState
<1> HIDE DEF q
<1>8. PortFits(q)
  BY <1>1, <1>3, <1>6, <1>7 DEF PortFits
<1>9. q.rtu.receiving => q.rtu.last = p.rtu.last + 1
  BY <1>6, <1>7
<1> QED
  BY <1>2, <1>3, <1>4, <1>6, <1>7, <1>8, <1>9 DEF since

\* The line's character reaches the ring, or a full ring drops it.
LEMMA HeardIs ==
    ASSUME BusTypes, NEW u \in Units, NEW char \in Chars \cup {None}, NEW noisy \in BOOLEAN
    PROVE  LET p == port[u]
               a == Aged(p)
               q == Heard(u, char, noisy)
           IN /\ PortFits(q)
              /\ q.sent = IF u \in Sending THEN p.sent + 1 ELSE p.sent
              /\ q.out = p.out /\ q.held = a.held /\ q.taken = p.taken /\ q.rtu = a.rtu
              /\ q.since = a.since /\ q.ran = p.ran
              /\ char = None => q.ring = a.ring /\ q.fault = p.fault
              /\ char # None => /\ q.ring = IF Len(a.ring) < Ring
                                            THEN Append(a.ring, [char |-> char, at |-> 0])
                                            ELSE a.ring
                                /\ q.fault = (p.fault \/ noisy)
<1> DEFINE p == port[u]
           a == Aged(p)
           sent == IF u \in Sending THEN p.sent + 1 ELSE p.sent
           s == [a EXCEPT !.sent = sent]
           entry == [char |-> char, at |-> 0]
           more == Append(a.ring, entry)
           ring == IF Len(a.ring) < Ring THEN more ELSE a.ring
           fault == p.fault \/ noisy
           pushed == [s EXCEPT !.ring = ring]
           q == [pushed EXCEPT !.fault = fault]
<1>1. PortFits(p)
  BY DEF BusTypes
<1>2. /\ PortFits(a) /\ a.out = p.out /\ a.taken = p.taken /\ a.sent = p.sent
      /\ a.fault = p.fault /\ a.ran = p.ran
  BY <1>1, AgedIs
<1>3. /\ a \in PortState /\ a.ring \in Seq(Stamped) /\ Len(a.ring) <= Ring
      /\ Len(a.rtu.rx) <= AduMax /\ Len(a.ring) \in Nat
  BY <1>2, PortIs DEF PortFits
<1>4. sent \in 0..Size /\ fault \in BOOLEAN
  BY <1>1, PortIs, ConstantsAre DEF Sending
<1>5. (IF u \in Sending THEN [a EXCEPT !.sent = @ + 1] ELSE a) = s
  BY <1>2, <1>3 DEF PortState
<1>6. Heard(u, char, noisy) = IF char = None THEN s
                              ELSE [Pushed(s, char) EXCEPT !.fault = (@ \/ noisy)]
  <2> HIDE DEF s, a
  <2> QED
    BY <1>5 DEF Heard, a
<1> HIDE DEF a, sent, fault
<1>7. /\ s \in PortState /\ s.sent = sent /\ s.ring = a.ring /\ s.fault = p.fault
      /\ s.out = p.out /\ s.held = a.held /\ s.taken = p.taken /\ s.rtu = a.rtu
      /\ s.since = a.since /\ s.ran = p.ran
  BY <1>2, <1>3, <1>4 DEF PortState
<1>8. PortFits(s)
  BY <1>3, <1>7 DEF PortFits
<1>9. CASE char = None
  BY <1>6, <1>7, <1>8, <1>9 DEF a, sent
<1>10. CASE char # None
  <2>1. entry \in Stamped
    BY <1>10 DEF Stamped
  <2>2. more \in Seq(Stamped) /\ Len(more) = Len(a.ring) + 1
    BY <1>3, <2>1
  <2> HIDE DEF entry, more
  <2>3. ring \in Seq(Stamped) /\ Len(ring) <= Ring
    BY <1>3, <2>2, ConstantsAre
  <2>4. Pushed(s, char) = pushed
    <3>1. Pushed(s, char) = IF Len(s.ring) < Ring
                            THEN [s EXCEPT !.ring = Append(@, entry)] ELSE s
      BY DEF Pushed, entry
    <3>2. [s EXCEPT !.ring = Append(@, entry)] = [s EXCEPT !.ring = more]
      BY <1>7 DEF PortState, more
    <3>3. [s EXCEPT !.ring = a.ring] = s
      BY <1>7 DEF PortState
    <3> QED
      BY <1>7, <3>1, <3>2, <3>3
  <2> HIDE DEF ring, s
  <2>5. /\ pushed \in PortState /\ pushed.sent = sent /\ pushed.ring = ring
        /\ pushed.fault = p.fault /\ pushed.out = p.out /\ pushed.held = a.held
        /\ pushed.taken = p.taken /\ pushed.rtu = a.rtu /\ pushed.since = a.since
        /\ pushed.ran = p.ran
    BY <1>7, <2>3 DEF PortState
  <2>6. [Pushed(s, char) EXCEPT !.fault = (@ \/ noisy)] = q
    BY <2>4, <2>5 DEF PortState, fault
  <2> HIDE DEF pushed
  <2>7. /\ q \in PortState /\ q.sent = sent /\ q.ring = ring
        /\ q.out = p.out /\ q.held = a.held
        /\ q.taken = p.taken /\ q.rtu = a.rtu /\ q.since = a.since
        /\ q.ran = p.ran /\ q.fault = fault
    BY <1>4, <2>5 DEF PortState
  <2>8. PortFits(q)
    BY <1>3, <2>3, <2>7 DEF PortFits
  <2> HIDE DEF q
  <2>9. Heard(u, char, noisy) = q
    BY <1>6, <1>10, <2>6
  <2> QED
    BY <1>10, <2>7, <2>8, <2>9 DEF a, sent, ring, more, entry, fault
<1> QED
  BY <1>9, <1>10

\* The line is quiet only if nobody sends.
LEMMA CarriedIs ==
    ASSUME BusTypes
    PROVE  Carried \in Chars \cup {None} /\ (Carried = None => Sending = {})
<1>1. /\ host.request \in Frames /\ host.sent \in 0..Size
      /\ \A u \in Units : port[u].out \in Frames \cup {None} /\ port[u].sent \in 0..Size
  BY PortIs DEF BusTypes, HostFits, HostState
<1>2. CASE HostSends /\ Sending = {}
  <2>1. Carried = Char(host.request, host.sent + 1) /\ host.sent + 1 \in 0..Size
    BY <1>1, <1>2, ConstantsAre DEF Carried, HostSends
  <2> QED
    BY <1>1, <1>2, <2>1, CharsAre
<1>3. CASE ~ HostSends /\ Cardinality(Sending) = 1
  <2>1. Sending # {}
    BY <1>3, FS_EmptySet
  <2> DEFINE u == CHOOSE v \in Sending : TRUE
  <2>2. u \in Sending
    BY <2>1
  <2>3. Carried = Char(port[u].out, port[u].sent + 1)
    BY <1>3, <2>1 DEF Carried
  <2> HIDE DEF u
  <2>4. port[u].out \in Frames /\ port[u].sent + 1 \in 0..Size
    BY <1>1, <2>2, ConstantsAre DEF Sending
  <2>5. Carried \in Chars
    BY <2>3, <2>4, CharsAre
  <2> QED
    BY <2>5, CharsAre
<1>4. CASE ~ (HostSends /\ Sending = {}) /\ ~ (~ HostSends /\ Cardinality(Sending) = 1)
  <2>1. Carried = IF HostSends \/ Sending # {} THEN Garbage ELSE None
    BY <1>4 DEF Carried
  <2> QED
    BY <2>1, CharsAre
<1> QED
  BY <1>2, <1>3, <1>4

\* A tick of the line: what it carried, and what it made of the nodes.
LEMMA TickIs ==
    ASSUME BusTypes, NEW noisy \in BOOLEAN, Tick(noisy)
    PROVE  /\ BusTypes'
           /\ port' = [u \in Units |-> port'[u]]
           /\ \A u \in Units : InTime(u)
           /\ \E char \in Chars \cup {None} :
                 /\ \A u \in Units : port'[u] = Heard(u, char, noisy \/ char = Garbage)
                 /\ char = None => Sending = {}
                 /\ still' <= still + 1 /\ (char # None => still' = 0)
<1> DEFINE char == IF noisy THEN Garbage ELSE Carried
           quiet == IF host.pc = "wait" /\ char # None THEN 0
                    ELSE Lesser(host.quiet + 1, Timeout + Gap)
           sent == IF HostSends THEN host.sent + 1 ELSE host.sent
           got == IF host.pc \in {"wait", "idle"} /\ char # None /\ Len(host.got) <= Size
                  THEN Append(host.got, char) ELSE host.got
           harmed == host.harmed \/ noisy
<1>1. /\ HostFits(host) /\ host \in HostState /\ noise \in 0..MaxNoise
      /\ still \in 0..Calm /\ hit \in BOOLEAN /\ \A u \in Units : PortFits(port[u])
  BY DEF BusTypes, HostFits
<1>2. char \in Chars \cup {None} /\ (char = None => Sending = {})
  BY CarriedIs, CharsAre
<1>3. /\ \A u \in Units : InTime(u)
      /\ noisy => noise < MaxNoise
      /\ noise' = IF noisy THEN noise + 1 ELSE noise
      /\ port' = [u \in Units |-> Heard(u, char, noisy \/ char = Garbage)]
      /\ still' = (IF char = None THEN Lesser(still + 1, Calm) ELSE 0)
      /\ hit' = (noisy \/ (hit /\ ~ (still' >= T35 /\ \A u \in Units : AtRest(u))))
  BY DEF Tick
<1>4. host' = [host EXCEPT !.sent = sent, !.quiet = quiet, !.got = got, !.harmed = harmed]
  <2>1. host' = [host EXCEPT !.sent = IF HostSends THEN @ + 1 ELSE @,
                            !.quiet = IF host.pc = "wait" /\ char # None THEN 0
                                      ELSE Lesser(@ + 1, Timeout + Gap),
                            !.got = IF host.pc \in {"wait", "idle"} /\ char # None
                                       /\ Len(@) <= Size
                                    THEN Append(@, char) ELSE @,
                            !.harmed = (@ \/ noisy)]
    BY DEF Tick
  <2> HIDE DEF char
  <2> QED
    BY <1>1, <2>1 DEF HostState
<1> HIDE DEF char
<1>5. sent \in 0..Size /\ quiet \in 0..(Timeout + Gap) /\ harmed \in BOOLEAN
  <2>1. sent \in 0..Size
    BY <1>1, ConstantsAre DEF HostSends, HostState
  <2>2. Timeout + Gap \in Nat /\ host.quiet + 1 \in Nat
    BY <1>1, ConstantsAre DEF HostState
  <2>3. Lesser(host.quiet + 1, Timeout + Gap) \in 0..(Timeout + Gap)
    BY <2>2, LesserIs, Zenon
  <2>4. 0 \in 0..(Timeout + Gap)
    BY <2>2
  <2> QED
    BY <1>1, <2>1, <2>3, <2>4 DEF HostState
<1>6. got \in Seq(Chars) /\ Len(got) <= Size + 1
  <2>1. host.got \in Seq(Chars) /\ Len(host.got) <= Size + 1 /\ Len(host.got) \in Nat
    BY <1>1 DEF HostFits, HostState
  <2>2. CASE host.pc \in {"wait", "idle"} /\ char # None /\ Len(host.got) <= Size
    <3>1. got = Append(host.got, char) /\ char \in Chars
      BY <1>2, <2>2
    <3>2. Append(host.got, char) \in Seq(Chars) /\ Len(Append(host.got, char)) = Len(host.got) + 1
      BY <2>1, <3>1
    <3> HIDE DEF got
    <3> QED
      BY <2>1, <2>2, <3>1, <3>2, ConstantsAre
  <2>3. CASE ~ (host.pc \in {"wait", "idle"} /\ char # None /\ Len(host.got) <= Size)
    BY <2>1, <2>3
  <2> QED
    BY <2>2, <2>3
<1> HIDE DEF sent, quiet, got, harmed
<1>7. HostFits(host')
  <2>1. host' \in HostState /\ host'.got = got
    BY <1>1, <1>4, <1>5, <1>6 DEF HostState
  <2> QED
    BY <1>6, <2>1 DEF HostFits
<1>8. \A u \in Units : port'[u] = Heard(u, char, noisy \/ char = Garbage)
  BY <1>3
<1>9. \A u \in Units : PortFits(port'[u])
  BY <1>2, <1>8, HeardIs
<1>10. /\ still' \in 0..Calm /\ still' <= still + 1 /\ (char # None => still' = 0)
  <2>1. still + 1 \in Nat /\ Calm \in Nat
    BY <1>1, ConstantsAre
  <2>2. Lesser(still + 1, Calm) \in 0..Calm /\ Lesser(still + 1, Calm) <= still + 1
    BY <2>1, LesserIs, Zenon
  <2>3. CASE char = None
    BY <1>3, <2>2, <2>3
  <2>4. CASE char # None
    BY <1>1, <1>3, <2>1, <2>4
  <2> QED
    BY <2>3, <2>4
<1>11. noise' \in 0..MaxNoise /\ hit' \in BOOLEAN
  BY <1>1, <1>3, ConstantsAre
<1>12. port' = [u \in Units |-> port'[u]]
  BY <1>3
<1> QED
  BY <1>2, <1>3, <1>7, <1>8, <1>9, <1>10, <1>11, <1>12 DEF BusTypes

\* What the line carries, noise included, and what the host makes of it.
LineChar(noisy) == IF noisy THEN Garbage ELSE Carried

LEMMA TickDoes ==
    ASSUME BusTypes, NEW noisy \in BOOLEAN, Tick(noisy)
    PROVE  /\ LineChar(noisy) \in Chars \cup {None}
           /\ \A u \in Units : port'[u] = Heard(u, LineChar(noisy), noisy \/ LineChar(noisy) = Garbage)
           /\ host'.pc = host.pc /\ host'.request = host.request /\ host'.unit = host.unit
           /\ host'.proven = host.proven /\ host'.clean = host.clean
           /\ host'.sent = IF HostSends THEN host.sent + 1 ELSE host.sent
           /\ host'.quiet = IF host.pc = "wait" /\ LineChar(noisy) # None THEN 0
                            ELSE Lesser(host.quiet + 1, Timeout + Gap)
           /\ host'.got = IF /\ host.pc \in {"wait", "idle"} /\ LineChar(noisy) # None
                             /\ Len(host.got) <= Size
                          THEN Append(host.got, LineChar(noisy)) ELSE host.got
           /\ host'.harmed = (host.harmed \/ noisy)
           /\ still' = IF LineChar(noisy) = None THEN Lesser(still + 1, Calm) ELSE 0
           /\ hit' = (noisy \/ (hit /\ ~ (still' >= T35 /\ \A u \in Units : AtRest(u))))
           /\ host.pc = "send" => HostSends
           /\ ~ (host.pc = "wait" /\ Accepts)
           /\ \A u \in Units : InTime(u)
<1> DEFINE char == IF noisy THEN Garbage ELSE Carried
           got == IF host.pc \in {"wait", "idle"} /\ char # None /\ Len(host.got) <= Size
                  THEN Append(host.got, char) ELSE host.got
           sent == IF HostSends THEN host.sent + 1 ELSE host.sent
           quiet == IF host.pc = "wait" /\ char # None THEN 0
                    ELSE Lesser(host.quiet + 1, Timeout + Gap)
           harmed == host.harmed \/ noisy
<1>1. host \in HostState
  BY DEF BusTypes, HostFits
<1>2. char \in Chars \cup {None} /\ LineChar(noisy) = char
  BY CarriedIs, CharsAre DEF LineChar
<1>3. /\ \A u \in Units : InTime(u)
      /\ host.pc = "send" => HostSends
      /\ ~ (host.pc = "wait" /\ Accepts)
      /\ port' = [u \in Units |-> Heard(u, char, noisy \/ char = Garbage)]
      /\ still' = (IF char = None THEN Lesser(still + 1, Calm) ELSE 0)
      /\ hit' = (noisy \/ (hit /\ ~ (still' >= T35 /\ \A u \in Units : AtRest(u))))
  BY DEF Tick
<1>4. host' = [host EXCEPT !.sent = sent, !.quiet = quiet, !.got = got, !.harmed = harmed]
  <2>1. host' = [host EXCEPT !.sent = IF HostSends THEN @ + 1 ELSE @,
                            !.quiet = IF host.pc = "wait" /\ char # None THEN 0
                                      ELSE Lesser(@ + 1, Timeout + Gap),
                            !.got = IF host.pc \in {"wait", "idle"} /\ char # None
                                       /\ Len(@) <= Size
                                    THEN Append(@, char) ELSE @,
                            !.harmed = (@ \/ noisy)]
    BY DEF Tick
  <2> HIDE DEF char
  <2> QED
    BY <1>1, <2>1 DEF HostState
<1> HIDE DEF char
<1> HIDE DEF sent, quiet, got, harmed
<1>5. /\ host'.pc = host.pc /\ host'.request = host.request /\ host'.unit = host.unit
      /\ host'.proven = host.proven /\ host'.clean = host.clean
      /\ host'.sent = sent /\ host'.quiet = quiet /\ host'.got = got /\ host'.harmed = harmed
  BY <1>1, <1>4 DEF HostState
<1> QED
  BY <1>2, <1>3, <1>5 DEF sent, quiet, got, harmed

-----------------------------------------------------------------------------
(* The host's steps, and the types.                                        *)

\* One port is another but for what its characters, its answer and its count
\* of requests say.
Alike(p, q) ==
    /\ Len(q.ring) = Len(p.ring) /\ \A k \in DOMAIN q.ring : q.ring[k].at = p.ring[k].at
    /\ (q.held = None) = (p.held = None) /\ (q.held # None => q.held.at = p.held.at)
    /\ q.rtu.receiving = p.rtu.receiving /\ q.rtu.last = p.rtu.last
    /\ q.since = p.since /\ q.taken = p.taken /\ q.sent = p.sent /\ q.fault = p.fault
    /\ (q.out = None) = (p.out = None)

Steady ==
    /\ UNCHANGED <<noise, still, hit>>
    /\ \A u \in Units : Alike(port[u], port'[u])

LEMMA PastIs ==
    ASSUME NEW f \in Frames \cup {None}
    PROVE  /\ Past(f) \in Frames \cup {None} /\ (Past(f) = None) = (f = None)
           /\ f # None => /\ ~ Past(f).now /\ Past(f).to = f.to /\ Past(f).from = f.from
                          /\ Past(f).hinted = f.hinted
<1>1. CASE f = None
  BY <1>1 DEF Past
<1>2. CASE f # None
  <2> DEFINE g == [f EXCEPT !.now = FALSE]
  <2>1. f \in Frames
    BY <1>2
  <2>2. g \in Frames /\ ~ g.now /\ g.to = f.to /\ g.from = f.from /\ g.hinted = f.hinted
    BY <2>1 DEF Frames
  <2>3. Past(f) = g
    BY <1>2 DEF Past
  <2> HIDE DEF g
  <2> QED
    BY <1>2, <2>2, <2>3, NoneAssumption
<1> QED
  BY <1>1, <1>2

LEMMA PastCharIs ==
    ASSUME NEW c \in Chars
    PROVE  PastChar(c) \in Chars /\ PastChar(c).frame = Past(c.frame) /\ PastChar(c).k = c.k
<1>1. c.frame \in Frames \cup {None} /\ c.k \in 0..Size
  BY CharsAre
<1>2. Past(c.frame) \in Frames \cup {None}
  BY <1>1, PastIs
<1> QED
  BY <1>2, CharsAre DEF PastChar

LEMMA PastCharsIs ==
    ASSUME NEW chars \in Seq(Chars)
    PROVE  /\ PastChars(chars) \in Seq(Chars) /\ Len(PastChars(chars)) = Len(chars)
           /\ \A k \in DOMAIN PastChars(chars) :
                 k \in DOMAIN chars /\ PastChars(chars)[k] = PastChar(chars[k])
<1> DEFINE past == [k \in DOMAIN chars |-> PastChar(chars[k])]
<1>1. DOMAIN chars = 1..Len(chars) /\ Len(chars) \in Nat
  OBVIOUS
<1>2. \A k \in DOMAIN chars : chars[k] \in Chars
  BY <1>1
<1>3. \A k \in DOMAIN chars : past[k] \in Chars /\ past[k] = PastChar(chars[k])
  BY <1>2, PastCharIs
<1>4. past = [k \in 1..Len(chars) |-> past[k]] /\ DOMAIN past = 1..Len(chars)
      /\ PastChars(chars) = past
  BY <1>1 DEF PastChars
<1> HIDE DEF past
<1>5. past \in [1..Len(chars) -> Chars]
  BY <1>1, <1>3, <1>4
<1>6. past \in Seq(Chars) /\ Len(past) = Len(chars)
  BY <1>1, <1>5
<1> QED
  BY <1>1, <1>3, <1>4, <1>6

LEMMA PastStampedIs ==
    ASSUME NEW e \in Stamped
    PROVE  /\ PastStamped(e) \in Stamped /\ PastStamped(e).at = e.at
           /\ PastStamped(e).char = PastChar(e.char)
<1> DEFINE c == PastChar(e.char)
<1>1. c \in Chars
  BY PastCharIs DEF Stamped
<1>2. PastStamped(e) = [e EXCEPT !.char = c]
  BY DEF PastStamped, Stamped
<1> HIDE DEF c
<1>3. PastStamped(e) \in Stamped /\ PastStamped(e).at = e.at /\ PastStamped(e).char = c
  BY <1>1, <1>2 DEF Stamped
<1> QED
  BY <1>3 DEF c

LEMMA PastRing ==
    ASSUME NEW ring \in Seq(Stamped)
    PROVE  LET past == [k \in DOMAIN ring |-> PastStamped(ring[k])]
           IN /\ past \in Seq(Stamped) /\ Len(past) = Len(ring)
              /\ \A k \in DOMAIN past :
                    /\ k \in DOMAIN ring /\ past[k].at = ring[k].at
                    /\ past[k].char = PastChar(ring[k].char)
<1> DEFINE past == [k \in DOMAIN ring |-> PastStamped(ring[k])]
<1>1. DOMAIN ring = 1..Len(ring) /\ Len(ring) \in Nat
  OBVIOUS
<1>2. \A k \in DOMAIN ring : ring[k] \in Stamped
  BY <1>1
<1>3. \A k \in DOMAIN ring : /\ past[k] \in Stamped /\ past[k].at = ring[k].at
                            /\ past[k].char = PastChar(ring[k].char)
  BY <1>2, PastStampedIs
<1>4. past = [k \in 1..Len(ring) |-> past[k]] /\ DOMAIN past = 1..Len(ring)
  BY <1>1
<1> HIDE DEF past
<1>5. past \in [1..Len(ring) -> Stamped]
  BY <1>1, <1>3, <1>4
<1>6. past \in Seq(Stamped) /\ Len(past) = Len(ring)
  BY <1>1, <1>5
<1> QED
  BY <1>1, <1>3, <1>4, <1>6 DEF past

\* What the next exchange makes of a port: another name for what it holds.
LEMMA PastPortIs ==
    ASSUME NEW p, PortFits(p)
    PROVE  LET q == PastPort(p)
           IN /\ PortFits(q) /\ Alike(p, q) /\ q.ran = 0
              /\ \A k \in DOMAIN q.ring : /\ k \in DOMAIN p.ring
                                        /\ q.ring[k].char = PastChar(p.ring[k].char)
              /\ q.held # None => q.held.char = PastChar(p.held.char)
              /\ q.rtu.rx = PastChars(p.rtu.rx) /\ q.rtu.bad = p.rtu.bad
              /\ q.out = Past(p.out)
<1> DEFINE ring == [k \in DOMAIN p.ring |-> PastStamped(p.ring[k])]
           rx == PastChars(p.rtu.rx)
           rtu == [p.rtu EXCEPT !.rx = rx]
           held == IF p.held = None THEN None ELSE PastStamped(p.held)
           out == Past(p.out)
           q == [p EXCEPT !.ring = ring, !.rtu = rtu, !.held = held, !.out = out, !.ran = 0]
<1>1. /\ p \in PortState /\ p.ring \in Seq(Stamped) /\ Len(p.ring) <= Ring
      /\ p.rtu \in ReceiverState /\ Len(p.rtu.rx) <= AduMax /\ p.rtu.rx \in Seq(Chars)
      /\ p.held \in Stamped \cup {None} /\ p.out \in Frames \cup {None}
  BY PortIs DEF PortFits, ReceiverFits, ReceiverState
<1>2. PastPort(p) = q
  BY <1>1 DEF PastPort, PortState, ReceiverState
<1>3. /\ ring \in Seq(Stamped) /\ Len(ring) = Len(p.ring)
      /\ \A k \in DOMAIN ring : /\ k \in DOMAIN p.ring /\ ring[k].at = p.ring[k].at
                              /\ ring[k].char = PastChar(p.ring[k].char)
  BY <1>1, PastRing, Zenon
<1>4. rx \in Seq(Chars) /\ Len(rx) = Len(p.rtu.rx)
  BY <1>1, PastCharsIs
<1>5. /\ held \in Stamped \cup {None} /\ (held = None) = (p.held = None)
      /\ held # None => held.at = p.held.at /\ held.char = PastChar(p.held.char)
  <2>1. CASE p.held = None
    BY <2>1
  <2>2. CASE p.held # None
    BY <1>1, <2>2, PastStampedIs, NoneAssumption
  <2> QED
    BY <2>1, <2>2
<1>6. out \in Frames \cup {None} /\ (out = None) = (p.out = None)
  BY <1>1, PastIs
<1> HIDE DEF ring, rx, held, out
<1>7. /\ rtu \in ReceiverState /\ rtu.rx = rx /\ rtu.bad = p.rtu.bad
      /\ rtu.receiving = p.rtu.receiving /\ rtu.last = p.rtu.last
  BY <1>1, <1>4 DEF ReceiverState
<1> HIDE DEF rtu
<1>8. /\ q \in PortState /\ q.ring = ring /\ q.rtu = rtu /\ q.held = held /\ q.out = out
      /\ q.ran = 0 /\ q.since = p.since /\ q.taken = p.taken /\ q.sent = p.sent
      /\ q.fault = p.fault
  BY <1>1, <1>3, <1>5, <1>6, <1>7 DEF PortState
<1> HIDE DEF q
<1>9. PortFits(q)
  BY <1>1, <1>3, <1>4, <1>7, <1>8 DEF PortFits
<1>10. Alike(p, q)
  BY <1>3, <1>5, <1>6, <1>7, <1>8 DEF Alike
<1> QED
  BY <1>2, <1>3, <1>5, <1>7, <1>8, <1>9, <1>10 DEF rx, out

LEMMA TransmitIs ==
    ASSUME BusTypes, NEW u \in Units \cup {Broadcast}, NEW hinted \in BOOLEAN,
           Transmit(u, hinted)
    PROVE  /\ BusTypes' /\ Steady
           /\ \A v \in Units : port'[v] = PastPort(port[v])
           /\ host.pc = "idle" /\ (OwesNothing(u) \/ host.quiet >= Gap)
           /\ host'.pc = "send" /\ host'.request = Request(u, hinted) /\ host'.sent = 0
           /\ host'.unit = u /\ host'.proven = hinted /\ ~ host'.clean
           /\ host'.got = (IF host.clean THEN PastChars(host.got) ELSE <<>>)
           /\ host'.quiet = host.quiet
           /\ host'.harmed = (hit \/ (host.clean /\ host.got # <<>>))
<1> DEFINE request == Request(u, hinted)
           got == IF host.clean THEN PastChars(host.got) ELSE <<>>
           harmed == hit \/ (host.clean /\ host.got # <<>>)
<1>1. /\ host \in HostState /\ Len(host.got) <= Size + 1 /\ hit \in BOOLEAN
      /\ host.got \in Seq(Chars)
      /\ \A v \in Units : PortFits(port[v])
      /\ UNCHANGED <<noise, still, hit>>
      /\ port' = [v \in Units |-> PastPort(port[v])]
      /\ host.pc = "idle" /\ (OwesNothing(u) \/ host.quiet >= Gap)
  BY DEF BusTypes, HostFits, HostState, Transmit
<1>2. host' = [host EXCEPT !.pc = "send", !.request = request, !.sent = 0, !.unit = u,
                           !.proven = hinted, !.got = got, !.clean = FALSE,
                           !.harmed = harmed]
  <2> DEFINE none == <<>>
  <2> HIDE DEF none
  <2>1. host' = [host EXCEPT !.pc = "send", !.request = request, !.sent = 0, !.unit = u,
                           !.proven = hinted, !.got = IF host.clean THEN PastChars(@) ELSE none,
                           !.clean = FALSE, !.harmed = harmed]
    BY <1>1 DEF Transmit, none
  <2>2. got = IF host.clean THEN PastChars(host.got) ELSE none
    BY DEF none
  <2> HIDE DEF request, harmed, got
  <2> QED
    BY <1>1, <2>1, <2>2 DEF HostState
<1>3. request \in Frames
  BY RequestIs
<1>4. got \in Seq(Chars) /\ Len(got) <= Size + 1
  <2> DEFINE none == <<>>
  <2>1. none \in Seq(Chars) /\ Len(none) = 0
    OBVIOUS
  <2> HIDE DEF none
  <2>2. got = IF host.clean THEN PastChars(host.got) ELSE none
    BY DEF none
  <2>3. PastChars(host.got) \in Seq(Chars) /\ Len(PastChars(host.got)) = Len(host.got)
        /\ 0 <= Size + 1
    BY <1>1, PastCharsIs, ConstantsAre
  <2> HIDE DEF got
  <2>4. CASE host.clean
    BY <1>1, <2>2, <2>3, <2>4
  <2>5. CASE ~ host.clean
    BY <2>1, <2>2, <2>3, <2>5
  <2> QED
    BY <2>4, <2>5
<1>5. harmed \in BOOLEAN /\ 0 \in 0..Size
  BY <1>1, ConstantsAre DEF HostState
<1> HIDE DEF request, got, harmed
<1>6. /\ host' \in HostState /\ host'.got = got /\ host'.pc = "send" /\ host'.request = request
      /\ host'.sent = 0 /\ host'.unit = u /\ host'.proven = hinted /\ ~ host'.clean
      /\ host'.quiet = host.quiet /\ host'.harmed = harmed
  BY <1>1, <1>2, <1>3, <1>4, <1>5 DEF HostState
<1>7. HostFits(host')
  BY <1>4, <1>6 DEF HostFits
<1>8. \A v \in Units : /\ port'[v] = PastPort(port[v]) /\ PortFits(port'[v])
                       /\ Alike(port[v], port'[v])
  BY <1>1, PastPortIs
<1>9. port' = [v \in Units |-> port'[v]]
  BY <1>1
<1>10. BusTypes' /\ Steady
  BY <1>1, <1>7, <1>8, <1>9 DEF BusTypes, Steady
<1> QED
  BY <1>1, <1>6, <1>8, <1>10 DEF request, got, harmed

LEMMA HostIs ==
    ASSUME BusTypes, Left \/ Settled \/ Accept \/ GiveUp
    PROVE  BusTypes' /\ Steady /\ port' = port
<1>1. /\ host \in HostState /\ Len(host.got) <= Size + 1
      /\ UNCHANGED <<port, noise, still, hit>>
  BY DEF BusTypes, HostFits, Left, Settled, Accept, GiveUp
<1>2. 0 \in 0..(Timeout + Gap)
  BY ConstantsAre
<1> DEFINE none == <<>>
<1>3. none \in Seq(Chars) /\ Len(none) <= Size + 1
  <2>1. none \in Seq(Chars) /\ Len(none) = 0
    OBVIOUS
  <2> HIDE DEF none
  <2> QED
    BY <2>1, ConstantsAre
<1>4. HostFits(host')
  <2>1. CASE Left
    <3> DEFINE pc == IF host.unit = Broadcast THEN "settle" ELSE "wait"
    <3>1. pc \in {"idle", "send", "settle", "wait"}
          /\ host' = [host EXCEPT !.pc = pc, !.quiet = 0]
      BY <2>1 DEF Left
    <3> HIDE DEF pc
    <3>2. host' \in HostState /\ host'.got = host.got
      BY <1>1, <1>2, <3>1 DEF HostState
    <3> QED
      BY <1>1, <3>2 DEF HostFits
  <2>2. CASE Settled \/ GiveUp
    <3>1. host' \in HostState /\ host'.got = host.got
      BY <1>1, <1>2, <2>2 DEF HostState, Settled, GiveUp
    <3> QED
      BY <1>1, <3>1 DEF HostFits
  <2>3. CASE Accept
    <3>1. host' = [host EXCEPT !.pc = "idle", !.got = none, !.clean = TRUE, !.quiet = 0]
      BY <2>3 DEF Accept
    <3> HIDE DEF none
    <3>2. host' \in HostState /\ host'.got = none
      BY <1>1, <1>2, <1>3, <3>1 DEF HostState
    <3> QED
      BY <1>3, <3>2 DEF HostFits
  <2> QED
    BY <2>1, <2>2, <2>3
<1>5. \A u \in Units : port[u] \in PortState /\ port'[u] = port[u]
  BY <1>1 DEF BusTypes, PortFits
<1>6. \A u \in Units : Alike(port[u], port'[u])
  BY <1>5 DEF Alike
<1> QED
  BY <1>1, <1>4, <1>6 DEF BusTypes, Steady

LEMMA NodeIs ==
    ASSUME BusTypes, NEW u \in Units, Node(u)
    PROVE  BusTypes'
<1>1. Alone(u) /\ PortFits(port'[u])
  BY TakeOneIs, PassEndsIs, SentIs DEF Node
<1>2. \A v \in Units : PortFits(port'[v])
  BY <1>1 DEF Alone, BusTypes
<1> QED
  BY <1>1, <1>2 DEF Alone, BusTypes

LEMMA TypesKeep ==
    ASSUME BusTypes, [Next]_vars
    PROVE  BusTypes'
<1>1. CASE UNCHANGED vars
  BY <1>1 DEF vars, BusTypes
<1>2. CASE Next
  BY <1>2, TransmitIs, HostIs, NodeIs, TickIs DEF Next
<1> QED
  BY <1>1, <1>2

LEMMA InitIs ==
    ASSUME Init
    PROVE  /\ BusTypes
           /\ \A u \in Units :
                 LET p == port[u]
                 IN /\ p.ring = <<>> /\ ~ p.fault /\ p.held = None /\ p.out = None
                    /\ ~ p.rtu.receiving /\ p.since = 0 /\ p.sent = 0
<1> DEFINE ring == <<>>
           got == <<>>
           request == Request(Broadcast, FALSE)
<1>1. /\ ring \in Seq(Stamped) /\ Len(ring) <= Ring /\ got \in Seq(Chars)
      /\ Len(got) <= Size + 1 /\ request \in Frames
  <2>1. /\ ring \in Seq(Stamped) /\ Len(ring) = 0 /\ got \in Seq(Chars) /\ Len(got) = 0
    OBVIOUS
  <2>2. request \in Frames
    <3>1. Broadcast \in Units \cup {Broadcast} /\ FALSE \in BOOLEAN
      OBVIOUS
    <3> QED
      BY <3>1, RequestIs, Zenon
  <2> HIDE DEF ring, got, request
  <2>3. Len(ring) <= Ring /\ Len(got) <= Size + 1
    BY <2>1, ConstantsAre
  <2> QED
    BY <2>1, <2>2, <2>3
<1>2. 0 \in 0..Take /\ 0 \in 0..Size /\ 0 \in 0..MaxNoise /\ Calm \in 0..Calm
      /\ Gap \in 0..(Timeout + Gap)
  BY ConstantsAre
<1>3. Port = [ring |-> ring, fault |-> FALSE, rtu |-> Receiver, taken |-> 0, since |-> 0,
              held |-> None, out |-> None, sent |-> 0, ran |-> 0]
  BY DEF Port
<1>4. host = [pc |-> "idle", request |-> request, sent |-> 0, got |-> got,
              quiet |-> Gap, unit |-> None, proven |-> FALSE, clean |-> FALSE,
              harmed |-> FALSE]
  BY DEF Init
<1> HIDE DEF got, request
<1>5. HostFits(host)
  BY <1>1, <1>2, <1>4 DEF HostFits, HostState
<1>6. Receiver \in ReceiverState /\ Len(Receiver.rx) <= AduMax /\ ~ Receiver.receiving
  BY ReceiverIs DEF ReceiverFits
<1> DEFINE p == Port
<1>7. p.ring = <<>>
  BY <1>3 DEF ring
<1> HIDE DEF ring
<1>8. /\ PortFits(p) /\ ~ p.fault /\ p.held = None /\ p.out = None
      /\ ~ p.rtu.receiving /\ p.since = 0 /\ p.sent = 0
  BY <1>1, <1>2, <1>3, <1>6 DEF PortFits, PortState
<1> HIDE DEF p
<1>9. /\ port = [u \in Units |-> port[u]] /\ \A u \in Units : port[u] = p
      /\ noise = 0 /\ still = Calm /\ hit = FALSE
  BY DEF Init, p
<1> QED
  BY <1>2, <1>5, <1>7, <1>8, <1>9 DEF BusTypes

\* The state keeps its types: no ring, no frame and no input of the host's
\* outgrows its bound, whatever the line carries (ring_push, mb_rtu_on_byte,
\* the transport's reads).
THEOREM TypeCorrect == Spec => []TypeOK
<1>1. BusTypes => TypeOK
  <2>1. SUFFICES ASSUME BusTypes PROVE TypeOK
    OBVIOUS
  <2>2. /\ host.pc \in {"idle", "send", "settle", "wait"} /\ host.sent \in 0..Size
        /\ Len(host.got) <= Size + 1 /\ host.quiet \in 0..(Timeout + Gap)
        /\ host.unit \in Units \cup {Broadcast, None}
    BY <2>1 DEF BusTypes, HostFits, HostState
  <2>3. ASSUME NEW u \in Units
        PROVE  /\ Len(port[u].ring) <= Ring
               /\ \A k \in DOMAIN port[u].ring : port[u].ring[k].char \in Chars
               /\ Len(port[u].rtu.rx) <= AduMax
               /\ \A k \in DOMAIN port[u].rtu.rx : port[u].rtu.rx[k] \in Chars
               /\ port[u].taken \in 0..Take /\ port[u].sent \in 0..Size
               /\ port[u].rtu.last \in Nat
    <3>1. PortFits(port[u])
      BY <2>1 DEF BusTypes
    <3>2. /\ port[u].ring \in Seq(Stamped) /\ port[u].rtu.rx \in Seq(Chars)
          /\ Len(port[u].ring) <= Ring /\ Len(port[u].rtu.rx) <= AduMax
          /\ port[u].taken \in 0..Take /\ port[u].sent \in 0..Size /\ port[u].rtu.last \in Nat
      BY <3>1, PortIs DEF ReceiverFits, ReceiverState
    <3>3. /\ \A k \in DOMAIN port[u].ring : port[u].ring[k] \in Stamped
          /\ \A k \in DOMAIN port[u].rtu.rx : port[u].rtu.rx[k] \in Chars
      BY <3>2
    <3> QED
      BY <3>2, <3>3 DEF Stamped
  <2> QED
    BY <2>1, <2>2, <2>3 DEF TypeOK, BusTypes
<1> QED
  BY <1>1, InitIs, TypesKeep, PTL DEF Spec

-----------------------------------------------------------------------------
(* A quiet line ends every frame.                                          *)

(* What a port that has work left owes to how long the line has been quiet: *)
(* the characters it has kept, and the error its receivers raised, are as   *)
(* old as the silence at least, and each pass the backlog still needs may   *)
(* cost it `Late' once more.  `passes' passes empty a full ring.            *)

\* The stamps are no younger than the silence.
Stamps(p, silence) ==
    /\ \A k \in DOMAIN p.ring : silence <= p.ring[k].at
    /\ p.held # None => silence <= p.held.at
    /\ p.rtu.receiving => silence <= p.rtu.last + 2 * Late

\* A pass is late by Late at most; an answer that has left is waiting for one.
Passing(p, silence) ==
    /\ p.since <= Late
    /\ p.out = None => p.sent = 0
    /\ p.out # None => ~ p.rtu.receiving /\ (p.sent = Size => silence <= p.since)

\* An error is reported by the next pass, or the one after.
Reported(p, silence) ==
    p.out = None /\ p.fault =>
        silence <= p.since + Late /\ (p.taken = Take => silence <= p.since)

\* A backlog of q passes has had all but q of the passes there are.
Drained(p, silence, passes) ==
    p.out = None /\ ~ p.fault /\ p.ring # <<>> =>
        \E q \in 1..(passes + 1) :
            Len(p.ring) + p.taken <= q * Take /\ silence <= p.since + (passes + 2 - q) * Late

\* With the ring empty the pass that runs finds the frame's silence.
Ending(p, silence, passes) ==
    p.out = None /\ ~ p.fault /\ p.ring = <<>> /\ p.rtu.receiving =>
        silence < T35 + 2 * Late + p.since \/ silence <= p.since + (passes + 1) * Late

QuietAt(p, silence, passes) ==
    /\ Stamps(p, silence) /\ Passing(p, silence) /\ Reported(p, silence)
    /\ Drained(p, silence, passes) /\ Ending(p, silence, passes)

QuietInv(passes) == BusTypes /\ \A u \in Units : QuietAt(port[u], still, passes)

LEMMA Times ==
    ASSUME NEW a \in Int, NEW b \in Int
    PROVE  (a - 1) * b = a * b - b /\ (a + 1) * b = a * b + b
OBVIOUS

LEMMA TimesGrows ==
    ASSUME NEW a \in Int, NEW c \in Int, NEW b \in Nat, a <= c
    PROVE  a * b <= c * b
<1>1. (c - a) * b \in Nat
  OBVIOUS
<1>2. (c - a) * b = c * b - a * b
  OBVIOUS
<1> QED
  BY <1>1, <1>2

\* What a port is made of, for arithmetic.
LEMMA PortNumbers ==
    ASSUME NEW p, PortFits(p)
    PROVE  /\ p.since \in Nat /\ p.taken \in 0..Take /\ p.rtu.last \in Nat
           /\ p.ring \in Seq(Stamped) /\ Len(p.ring) \in 0..Ring
           /\ \A k \in DOMAIN p.ring : p.ring[k].at \in Nat
           /\ p.held # None => p.held.at \in Nat
           /\ p.rtu.receiving \in BOOLEAN /\ p.fault \in BOOLEAN
           /\ p.sent \in 0..Size
<1>1. /\ p.ring \in Seq(Stamped) /\ Len(p.ring) \in Nat /\ Len(p.ring) <= Ring
      /\ p.taken \in 0..Take /\ p.since \in Nat
      /\ p.held \in Stamped \cup {None} /\ p.sent \in 0..Size /\ p.fault \in BOOLEAN
      /\ p.rtu.last \in Nat /\ p.rtu.receiving \in BOOLEAN
  BY PortIs
<1>2. Len(p.ring) \in 0..Ring
  BY <1>1, ConstantsAre
<1>3. \A k \in DOMAIN p.ring : p.ring[k].at \in Nat
  <2>1. \A k \in DOMAIN p.ring : p.ring[k] \in Stamped
    BY <1>1
  <2> QED
    BY <2>1 DEF Stamped
<1>4. p.held # None => p.held.at \in Nat
  BY <1>1 DEF Stamped
<1> QED
  BY <1>1, <1>2, <1>3, <1>4

LEMMA QuietIs ==
    ASSUME BusTypes, NEW u \in Units
    PROVE  LET p == port[u]
           IN /\ p.since \in Nat /\ p.taken \in 0..Take /\ p.rtu.last \in Nat
              /\ p.ring \in Seq(Stamped) /\ Len(p.ring) \in 0..Ring
              /\ \A k \in DOMAIN p.ring : p.ring[k].at \in Nat
              /\ p.held # None => p.held.at \in Nat
              /\ p.rtu.receiving \in BOOLEAN /\ p.fault \in BOOLEAN
              /\ p.sent \in 0..Size /\ still \in Nat
<1>1. PortFits(port[u]) /\ still \in 0..Calm
  BY DEF BusTypes
<1>2. still \in Nat
  BY <1>1, ConstantsAre
<1> QED
  BY <1>1, <1>2, PortNumbers

\* A character taken: the receiver's stamp is the character's, and the backlog
\* the pass's.
LEMMA QuietTake ==
    ASSUME NEW Passes \in Nat \ {0}, QuietInv(Passes), NEW u \in Units, TakeOne(u)
    PROVE  QuietAt(port'[u], still', Passes)
<1> DEFINE p == port[u]
           q == port'[u]
<1>1. BusTypes /\ QuietAt(p, still, Passes) /\ still' = still
  BY DEF QuietInv, TakeOne
<1>2. /\ p.since \in Nat /\ p.taken \in 0..Take /\ Len(p.ring) \in 0..Ring
      /\ p.ring \in Seq(Stamped) /\ still \in Nat
      /\ \A k \in DOMAIN p.ring : p.ring[k].at \in Nat
  BY <1>1, QuietIs
<1>3. /\ PortFits(q)
      /\ p.out = None /\ ~ p.fault /\ p.taken < Take /\ p.ring # <<>>
      /\ q.ring = Tail(p.ring) /\ q.taken = p.taken + 1 /\ ~ q.fault
      /\ q.since = p.since /\ q.sent = p.sent
      /\ \/ q.out # None /\ q.held = Head(p.ring) /\ q.rtu = Receiver
         \/ q.out = None /\ q.held = p.held /\ q.rtu.last = Head(p.ring).at
  BY <1>1, TakeOneIs
<1>4. /\ Len(p.ring) # 0 /\ 1 \in DOMAIN p.ring /\ Head(p.ring) = p.ring[1]
      /\ Len(q.ring) = Len(p.ring) - 1
      /\ \A k \in DOMAIN q.ring : k + 1 \in DOMAIN p.ring /\ q.ring[k] = p.ring[k + 1]
  <2>1. Len(p.ring) # 0
    BY <1>2, <1>3, EmptySeq
  <2> QED
    BY <1>2, <1>3, <2>1
<1>5. still <= Head(p.ring).at /\ Head(p.ring).at \in Nat
  BY <1>1, <1>2, <1>4 DEF QuietAt, Stamps
<1>6. PICK n \in 1..(Passes + 1) :
          Len(p.ring) + p.taken <= n * Take /\ still <= p.since + (Passes + 2 - n) * Late
  BY <1>1, <1>3 DEF QuietAt, Drained
<1> HIDE DEF p, q
<1>7. Stamps(q, still)
  <2>1. \A k \in DOMAIN q.ring : still <= q.ring[k].at
    BY <1>1, <1>4 DEF QuietAt, Stamps
  <2>2. q.held # None => still <= q.held.at
    BY <1>1, <1>3, <1>5 DEF QuietAt, Stamps
  <2>3. q.rtu.receiving => still <= q.rtu.last + 2 * Late
    BY <1>2, <1>3, <1>5, ReceiverIs, ConstantsAre
  <2> QED
    BY <2>1, <2>2, <2>3 DEF Stamps
<1>8. Passing(q, still)
  <2>1. q.sent = 0 /\ Size # 0 /\ q.since <= Late
    BY <1>1, <1>3, ConstantsAre DEF QuietAt, Passing
  <2>2. q.out # None => ~ q.rtu.receiving
    BY <1>3, ReceiverIs
  <2> QED
    BY <2>1, <2>2 DEF Passing
<1>9. Reported(q, still)
  BY <1>3 DEF Reported
<1>10. Drained(q, still, Passes)
  <2>1. Len(q.ring) + q.taken = Len(p.ring) + p.taken
    <3>1. /\ Len(q.ring) = Len(p.ring) - 1 /\ q.taken = p.taken + 1
          /\ Len(p.ring) \in Int /\ p.taken \in Int
      BY <1>2, <1>3, <1>4, ConstantsAre
    <3> QED
      BY <3>1
  <2> QED
    BY <1>3, <1>6, <2>1 DEF Drained
<1>11. Ending(q, still, Passes)
  <2>1. (Passes + 2 - n) * Late <= (Passes + 1) * Late
    <3>1. Passes + 2 - n \in Int /\ Passes + 1 \in Int /\ Passes + 2 - n <= Passes + 1
      OBVIOUS
    <3> QED
      BY <3>1, TimesGrows, ConstantsAre
  <2> DEFINE x == (Passes + 2 - n) * Late
             y == (Passes + 1) * Late
  <2>2. x \in Int /\ y \in Int
    BY ConstantsAre
  <2> HIDE DEF x, y
  <2>3. still <= p.since + x /\ x <= y
    BY <1>6, <2>1 DEF x, y
  <2>4. still <= q.since + y
    BY <1>2, <1>3, <2>2, <2>3
  <2> QED
    BY <2>4 DEF Ending, y
<1> QED
  BY <1>1, <1>7, <1>8, <1>9, <1>10, <1>11
     DEF QuietAt, q

\* A pass ends: an error is told, a frame is ended, or a frame goes on that was
\* not silent for t3.5; the backlog has one pass less to wait for.
LEMMA QuietPass ==
    ASSUME NEW Passes \in Nat \ {0}, Ring <= Passes * Take, QuietInv(Passes),
           NEW u \in Units, PassEnds(u)
    PROVE  QuietAt(port'[u], still', Passes)
<1> DEFINE p == port[u]
           q == port'[u]
<1>1. BusTypes /\ QuietAt(p, still, Passes) /\ still' = still
  BY DEF QuietInv, PassEnds
<1>2. /\ p.since \in Nat /\ p.taken \in 0..Take /\ Len(p.ring) \in 0..Ring
      /\ p.ring \in Seq(Stamped) /\ still \in Nat /\ p.rtu.last \in Nat
      /\ p.fault \in BOOLEAN
  BY <1>1, QuietIs
<1>3. /\ p.out = None /\ (p.fault \/ p.ring = <<>> \/ p.taken = Take)
      /\ q.ring = p.ring /\ q.taken = 0 /\ q.since = 0
      /\ q.held = p.held /\ q.sent = p.sent
      /\ \/ /\ p.fault /\ p.taken < Take
            /\ ~ q.fault /\ q.rtu.last = 0 /\ q.out = None
         \/ /\ ~ (p.fault /\ p.taken < Take)
            /\ q.fault = p.fault /\ q.rtu = Receiver
         \/ /\ ~ (p.fault /\ p.taken < Take)
            /\ q.fault = p.fault /\ q.rtu = p.rtu /\ q.out = None
            /\ p.rtu.receiving => p.rtu.last < T35
  BY <1>1, PassEndsIs
<1>4. p.since <= Late /\ p.sent = 0
  BY <1>1, <1>3 DEF QuietAt, Passing
<1>5. Take \in Nat \ {0} /\ Late \in Nat /\ T35 \in Nat /\ Size # 0 /\ Ring \in Nat
  BY ConstantsAre
<1>6. p.fault => still <= p.since + Late /\ (p.taken = Take => still <= p.since)
  BY <1>1, <1>3 DEF QuietAt, Reported
<1>7. p.fault => still <= 2 * Late
  BY <1>2, <1>4, <1>5, <1>6
<1>8. p.rtu.receiving => still <= p.rtu.last + 2 * Late
  BY <1>1 DEF QuietAt, Stamps
<1> HIDE DEF p, q
<1>9. Stamps(q, still)
  <2>1. (\A k \in DOMAIN q.ring : still <= q.ring[k].at)
        /\ (q.held # None => still <= q.held.at)
    BY <1>1, <1>3 DEF QuietAt, Stamps
  <2>2. q.rtu.receiving => still <= q.rtu.last + 2 * Late
    BY <1>3, <1>5, <1>7, <1>8, ReceiverIs
  <2> QED
    BY <2>1, <2>2 DEF Stamps
<1>10. Passing(q, still)
  <2>1. q.sent = 0 /\ q.since <= Late
    BY <1>3, <1>4, <1>5
  <2>2. q.out # None => ~ q.rtu.receiving
    BY <1>3, ReceiverIs
  <2> QED
    BY <1>5, <2>1, <2>2 DEF Passing
<1>11. Reported(q, still)
  <2>1. q.fault => p.fault /\ p.taken = Take
    <3>1. ~ (p.taken < Take) => p.taken = Take
      BY <1>2, <1>5
    <3>2. q.fault => p.fault /\ ~ (p.taken < Take)
      BY <1>3, Zenon
    <3> QED
      BY <3>1, <3>2
  <2> QED
    BY <1>2, <1>3, <1>4, <1>5, <1>6, <2>1 DEF Reported
<1>12. Drained(q, still, Passes)
  <2>1. SUFFICES ASSUME q.out = None, ~ q.fault, q.ring # <<>>
                 PROVE  \E n \in 1..(Passes + 1) :
                           /\ Len(q.ring) + q.taken <= n * Take
                           /\ still <= q.since + (Passes + 2 - n) * Late
    BY DEF Drained
  <2>2. CASE p.fault
    <3>1. p.taken < Take
      BY <1>3, <2>1, <2>2
    <3>2. Len(q.ring) + q.taken <= Passes * Take
      BY <1>2, <1>3, <1>5
    <3>3. still <= q.since + (Passes + 2 - Passes) * Late
      <4>1. Passes + 2 - Passes = 2
        OBVIOUS
      <4> QED
        BY <1>2, <1>3, <1>5, <1>7, <2>2, <4>1
    <3>4. Passes \in 1..(Passes + 1)
      OBVIOUS
    <3> QED
      BY <3>2, <3>3, <3>4
  <2>3. CASE ~ p.fault
    <3>1. p.ring # <<>> /\ p.taken = Take /\ p.out = None
      BY <1>3, <2>1, <2>3
    <3>2. PICK n \in 1..(Passes + 1) :
              Len(p.ring) + p.taken <= n * Take /\ still <= p.since + (Passes + 2 - n) * Late
      BY <1>1, <2>3, <3>1 DEF QuietAt, Drained
    <3>3. (n - 1) * Take = n * Take - Take
          /\ (Passes + 2 - (n - 1)) * Late = (Passes + 2 - n) * Late + Late
      <4>1. n \in Int /\ Take \in Int /\ Late \in Int /\ Passes + 2 - n \in Int
            /\ Passes + 2 - (n - 1) = (Passes + 2 - n) + 1
        BY <1>5
      <4> QED
        BY <4>1, Times
    <3>4. Len(q.ring) = Len(p.ring) /\ Len(p.ring) \in Nat \ {0}
      BY <1>2, <1>3, <1>5, <3>1, EmptySeq
    <3> DEFINE x == n * Take
               y == (Passes + 2 - n) * Late
    <3>5. x \in Int /\ y \in Int
      BY <1>5
    <3>6. Len(q.ring) + q.taken <= (n - 1) * Take
      <4> HIDE DEF x
      <4>1. Len(p.ring) + Take <= x /\ (n - 1) * Take = x - Take
        BY <3>1, <3>2, <3>3 DEF x
      <4> QED
        BY <1>3, <1>5, <3>4, <3>5, <4>1
    <3>7. still <= q.since + (Passes + 2 - (n - 1)) * Late
      <4> HIDE DEF y
      <4>1. still <= p.since + y /\ (Passes + 2 - (n - 1)) * Late = y + Late
        BY <3>2, <3>3 DEF y
      <4> QED
        BY <1>2, <1>3, <1>4, <1>5, <3>5, <4>1
    <3>8. n - 1 \in 1..(Passes + 1)
      <4>1. n # 1
        BY <1>5, <3>1, <3>2, <3>4
      <4> QED
        BY <4>1
    <3> QED
      BY <3>6, <3>7, <3>8
  <2> QED
    BY <1>2, <2>2, <2>3
<1>13. Ending(q, still, Passes)
  <2>1. SUFFICES ASSUME q.out = None, ~ q.fault, q.ring = <<>>, q.rtu.receiving
                 PROVE  \/ still < T35 + 2 * Late + q.since
                        \/ still <= q.since + (Passes + 1) * Late
    BY DEF Ending
  <2>2. CASE p.fault /\ p.taken < Take
    <3>1. 2 * Late <= (Passes + 1) * Late
      BY <1>5, TimesGrows
    <3> DEFINE y == (Passes + 1) * Late
    <3>2. y \in Int
      BY <1>5
    <3> HIDE DEF y
    <3>3. 2 * Late <= y
      BY <3>1 DEF y
    <3>4. still <= q.since + y
      BY <1>2, <1>3, <1>5, <1>7, <2>2, <3>2, <3>3
    <3> QED
      BY <3>4 DEF y
  <2>3. CASE ~ (p.fault /\ p.taken < Take)
    <3>1. q.rtu = p.rtu /\ p.rtu.receiving /\ p.rtu.last < T35
      BY <1>3, <2>1, <2>3, ReceiverIs
    <3> QED
      BY <1>2, <1>3, <1>5, <1>8, <3>1
  <2> QED
    BY <2>2, <2>3
<1> QED
  BY <1>1, <1>9, <1>10, <1>11, <1>12, <1>13 DEF QuietAt, q

\* The answer has left: the ring is empty, and the character held was as old as
\* the silence.
LEMMA QuietSent ==
    ASSUME NEW Passes \in Nat \ {0}, QuietInv(Passes), NEW u \in Units, Sent(u)
    PROVE  QuietAt(port'[u], still', Passes)
<1> DEFINE p == port[u]
           q == port'[u]
<1>1. BusTypes /\ QuietAt(p, still, Passes) /\ still' = still
  BY DEF QuietInv, Sent
<1>2. p.since \in Nat /\ still \in Nat /\ (p.held # None => p.held.at \in Nat)
  BY <1>1, QuietIs
<1>3. /\ p.out # None /\ p.sent = Size
      /\ q.ring = <<>> /\ ~ q.fault /\ q.out = None /\ q.sent = 0 /\ q.since = 0
      /\ \/ p.held = None /\ q.held = p.held /\ q.rtu = p.rtu
         \/ p.held # None /\ q.held = None /\ q.rtu.last = p.held.at
  BY <1>1, SentIs
<1>4. ~ p.rtu.receiving /\ still <= p.since /\ p.since <= Late
  BY <1>1, <1>3 DEF QuietAt, Passing
<1>5. Late \in Nat
  BY ConstantsAre
<1> HIDE DEF p, q
<1>6. Stamps(q, still)
  <2>1. p.held # None => still <= p.held.at
    BY <1>1 DEF QuietAt, Stamps
  <2>2. q.rtu.receiving => q.rtu.last = p.held.at /\ p.held # None
    BY <1>3, <1>4
  <2>3. DOMAIN q.ring = {}
    BY <1>3
  <2> QED
    BY <1>2, <1>3, <1>5, <2>1, <2>2, <2>3 DEF Stamps
<1>7. Passing(q, still) /\ Reported(q, still) /\ Drained(q, still, Passes)
  BY <1>3, <1>5 DEF Passing, Reported, Drained
<1>8. Ending(q, still, Passes)
  <2>1. 1 * Late <= (Passes + 1) * Late
    BY <1>5, TimesGrows
  <2> DEFINE y == (Passes + 1) * Late
  <2>2. y \in Int
    BY <1>5
  <2>3. Late <= y
    BY <1>5, <2>1
  <2> HIDE DEF y
  <2>4. still <= q.since + y
    BY <1>2, <1>3, <1>4, <1>5, <2>2, <2>3
  <2> QED
    BY <2>4 DEF Ending, y
<1> QED
  BY <1>1, <1>6, <1>7, <1>8 DEF QuietAt, q

\* A character's time: on a quiet line everything ages with the silence, and a
\* character ends it.
LEMMA QuietTick ==
    ASSUME NEW Passes \in Nat \ {0}, Ring <= Passes * Take, QuietInv(Passes),
           NEW noisy \in BOOLEAN, Tick(noisy), NEW u \in Units
    PROVE  QuietAt(port'[u], still', Passes)
<1> DEFINE p == port[u]
           q == port'[u]
           a == Aged(p)
<1>1. BusTypes /\ BusTypes' /\ QuietAt(p, still, Passes) /\ InTime(u) /\ PortFits(p)
  BY TickIs DEF QuietInv, BusTypes
<1>2. PICK char \in Chars \cup {None} :
          /\ q = Heard(u, char, noisy \/ char = Garbage)
          /\ char = None => Sending = {}
          /\ still' <= still + 1 /\ (char # None => still' = 0)
  BY <1>1, TickIs
<1> DEFINE loud == noisy \/ char = Garbage
<1>3. loud \in BOOLEAN /\ q = Heard(u, char, loud)
  BY <1>2
<1>4. /\ q.sent = IF u \in Sending THEN p.sent + 1 ELSE p.sent
      /\ q.out = p.out /\ q.held = a.held /\ q.taken = p.taken /\ q.rtu = a.rtu
      /\ q.since = a.since
      /\ char = None => q.ring = a.ring /\ q.fault = p.fault
  <2> DEFINE h == Heard(u, char, loud)
  <2>0. BusTypes /\ loud \in BOOLEAN
    BY <1>1, <1>3
  <2> HIDE DEF loud
  <2>1. LET b == Aged(port[u])
        IN /\ PortFits(h)
           /\ h.sent = IF u \in Sending THEN port[u].sent + 1 ELSE port[u].sent
           /\ h.out = port[u].out /\ h.held = b.held /\ h.taken = port[u].taken /\ h.rtu = b.rtu
           /\ h.since = b.since /\ h.ran = port[u].ran
           /\ char = None => h.ring = b.ring /\ h.fault = port[u].fault
           /\ char # None => /\ h.ring = IF Len(b.ring) < Ring
                                         THEN Append(b.ring, [char |-> char, at |-> 0])
                                         ELSE b.ring
                             /\ h.fault = (port[u].fault \/ loud)
    BY <2>0, HeardIs, ZenonT(60)
  <2>2. q = h
    BY <1>3
  <2> HIDE DEF h, q
  <2> QED
    BY <2>1, <2>2
<1>5. /\ Len(a.ring) = Len(p.ring)
      /\ \A k \in DOMAIN a.ring : k \in DOMAIN p.ring /\ a.ring[k].at = p.ring[k].at + 1
      /\ a.held # None => p.held # None /\ a.held.at = p.held.at + 1
      /\ a.rtu.receiving = p.rtu.receiving
      /\ a.rtu.receiving => a.rtu.last = p.rtu.last + 1
      /\ a.since = IF p.out = None \/ p.sent = Size THEN p.since + 1 ELSE 0
  BY <1>1, AgedIs
<1>6. /\ p.since \in Nat /\ p.taken \in 0..Take /\ p.rtu.last \in Nat
      /\ p.ring \in Seq(Stamped) /\ Len(p.ring) \in 0..Ring
      /\ \A k \in DOMAIN p.ring : p.ring[k].at \in Nat
      /\ p.held # None => p.held.at \in Nat
      /\ p.sent \in 0..Size /\ still \in Nat
  BY <1>1, QuietIs
<1>7. /\ q.since \in Nat /\ q.taken \in 0..Take /\ q.rtu.last \in Nat
      /\ q.ring \in Seq(Stamped) /\ Len(q.ring) \in 0..Ring
      /\ \A k \in DOMAIN q.ring : q.ring[k].at \in Nat
      /\ q.held # None => q.held.at \in Nat
      /\ still' \in Nat
  <2>1. PortFits(q) /\ still' \in 0..Calm
    BY <1>1 DEF BusTypes
  <2>2. still' \in Nat
    BY <2>1, ConstantsAre
  <2> QED
    BY <2>1, <2>2, PortNumbers
<1>8. Take \in Nat \ {0} /\ Late \in Nat /\ T35 \in Nat \ {0} /\ Size # 0 /\ Ring \in Nat
  BY ConstantsAre
<1>9. /\ p.since <= Late /\ (p.out = None => p.sent = 0)
      /\ p.out # None => ~ p.rtu.receiving /\ (p.sent = Size => still <= p.since)
  BY <1>1 DEF QuietAt, Passing
<1>10. /\ p.out = None => p.since < Late
       /\ p.out # None /\ p.sent = Size => p.since < Late
  BY <1>1 DEF InTime
<1>11. u \in Sending <=> p.out # None /\ p.sent < Size
  BY DEF Sending
<1> HIDE DEF p, q, a
<1>12. q.since <= Late /\ (q.out = None => q.sent = 0 /\ q.since = p.since + 1)
  BY <1>4, <1>5, <1>6, <1>8, <1>9, <1>10, <1>11
<1>13. q.out # None => ~ q.rtu.receiving
  BY <1>4, <1>5, <1>9
<1>14. CASE char # None
  <2>1. still' = 0
    BY <1>2, <1>14
  <2>2. Stamps(q, still')
    <3>1. q.rtu.last \in Nat /\ 2 * Late \in Nat
      BY <1>7, <1>8
    <3>2. still' <= q.rtu.last + 2 * Late
      BY <2>1, <3>1
    <3>3. (\A k \in DOMAIN q.ring : still' <= q.ring[k].at)
          /\ (q.held # None => still' <= q.held.at)
      BY <1>7, <2>1
    <3> QED
      BY <3>2, <3>3 DEF Stamps
  <2>3. Passing(q, still')
    BY <1>7, <1>12, <1>13, <2>1 DEF Passing
  <2>4. Reported(q, still')
    BY <1>7, <1>8, <2>1 DEF Reported
  <2>5. Drained(q, still', Passes)
    <3>1. (Passes + 1) * Take = Passes * Take + Take
      BY <1>8, Times
    <3> DEFINE x == Passes * Take
    <3>2. x \in Int /\ Ring <= x
      BY <1>8
    <3>3. Len(q.ring) + q.taken <= (Passes + 1) * Take
      <4> HIDE DEF x
      <4>1. (Passes + 1) * Take = x + Take
        BY <3>1 DEF x
      <4> QED
        BY <1>7, <1>8, <3>2, <4>1
    <3>4. still' <= q.since + (Passes + 2 - (Passes + 1)) * Late
      <4>1. Passes + 2 - (Passes + 1) = 1
        OBVIOUS
      <4> QED
        BY <1>7, <1>8, <2>1, <4>1
    <3>5. Passes + 1 \in 1..(Passes + 1)
      OBVIOUS
    <3> QED
      BY <3>3, <3>4, <3>5 DEF Drained
  <2>6. Ending(q, still', Passes)
    <3>1. still' < T35 + 2 * Late + q.since
      BY <1>7, <1>8, <2>1
    <3> QED
      BY <3>1 DEF Ending
  <2> QED
    BY <2>2, <2>3, <2>4, <2>5, <2>6 DEF QuietAt, q
<1>15. CASE char = None
  <2>1. /\ still' <= still + 1 /\ q.ring = a.ring /\ q.fault = p.fault
        /\ ~ (p.out # None /\ p.sent < Size) /\ q.sent = p.sent
    BY <1>2, <1>4, <1>11, <1>15
  <2>2. Stamps(q, still')
    <3>1. ASSUME NEW k \in DOMAIN q.ring PROVE still' <= q.ring[k].at
      <4>1. k \in DOMAIN p.ring /\ q.ring[k].at = p.ring[k].at + 1
        BY <1>5, <2>1, <3>1
      <4>2. still <= p.ring[k].at /\ p.ring[k].at \in Nat
        BY <1>1, <1>6, <4>1 DEF QuietAt, Stamps
      <4> QED
        BY <1>6, <1>7, <2>1, <4>1, <4>2
    <3>2. q.held # None => still' <= q.held.at
      <4>1. p.held # None => still <= p.held.at
        BY <1>1 DEF QuietAt, Stamps
      <4> QED
        BY <1>4, <1>5, <1>6, <1>7, <2>1, <4>1
    <3>3. q.rtu.receiving => still' <= q.rtu.last + 2 * Late
      <4>1. p.rtu.receiving => still <= p.rtu.last + 2 * Late
        BY <1>1 DEF QuietAt, Stamps
      <4> QED
        BY <1>4, <1>5, <1>6, <1>7, <1>8, <2>1, <4>1, SMTT(30)
    <3> QED
      BY <3>1, <3>2, <3>3 DEF Stamps
  <2>3. Passing(q, still')
    <3>1. q.out # None /\ q.sent = Size => still' <= q.since
      BY <1>4, <1>5, <1>6, <1>7, <1>9, <2>1
    <3> QED
      BY <1>12, <1>13, <3>1 DEF Passing
  <2>4. Reported(q, still')
    <3>1. p.out = None /\ p.fault =>
              still <= p.since + Late /\ (p.taken = Take => still <= p.since)
      BY <1>1 DEF QuietAt, Reported
    <3>2. q.out = None /\ q.fault => p.out = None /\ p.fault /\ q.since = p.since + 1
      BY <1>4, <1>12, <2>1
    <3>3. q.taken = p.taken
      BY <1>4
    <3> QED
      BY <1>6, <1>7, <1>8, <2>1, <3>1, <3>2, <3>3 DEF Reported
  <2>5. Drained(q, still', Passes)
    <3>1. SUFFICES ASSUME q.out = None, ~ q.fault, q.ring # <<>>
                   PROVE  \E n \in 1..(Passes + 1) :
                             /\ Len(q.ring) + q.taken <= n * Take
                             /\ still' <= q.since + (Passes + 2 - n) * Late
      BY DEF Drained
    <3>2. p.out = None /\ ~ p.fault /\ Len(q.ring) = Len(p.ring) /\ q.since = p.since + 1
      BY <1>4, <1>5, <1>12, <2>1, <3>1
    <3>3. p.ring # <<>>
      BY <1>6, <1>7, <3>1, <3>2, EmptySeq
    <3>4. PICK n \in 1..(Passes + 1) :
              Len(p.ring) + p.taken <= n * Take /\ still <= p.since + (Passes + 2 - n) * Late
      BY <1>1, <3>2, <3>3 DEF QuietAt, Drained
    <3> DEFINE y == (Passes + 2 - n) * Late
    <3>5. y \in Int
      BY <1>8
    <3>6. still <= p.since + y
      BY <3>4
    <3> HIDE DEF y
    <3>7. still' <= q.since + y
      BY <1>6, <1>7, <2>1, <3>2, <3>5, <3>6
    <3>8. Len(q.ring) + q.taken <= n * Take
      BY <1>4, <3>2, <3>4
    <3> QED
      BY <3>7, <3>8 DEF y
  <2>6. Ending(q, still', Passes)
    <3>1. SUFFICES ASSUME q.out = None, ~ q.fault, q.ring = <<>>, q.rtu.receiving
                   PROVE  \/ still' < T35 + 2 * Late + q.since
                          \/ still' <= q.since + (Passes + 1) * Late
      BY DEF Ending
    <3>2. p.out = None /\ ~ p.fault /\ p.rtu.receiving /\ q.since = p.since + 1
      BY <1>4, <1>5, <1>12, <2>1, <3>1
    <3>3. p.ring = <<>>
      BY <1>5, <1>6, <1>7, <2>1, <3>1, EmptySeq
    <3> DEFINE y == (Passes + 1) * Late
    <3>4. y \in Int
      BY <1>8
    <3>5. still < T35 + 2 * Late + p.since \/ still <= p.since + y
      BY <1>1, <3>2, <3>3 DEF QuietAt, Ending
    <3> HIDE DEF y
    <3>6. still' < T35 + 2 * Late + q.since \/ still' <= q.since + y
      BY <1>6, <1>7, <1>8, <2>1, <3>2, <3>4, <3>5
    <3> QED
      BY <3>6 DEF y
  <2> QED
    BY <2>2, <2>3, <2>4, <2>5, <2>6 DEF QuietAt, q
<1> QED
  BY <1>14, <1>15 DEF q

\* The host's steps leave the ports as they were.
LEMMA QuietHost ==
    ASSUME NEW Passes \in Nat \ {0}, QuietInv(Passes), BusTypes', Steady, NEW u \in Units
    PROVE  QuietAt(port'[u], still', Passes)
<1> DEFINE p == port[u]
           q == port'[u]
<1>1. Alike(p, q) /\ PortFits(p) /\ PortFits(q) /\ QuietAt(p, still, Passes) /\ still' = still
  BY DEF QuietInv, BusTypes, Steady
<1>2. /\ DOMAIN q.ring = DOMAIN p.ring /\ (q.ring = <<>>) = (p.ring = <<>>)
  BY <1>1, PortNumbers, EmptySeq DEF Alike
<1> HIDE DEF p, q
<1>4. Stamps(q, still) /\ Passing(q, still) /\ Reported(q, still)
  BY <1>1, <1>2 DEF Alike, QuietAt, Stamps, Passing, Reported
<1>5. Drained(q, still, Passes) /\ Ending(q, still, Passes)
  BY <1>1, <1>2 DEF Alike, QuietAt, Drained, Ending
<1> QED
  BY <1>1, <1>4, <1>5 DEF QuietAt, q

LEMMA QuietInit ==
    ASSUME NEW Passes \in Nat \ {0}, Init
    PROVE  QuietInv(Passes)
<1>1. BusTypes
  BY InitIs
<1>2. ASSUME NEW u \in Units PROVE QuietAt(port[u], still, Passes)
  <2> DEFINE p == port[u]
  <2>1. /\ p.ring = <<>> /\ ~ p.fault /\ p.held = None /\ p.out = None
        /\ ~ p.rtu.receiving /\ p.since = 0 /\ p.sent = 0
    BY InitIs
  <2> HIDE DEF p
  <2>2. DOMAIN p.ring = {}
    BY <2>1
  <2>3. Stamps(p, still) /\ Passing(p, still) /\ Reported(p, still)
    BY <2>1, <2>2, ConstantsAre DEF Stamps, Passing, Reported
  <2>4. Drained(p, still, Passes) /\ Ending(p, still, Passes)
    BY <2>1 DEF Drained, Ending
  <2> QED
    BY <2>3, <2>4 DEF QuietAt, p
<1> QED
  BY <1>1, <1>2 DEF QuietInv

LEMMA QuietKeeps ==
    ASSUME NEW Passes \in Nat \ {0}, Ring <= Passes * Take, QuietInv(Passes), [Next]_vars
    PROVE  QuietInv(Passes)'
<1>1. BusTypes'
  BY TypesKeep DEF QuietInv
<1>2. ASSUME NEW u \in Units PROVE QuietAt(port'[u], still', Passes)
  <2>1. CASE UNCHANGED vars
    BY <2>1 DEF vars, QuietInv
  <2>2. CASE Left \/ Settled \/ Accept \/ GiveUp
            \/ \E v \in Units \cup {Broadcast}, hinted \in BOOLEAN : Transmit(v, hinted)
    <3>1. Steady
      BY <2>2, HostIs, TransmitIs DEF QuietInv
    <3> QED
      BY <1>1, <3>1, QuietHost
  <2>3. ASSUME NEW v \in Units, Node(v) PROVE QuietAt(port'[u], still', Passes)
    <3>1. CASE v = u
      BY <2>3, <3>1, QuietTake, QuietPass, QuietSent DEF Node
    <3>2. CASE v # u
      <4>1. Alone(v)
        BY <2>3, TakeOneIs, PassEndsIs, SentIs DEF Node, QuietInv
      <4>2. port'[u] = port[u] /\ still' = still
        BY <3>2, <4>1 DEF Alone
      <4> QED
        BY <4>2 DEF QuietInv
    <3> QED
      BY <3>1, <3>2
  <2>4. ASSUME NEW noisy \in BOOLEAN, Tick(noisy) PROVE QuietAt(port'[u], still', Passes)
    BY <2>4, QuietTick
  <2> QED
    BY <2>1, <2>2, <2>3, <2>4 DEF Next
<1> QED
  BY <1>1, <1>2 DEF QuietInv

\* A node that is not answering has nothing left to do once the line has been
\* quiet long enough, and none is left that has answered.
LEMMA CalmRests ==
    ASSUME NEW Passes \in Nat \ {0}, Ring <= Passes * Take, (Passes - 1) * Late < T35,
           QuietInv(Passes), still = Calm, NEW u \in Units
    PROVE  LET p == port[u]
           IN /\ p.out = None => ~ p.fault /\ p.ring = <<>> /\ ~ p.rtu.receiving
              /\ p.out # None => p.sent < Size /\ ~ p.rtu.receiving
<1> DEFINE p == port[u]
<1>1. /\ p.since \in Nat /\ p.since <= Late /\ still \in Nat /\ still = T35 + 3 * Late
      /\ Late \in Nat /\ T35 \in Nat \ {0} /\ Ring \in Nat /\ Size \in Nat /\ p.sent \in 0..Size
  BY QuietIs, ConstantsAre DEF QuietInv, QuietAt, Passing
<1>2. QuietAt(p, still, Passes)
  BY DEF QuietInv
<1> DEFINE x == (Passes + 1) * Late
           z == (Passes - 1) * Late
<1>3. x \in Int /\ z \in Int /\ z < T35 /\ x = z + 2 * Late
  <2>1. Passes * Late \in Int /\ x = Passes * Late + Late /\ z = Passes * Late - Late
    BY <1>1, Times
  <2> QED
    BY <1>1, <2>1
<1> HIDE DEF p, x, z
<1>4. ~ (still <= p.since + x)
  BY <1>1, <1>3
<1>5. ASSUME p.out = None, p.fault PROVE FALSE
  BY <1>1, <1>2, <1>5 DEF QuietAt, Reported
<1>6. ASSUME p.out = None, ~ p.fault, p.ring = <<>>, p.rtu.receiving PROVE FALSE
  <2>1. still < T35 + 2 * Late + p.since \/ still <= p.since + x
    BY <1>2, <1>6 DEF QuietAt, Ending, x
  <2> QED
    BY <1>1, <1>4, <2>1
<1>7. ASSUME p.out = None, ~ p.fault, p.ring # <<>> PROVE FALSE
  <2>1. PICK n \in 1..(Passes + 1) : still <= p.since + (Passes + 2 - n) * Late
    BY <1>2, <1>7 DEF QuietAt, Drained
  <2>2. (Passes + 2 - n) * Late <= (Passes + 1) * Late
    <3>1. Passes + 2 - n \in Int /\ Passes + 1 \in Int /\ Passes + 2 - n <= Passes + 1
      OBVIOUS
    <3> QED
      BY <1>1, <3>1, TimesGrows
  <2> DEFINE y == (Passes + 2 - n) * Late
  <2>3. y \in Int /\ y <= x
    BY <1>1, <2>2 DEF x
  <2>4. still <= p.since + y
    BY <2>1
  <2> HIDE DEF y
  <2> QED
    BY <1>1, <1>3, <1>4, <2>3, <2>4
<1>8. ASSUME p.out # None PROVE p.sent < Size /\ ~ p.rtu.receiving
  BY <1>1, <1>2, <1>8 DEF QuietAt, Passing
<1> QED
  BY <1>5, <1>6, <1>7, <1>8 DEF p

\* A line that stays quiet for t3.5 and three passes leaves no receiver in a
\* frame, spoilt or whole, however full a ring and whatever error was pending
\* when it fell silent (link_pump's LINK_TAKE_MAX characters and the error
\* report a pass, mb_rtu_service): if Passes passes empty a full ring, and all
\* but one of them together may be late by less than t3.5.
THEOREM QuietLineEnds ==
    ASSUME NEW Passes \in Nat \ {0}, Ring <= Passes * Take, (Passes - 1) * Late < T35
    PROVE  Spec => []QuietEndsFrames
<1>1. QuietInv(Passes) => QuietEndsFrames
  BY CalmRests DEF QuietEndsFrames
<1>2. Init => QuietInv(Passes)
  BY QuietInit
<1>3. QuietInv(Passes) /\ [Next]_vars => QuietInv(Passes)'
  BY QuietKeeps
<1> QED
  BY <1>1, <1>2, <1>3, PTL DEF Spec

-----------------------------------------------------------------------------
(* A request is acted on once.                                             *)

(* What a receiver has kept, the character a pass holds included, comes     *)
(* before what is in the ring; a request's characters come in the order     *)
(* they were sent and leave the node with the frame they make.  A node      *)
(* never keeps a character of its own answer: the echo stays in the ring,   *)
(* and is purged there.                                                     *)

Kept(p) ==
    {p.rtu.rx[i] : i \in DOMAIN p.rtu.rx} \cup (IF p.held = None THEN {} ELSE {p.held.char})

\* A character of an answer, or of a request, which is the present one or past.
Sound(c, request) ==
    c.frame # None =>
        /\ c.frame.from = None \/ c.frame.to = c.frame.from
        /\ c.frame.now /\ c.frame.from = None => c.frame = request

Shape(p, u) ==
    /\ p.out # None => p.rtu.rx = <<>> /\ p.out.from = u /\ p.out.to = u
    /\ p.out = None => p.held = None
    /\ ~ p.rtu.receiving => p.rtu.rx = <<>>

Texts(p, u, request) ==
    /\ \A c \in Kept(p) : Sound(c, request) /\ (c.frame # None => c.frame.from # u)
    /\ \A i \in DOMAIN p.ring :
          /\ Sound(p.ring[i].char, request)
          /\ p.ring[i].char.frame # None /\ p.ring[i].char.frame.from = u => p.out # None

InOrder(p, request, sent) ==
    /\ \A c \in Kept(p) : c.frame = request => c.k <= sent
    /\ \A i \in DOMAIN p.ring : p.ring[i].char.frame = request =>
          /\ p.ring[i].char.k <= sent
          /\ \A c \in Kept(p) : c.frame = request => c.k < p.ring[i].char.k
          /\ \A j \in DOMAIN p.ring :
                i < j /\ p.ring[j].char.frame = request => p.ring[i].char.k < p.ring[j].char.k

\* No character of the request's is left.
Spent(p, request) ==
    /\ \A c \in Kept(p) : c.frame # request
    /\ \A i \in DOMAIN p.ring : p.ring[i].char.frame # request

Acted(p, u, request, sent) ==
    p.ran > 0 =>
        p.ran = 1 /\ request.to \in {u, Broadcast} /\ sent = Size /\ Spent(p, request)

OnceAt(p, u, request, sent) ==
    /\ Shape(p, u) /\ Texts(p, u, request)
    /\ InOrder(p, request, sent) /\ Acted(p, u, request, sent)

OnceInv ==
    /\ BusTypes /\ host.request.from = None /\ host.request.now
    /\ \A u \in Units : OnceAt(port[u], u, host.request, host.sent)

LEMMA KeptIs ==
    ASSUME NEW p, PortFits(p)
    PROVE  /\ \A c \in Kept(p) : c \in Chars
           /\ \A i \in DOMAIN p.rtu.rx : p.rtu.rx[i] \in Kept(p)
           /\ p.held # None => p.held.char \in Kept(p)
<1>1. p.rtu.rx \in Seq(Chars) /\ p.held \in Stamped \cup {None}
  BY PortIs DEF ReceiverFits, ReceiverState
<1>2. \A i \in DOMAIN p.rtu.rx : p.rtu.rx[i] \in Chars
  BY <1>1
<1>3. p.held # None => p.held.char \in Chars
  BY <1>1 DEF Stamped
<1> QED
  BY <1>2, <1>3 DEF Kept

\* What a character leaves in the receiver: what was there, and the character.
LEMMA OnByteRx ==
    ASSUME NEW r, ReceiverFits(r), NEW char \in Chars, NEW at \in Nat
    PROVE  LET q == OnByte(r, char, at)
           IN /\ q.receiving
              /\ ~ r.receiving => q.rx = <<char>>
              /\ \A i \in DOMAIN q.rx :
                    q.rx[i] = char \/ (r.receiving /\ \E j \in DOMAIN r.rx : q.rx[i] = r.rx[j])
<1> DEFINE room == ~ r.receiving \/ Len(r.rx) < AduMax
           more == Append(r.rx, char)
           one == <<char>>
           q == OnByte(r, char, at)
<1>1. q.receiving /\ q.rx = IF ~ r.receiving THEN one ELSE IF room THEN more ELSE r.rx
  BY DEF OnByte
<1>2. r.rx \in Seq(Chars) /\ r.receiving \in BOOLEAN
  BY DEF ReceiverFits, ReceiverState
<1>3. \A i \in DOMAIN one : one[i] = char
  OBVIOUS
<1>4. \A i \in DOMAIN more : more[i] = char \/ \E j \in DOMAIN r.rx : more[i] = r.rx[j]
  BY <1>2
<1> HIDE DEF q, one, more
<1>5. CASE ~ r.receiving
  BY <1>1, <1>3, <1>5 DEF one, q
<1>6. CASE r.receiving /\ room
  BY <1>1, <1>4, <1>6 DEF q
<1>7. CASE r.receiving /\ ~ room
  BY <1>1, <1>7 DEF q
<1> QED
  BY <1>2, <1>5, <1>6, <1>7

LEMMA TailIs ==
    ASSUME NEW S, NEW s \in Seq(S), s # <<>>
    PROVE  /\ Tail(s) \in Seq(S) /\ 1 \in DOMAIN s /\ Head(s) = s[1]
           /\ \A i \in DOMAIN Tail(s) : i \in Int /\ i + 1 \in DOMAIN s /\ Tail(s)[i] = s[i + 1]
                                        /\ 1 < i + 1
<1>1. Len(s) \in Nat /\ Len(s) # 0
  BY EmptySeq
<1>2. Head(s) = s[1] /\ DOMAIN s = 1..Len(s)
  OBVIOUS
<1>3. Tail(s) \in Seq(S) /\ Len(Tail(s)) = Len(s) - 1
      /\ \A i \in 1..Len(Tail(s)) : Tail(s)[i] = s[i + 1]
  BY <1>1, HeadTailProperties
<1>4. DOMAIN Tail(s) = 1..Len(Tail(s))
  BY <1>3
<1> QED
  BY <1>1, <1>2, <1>3, <1>4

\* A frame that is acted on is a request's, and if it is the present one the
\* node has nothing more of it.
LEMMA Executes ==
    ASSUME NEW p, PortFits(p), NEW u \in Units,
           NEW request \in Frames, NEW sent \in 0..Size,
           OnceAt(p, u, request, sent), Ours(p.rtu, u)
    PROVE  LET f == p.rtu.rx[1].frame
           IN /\ f \in Frames /\ f.from = None /\ f.to \in {u, Broadcast}
              /\ 1 \in DOMAIN p.rtu.rx
              /\ f.now => /\ f = request /\ p.ran = 0 /\ sent = Size
                          /\ \A i \in DOMAIN p.ring : p.ring[i].char.frame # request
<1> DEFINE rx == p.rtu.rx
           f == rx[1].frame
<1>1. rx \in Seq(Chars) /\ f \in Frames /\ p.ran \in Nat /\ p.ring \in Seq(Stamped)
  BY PortIs, OursIs DEF ReceiverFits, ReceiverState
<1>2. Len(rx) = Size /\ rx = CharsOf(Head(rx).frame) /\ f.to \in {u, Broadcast}
  BY DEF Ours, Whole, Makes
<1>3. Size \in Nat \ {0}
  BY ConstantsAre
<1>4. Head(rx) = rx[1] /\ 1 \in DOMAIN rx /\ Size \in DOMAIN rx
  BY <1>1, <1>2, <1>3
<1>5. rx[Size] = Char(f, Size)
  BY <1>2, <1>3, <1>4 DEF CharsOf
<1>6. rx[Size].frame = f /\ rx[Size].k = Size
  BY <1>5 DEF Char
<1>7. rx[1] \in Kept(p) /\ rx[Size] \in Kept(p)
  BY <1>4, KeptIs
<1> DEFINE last == rx[Size]
           first == rx[1]
<1>8. first \in Kept(p) /\ last \in Kept(p) /\ first.frame = f /\ last.frame = f /\ last.k = Size
  BY <1>6, <1>7
<1> HIDE DEF first, last, f
<1>9. f # None
  BY <1>1, NoneAssumption
<1>10. f.from = None
  <2>1. f.from = None \/ f.to = f.from
    BY <1>8, <1>9 DEF OnceAt, Texts, Sound
  <2>2. f.from # u
    BY <1>8, <1>9 DEF OnceAt, Texts
  <2>3. f.from \in Units \cup {None} /\ Broadcast \notin Units
    BY <1>1, BusAssumption DEF Frames, Broadcast
  <2> QED
    BY <1>2, <2>1, <2>2, <2>3 DEF f
<1>11. ASSUME f.now
       PROVE  /\ f = request /\ p.ran = 0 /\ sent = Size
              /\ \A i \in DOMAIN p.ring : p.ring[i].char.frame # request
  <2>1. f = request
    BY <1>8, <1>9, <1>10, <1>11 DEF OnceAt, Texts, Sound
  <2>2. p.ran = 0
    <3>1. ~ (p.ran > 0)
      BY <1>8, <2>1 DEF OnceAt, Acted, Spent
    <3> QED
      BY <1>1, <3>1
  <2>3. sent = Size
    <3>1. last.k <= sent
      BY <1>8, <2>1 DEF OnceAt, InOrder
    <3> QED
      BY <1>3, <1>8, <3>1
  <2>4. ASSUME NEW i \in DOMAIN p.ring, p.ring[i].char.frame = request PROVE FALSE
    <3>1. p.ring[i].char.k <= sent /\ last.k < p.ring[i].char.k
      BY <1>8, <2>1, <2>4 DEF OnceAt, InOrder
    <3>2. p.ring[i] \in Stamped
      BY <1>1
    <3>3. p.ring[i].char.k \in Int
      BY <3>2, CharsAre, ConstantsAre DEF Stamped
    <3> QED
      BY <1>3, <1>8, <2>3, <3>1, <3>3
  <2> QED
    BY <2>1, <2>2, <2>3, <2>4
<1> QED
  BY <1>1, <1>2, <1>4, <1>10, <1>11 DEF f

\* The answer a closed frame gets is the node's own.
LEMMA OutIs ==
    ASSUME NEW u \in Units, NEW rtu
    PROVE  OutOf(u, rtu) # None => OutOf(u, rtu).from = u /\ OutOf(u, rtu).to = u
BY DEF OutOf, Answer

\* What a port keeps after taking a character of the ring's: the character,
\* and what it kept unless that made a frame.
LEMMA KeptTake ==
    ASSUME BusTypes, NEW u \in Units, Shape(port[u], u), TakeOne(u)
    PROVE  LET p == port[u]
               q == port'[u]
           IN /\ p.ring \in Seq(Stamped) /\ p.ring # <<>> /\ 1 \in DOMAIN p.ring
              /\ q.ring = Tail(p.ring) /\ p.out = None
              /\ \A c \in Kept(q) : c = p.ring[1].char \/ (~ Breaks(p) /\ c \in Kept(p))
              /\ Shape(q, u)
<1> DEFINE p == port[u]
           q == port'[u]
           e == Head(p.ring)
           r == IF Breaks(p) THEN Receiver ELSE p.rtu
<1>1. /\ PortFits(p) /\ PortFits(q) /\ p.out = None /\ p.ring # <<>> /\ q.ring = Tail(p.ring)
      /\ q.out = IF Breaks(p) THEN OutOf(u, p.rtu) ELSE None
      /\ \/ q.out # None /\ q.held = e /\ q.rtu = Receiver
         \/ /\ q.out = None /\ q.held = p.held
            /\ q.rtu = OnByte(r, e.char, e.at)
  BY TakeOneIs DEF BusTypes
<1>2. p.ring \in Seq(Stamped) /\ ReceiverFits(p.rtu)
  BY <1>1, PortIs
<1>3. e = p.ring[1] /\ 1 \in DOMAIN p.ring /\ e \in Stamped
  BY <1>1, <1>2, TailIs
<1>4. e.char \in Chars /\ e.at \in Nat /\ e # None
  BY <1>3, NoneAssumption DEF Stamped
<1>5. p.held = None /\ (~ p.rtu.receiving => p.rtu.rx = <<>>)
  BY <1>1 DEF Shape
<1>6. ReceiverFits(r) /\ (Breaks(p) => r = Receiver) /\ (~ Breaks(p) => r = p.rtu)
  BY <1>2, ReceiverIs
<1>7. Receiver.rx = <<>> /\ ~ Receiver.receiving
  BY DEF Receiver
<1> HIDE DEF p, q, e, r
<1>8. CASE q.out # None
  <2>1. q.held = e /\ q.rtu = Receiver /\ Breaks(p) /\ q.out = OutOf(u, p.rtu)
    BY <1>1, <1>8
  <2>2. DOMAIN q.rtu.rx = {}
    BY <1>7, <2>1
  <2>3. Kept(q) = {e.char}
    BY <1>4, <2>1, <2>2 DEF Kept
  <2>4. Shape(q, u)
    BY <1>7, <1>8, <2>1, OutIs DEF Shape
  <2> QED
    BY <1>1, <1>2, <1>3, <2>3, <2>4 DEF p, q, e
<1>9. CASE q.out = None
  <2> DEFINE t == OnByte(r, e.char, e.at)
  <2>1. q.held = None /\ q.rtu = t
    BY <1>1, <1>5, <1>9
  <2>2. /\ t.receiving
        /\ \A i \in DOMAIN t.rx :
              t.rx[i] = e.char \/ (r.receiving /\ \E j \in DOMAIN r.rx : t.rx[i] = r.rx[j])
    BY <1>4, <1>6, OnByteRx
  <2> HIDE DEF t
  <2>3. ASSUME NEW c \in Kept(q) PROVE c = e.char \/ (~ Breaks(p) /\ c \in Kept(p))
    <3>1. PICK i \in DOMAIN t.rx : c = t.rx[i]
      BY <2>1 DEF Kept
    <3>2. CASE c = e.char
      BY <3>2
    <3>3. CASE r.receiving /\ \E j \in DOMAIN r.rx : t.rx[i] = r.rx[j]
      <4>1. ~ Breaks(p) /\ r = p.rtu
        BY <1>6, <1>7, <3>3
      <4>2. c \in Kept(p)
        BY <1>1, <3>1, <3>3, <4>1, KeptIs
      <4> QED
        BY <4>1, <4>2
    <3> QED
      BY <2>2, <3>1, <3>2, <3>3
  <2>4. Shape(q, u)
    BY <1>9, <2>1, <2>2 DEF Shape
  <2> QED
    BY <1>1, <1>2, <1>3, <2>3, <2>4 DEF p, q, e
<1> QED
  BY <1>8, <1>9

LEMMA OnceTake ==
    ASSUME OnceInv, NEW u \in Units, TakeOne(u)
    PROVE  OnceAt(port'[u], u, host.request, host.sent)
<1> DEFINE p == port[u]
           q == port'[u]
           request == host.request
           sent == host.sent
           one == p.ring[1].char
<1>1. /\ BusTypes /\ OnceAt(p, u, request, sent) /\ PortFits(p) /\ Shape(p, u)
      /\ request \in Frames /\ sent \in 0..Size
  BY DEF OnceInv, OnceAt, BusTypes, HostFits, HostState
<1>2. /\ p.ring \in Seq(Stamped) /\ p.ring # <<>> /\ 1 \in DOMAIN p.ring
      /\ q.ring = Tail(p.ring) /\ p.out = None
      /\ \A c \in Kept(q) : c = one \/ (~ Breaks(p) /\ c \in Kept(p))
      /\ Shape(q, u)
  BY <1>1, KeptTake
<1>3. q.ran = IF Breaks(p) THEN RanOf(u, p.rtu, p.ran) ELSE p.ran
  BY <1>1, TakeOneIs
<1>4. \A i \in DOMAIN q.ring : i \in Int /\ i + 1 \in DOMAIN p.ring /\ q.ring[i] = p.ring[i + 1]
                               /\ 1 < i + 1
  BY <1>2, TailIs
<1> HIDE DEF p, q, request, sent, one
<1>5. /\ Sound(one, request) /\ (one.frame # None => one.frame.from # u)
      /\ one.frame = request => one.k <= sent
  BY <1>1, <1>2 DEF OnceAt, Texts, InOrder, one
<1>6. Texts(q, u, request)
  <2>1. ASSUME NEW c \in Kept(q) PROVE Sound(c, request) /\ (c.frame # None => c.frame.from # u)
    BY <1>1, <1>2, <1>5, <2>1 DEF OnceAt, Texts
  <2>2. ASSUME NEW i \in DOMAIN q.ring
        PROVE  /\ Sound(q.ring[i].char, request)
               /\ ~ (q.ring[i].char.frame # None /\ q.ring[i].char.frame.from = u)
    BY <1>1, <1>2, <1>4, <2>2 DEF OnceAt, Texts
  <2> QED
    BY <2>1, <2>2 DEF Texts
<1>7. InOrder(q, request, sent)
  <2>1. ASSUME NEW c \in Kept(q), c.frame = request PROVE c.k <= sent
    BY <1>1, <1>2, <1>5, <2>1 DEF OnceAt, InOrder
  <2>2. ASSUME NEW i \in DOMAIN q.ring, q.ring[i].char.frame = request
        PROVE  /\ q.ring[i].char.k <= sent
               /\ \A c \in Kept(q) : c.frame = request => c.k < q.ring[i].char.k
               /\ \A j \in DOMAIN q.ring :
                     i < j /\ q.ring[j].char.frame = request
                     => q.ring[i].char.k < q.ring[j].char.k
    <3>1. i \in Int /\ i + 1 \in DOMAIN p.ring /\ q.ring[i] = p.ring[i + 1] /\ 1 < i + 1
      BY <1>4, <2>2
    <3>2. q.ring[i].char.k <= sent
      BY <1>1, <2>2, <3>1 DEF OnceAt, InOrder
    <3>3. ASSUME NEW c \in Kept(q), c.frame = request PROVE c.k < q.ring[i].char.k
      <4>1. CASE c = one
        BY <1>1, <1>2, <2>2, <3>1, <3>3, <4>1 DEF OnceAt, InOrder, one
      <4>2. CASE c \in Kept(p)
        BY <1>1, <2>2, <3>1, <3>3, <4>2 DEF OnceAt, InOrder
      <4> QED
        BY <1>2, <3>3, <4>1, <4>2
    <3>4. ASSUME NEW j \in DOMAIN q.ring, i < j, q.ring[j].char.frame = request
          PROVE  q.ring[i].char.k < q.ring[j].char.k
      <4>1. j \in Int /\ j + 1 \in DOMAIN p.ring /\ q.ring[j] = p.ring[j + 1]
        BY <1>4, <3>4
      <4>2. i + 1 < j + 1
        BY <3>1, <3>4, <4>1
      <4> QED
        BY <1>1, <2>2, <3>1, <3>4, <4>1, <4>2 DEF OnceAt, InOrder
    <3> QED
      BY <3>2, <3>3, <3>4
  <2> QED
    BY <2>1, <2>2 DEF InOrder
<1>8. Acted(q, u, request, sent)
  <2>1. CASE Breaks(p) /\ Ours(p.rtu, u) /\ p.rtu.rx[1].frame.now
    <3>1. /\ request.to \in {u, Broadcast} /\ p.ran = 0 /\ sent = Size
          /\ \A i \in DOMAIN p.ring : p.ring[i].char.frame # request
      BY <1>1, <2>1, Executes
    <3>2. q.ran = 1
      BY <1>3, <2>1, <3>1 DEF RanOf
    <3>3. \A i \in DOMAIN q.ring : q.ring[i].char.frame # request
      BY <1>4, <3>1
    <3>4. \A c \in Kept(q) : c.frame # request
      BY <1>2, <2>1, <3>1 DEF one
    <3> QED
      BY <3>1, <3>2, <3>3, <3>4 DEF Acted, Spent
  <2>2. CASE ~ (Breaks(p) /\ Ours(p.rtu, u) /\ p.rtu.rx[1].frame.now)
    <3>1. q.ran = p.ran
      BY <1>3, <2>2 DEF RanOf
    <3>2. Spent(p, request) => Spent(q, request)
      BY <1>2, <1>4 DEF Spent, one
    <3> QED
      BY <1>1, <3>1, <3>2 DEF OnceAt, Acted
  <2> QED
    BY <2>1, <2>2
<1> QED
  BY <1>2, <1>6, <1>7, <1>8 DEF OnceAt, q, request, sent

\* A port that has taken in nothing new and executed nothing.
LEMMA OnceLess ==
    ASSUME NEW u, NEW p, NEW q, NEW request, NEW sent, OnceAt(p, u, request, sent),
           Shape(q, u), \A c \in Kept(q) : c \in Kept(p), q.ran = p.ran,
           q.ring = <<>> \/ (q.ring = p.ring /\ (p.out # None => q.out # None))
    PROVE  OnceAt(q, u, request, sent)
<1>1. \A i \in DOMAIN q.ring : /\ i \in DOMAIN p.ring /\ q.ring[i] = p.ring[i]
                               /\ q.ring = p.ring /\ (p.out # None => q.out # None)
  <2>1. q.ring = <<>> => DOMAIN q.ring = {}
    OBVIOUS
  <2> QED
    BY <2>1
<1>2. Texts(q, u, request)
  BY <1>1 DEF OnceAt, Texts
<1>3. InOrder(q, request, sent)
  <2>1. InOrder(p, request, sent)
    BY DEF OnceAt
  <2>2. \A c \in Kept(q) : c.frame = request => c.k <= sent
    BY <2>1 DEF InOrder
  <2>3. ASSUME NEW i \in DOMAIN q.ring, q.ring[i].char.frame = request
        PROVE  /\ q.ring[i].char.k <= sent
               /\ \A c \in Kept(q) : c.frame = request => c.k < q.ring[i].char.k
               /\ \A j \in DOMAIN q.ring :
                     i < j /\ q.ring[j].char.frame = request
                     => q.ring[i].char.k < q.ring[j].char.k
    <3>1. i \in DOMAIN p.ring /\ q.ring = p.ring
      BY <1>1, <2>3
    <3> QED
      BY <2>1, <2>3, <3>1 DEF InOrder
  <2> QED
    BY <2>2, <2>3 DEF InOrder
<1>4. Acted(q, u, request, sent)
  <2>1. Spent(p, request) => Spent(q, request)
    BY <1>1 DEF Spent
  <2> QED
    BY <2>1 DEF OnceAt, Acted
<1> QED
  BY <1>2, <1>3, <1>4 DEF OnceAt

LEMMA OncePass ==
    ASSUME OnceInv, NEW u \in Units, PassEnds(u)
    PROVE  OnceAt(port'[u], u, host.request, host.sent)
<1> DEFINE p == port[u]
           q == port'[u]
           request == host.request
           sent == host.sent
<1>1. /\ BusTypes /\ OnceAt(p, u, request, sent) /\ PortFits(p) /\ PortFits(q) /\ Shape(p, u)
      /\ request \in Frames /\ sent \in 0..Size
  BY PassEndsIs DEF OnceInv, OnceAt, BusTypes, HostFits, HostState
<1>2. /\ p.out = None /\ q.ring = p.ring /\ q.held = p.held
      /\ \/ q.rtu = OnError(p.rtu) /\ q.ran = p.ran /\ q.out = None
         \/ /\ q.rtu = Receiver /\ q.out = OutOf(u, p.rtu) /\ q.ran = RanOf(u, p.rtu, p.ran)
         \/ q.rtu = p.rtu /\ q.out = None /\ q.ran = p.ran
  BY <1>1, PassEndsIs
<1>3. p.held = None /\ (~ p.rtu.receiving => p.rtu.rx = <<>>)
  BY <1>1, <1>2 DEF Shape
<1>4. Receiver.rx = <<>> /\ ~ Receiver.receiving
  BY DEF Receiver
<1>5. p.rtu \in ReceiverState
  BY <1>1, PortIs DEF ReceiverFits
<1> HIDE DEF p, q, request, sent
<1>6. CASE q.rtu = OnError(p.rtu) /\ q.ran = p.ran /\ q.out = None
  <2>1. q.rtu.rx = p.rtu.rx /\ q.rtu.receiving
    BY <1>5, <1>6 DEF OnError, ReceiverState
  <2>2. Kept(q) = Kept(p)
    BY <1>2, <1>3, <2>1 DEF Kept
  <2>3. Shape(q, u)
    BY <1>2, <1>3, <1>6, <2>1 DEF Shape
  <2>4. OnceAt(q, u, request, sent)
    BY <1>1, <1>2, <1>6, <2>2, <2>3, OnceLess
  <2> QED
    BY <2>4 DEF q, request, sent
<1>7. CASE q.rtu = p.rtu /\ q.out = None /\ q.ran = p.ran
  <2>1. Kept(q) = Kept(p)
    BY <1>2, <1>3, <1>7 DEF Kept
  <2>2. Shape(q, u)
    BY <1>2, <1>3, <1>7 DEF Shape
  <2>3. OnceAt(q, u, request, sent)
    BY <1>1, <1>2, <1>7, <2>1, <2>2, OnceLess
  <2> QED
    BY <2>3 DEF q, request, sent
<1>8. CASE /\ q.rtu = Receiver /\ q.out = OutOf(u, p.rtu) /\ q.ran = RanOf(u, p.rtu, p.ran)
  <2>1. DOMAIN q.rtu.rx = {}
    BY <1>4, <1>8
  <2>2. Kept(q) = {}
    BY <1>2, <1>3, <2>1 DEF Kept
  <2>3. Shape(q, u)
    BY <1>2, <1>3, <1>4, <1>8, OutIs DEF Shape
  <2>4. CASE Ours(p.rtu, u) /\ p.rtu.rx[1].frame.now
    <3>1. /\ request.to \in {u, Broadcast} /\ p.ran = 0 /\ sent = Size
          /\ \A i \in DOMAIN p.ring : p.ring[i].char.frame # request
      BY <1>1, <2>4, Executes
    <3>2. q.ran = 1
      BY <1>8, <2>4, <3>1 DEF RanOf
    <3>3. Acted(q, u, request, sent)
      BY <1>2, <2>2, <3>1, <3>2 DEF Acted, Spent
    <3>4. Texts(q, u, request) /\ InOrder(q, request, sent)
      BY <1>1, <1>2, <2>2 DEF OnceAt, Texts, InOrder
    <3> QED
      BY <2>3, <3>3, <3>4 DEF OnceAt, q, request, sent
  <2>5. CASE ~ (Ours(p.rtu, u) /\ p.rtu.rx[1].frame.now)
    <3>1. q.ran = p.ran
      BY <1>8, <2>5 DEF RanOf
    <3>2. OnceAt(q, u, request, sent)
      BY <1>1, <1>2, <2>2, <2>3, <3>1, OnceLess
    <3> QED
      BY <3>2 DEF q, request, sent
  <2> QED
    BY <2>4, <2>5
<1> QED
  BY <1>2, <1>6, <1>7, <1>8

\* What a port keeps once its answer has left: the character it held.
LEMMA KeptSent ==
    ASSUME BusTypes, NEW u \in Units, Shape(port[u], u), Sent(u)
    PROVE  LET p == port[u]
               q == port'[u]
           IN /\ \A c \in Kept(q) : c \in Kept(p)
              /\ Shape(q, u)
<1> DEFINE p == port[u]
           q == port'[u]
<1>1. /\ PortFits(p) /\ p.out # None /\ q.out = None
      /\ \/ p.held = None /\ q.held = p.held /\ q.rtu = p.rtu
         \/ /\ p.held # None /\ q.held = None
            /\ q.rtu = OnByte(p.rtu, p.held.char, p.held.at)
  BY SentIs DEF BusTypes
<1>2. p.rtu.rx = <<>> /\ ReceiverFits(p.rtu) /\ p.held \in Stamped \cup {None}
  BY <1>1, PortIs DEF Shape
<1>3. DOMAIN p.rtu.rx = {}
  BY <1>2
<1> HIDE DEF p, q
<1>4. CASE p.held = None
  BY <1>1, <1>2, <1>3, <1>4 DEF Kept, Shape, p, q
<1>5. CASE p.held # None
  <2>1. p.held.char \in Chars /\ p.held.at \in Nat
    BY <1>2, <1>5 DEF Stamped
  <2> DEFINE t == OnByte(p.rtu, p.held.char, p.held.at)
  <2>2. t.receiving /\ \A i \in DOMAIN t.rx : t.rx[i] = p.held.char
    BY <1>2, <1>3, <2>1, OnByteRx
  <2>3. q.rtu = t /\ q.held = None
    BY <1>1, <1>5
  <2> HIDE DEF t
  <2>4. ASSUME NEW c \in Kept(q) PROVE c \in Kept(p)
    <3>1. c = p.held.char
      BY <2>2, <2>3 DEF Kept
    <3> QED
      BY <1>5, <3>1 DEF Kept
  <2>5. Shape(q, u)
    BY <1>1, <2>2, <2>3 DEF Shape
  <2> QED
    BY <2>4, <2>5 DEF p, q
<1> QED
  BY <1>4, <1>5

LEMMA OnceSent ==
    ASSUME OnceInv, NEW u \in Units, Sent(u)
    PROVE  OnceAt(port'[u], u, host.request, host.sent)
<1> DEFINE p == port[u]
           q == port'[u]
<1>1. BusTypes /\ OnceAt(p, u, host.request, host.sent) /\ Shape(p, u)
  BY DEF OnceInv, OnceAt
<1>2. q.ring = <<>> /\ q.ran = p.ran
  BY <1>1, SentIs
<1>3. (\A c \in Kept(q) : c \in Kept(p)) /\ Shape(q, u)
  BY <1>1, KeptSent
<1> HIDE DEF p, q
<1>4. OnceAt(q, u, host.request, host.sent)
  BY <1>1, <1>2, <1>3, OnceLess
<1> QED
  BY <1>4 DEF q

\* What the line carries: nothing when nobody sends, what no frame says, the
\* host's next character, or a node's.
LEMMA LineIs ==
    ASSUME BusTypes, NEW noisy \in BOOLEAN
    PROVE  LET c == LineChar(noisy)
           IN \/ ~ noisy /\ c = None /\ Sending = {} /\ ~ HostSends
              \/ c = Garbage /\ (noisy \/ Sending # {})
              \/ ~ noisy /\ HostSends /\ Sending = {} /\ c = Char(host.request, host.sent + 1)
              \/ /\ ~ noisy /\ ~ HostSends /\ Cardinality(Sending) = 1
                 /\ \E v \in Sending : c = Char(port[v].out, port[v].sent + 1)
<1>1. CASE noisy
  BY <1>1 DEF LineChar
<1>2. CASE ~ noisy /\ HostSends /\ Sending = {}
  BY <1>2 DEF LineChar, Carried
<1>3. CASE ~ noisy /\ ~ HostSends /\ Cardinality(Sending) = 1
  <2>1. Sending # {}
    BY <1>3, FS_EmptySet
  <2> DEFINE v == CHOOSE w \in Sending : TRUE
  <2>2. v \in Sending
    BY <2>1
  <2>3. LineChar(noisy) = Char(port[v].out, port[v].sent + 1)
    BY <1>3, <2>1 DEF Carried, LineChar
  <2> HIDE DEF v
  <2> QED
    BY <1>3, <2>2, <2>3
<1>4. CASE /\ ~ noisy /\ ~ (HostSends /\ Sending = {})
           /\ ~ (~ HostSends /\ Cardinality(Sending) = 1)
  <2>1. LineChar(noisy) = IF HostSends \/ Sending # {} THEN Garbage ELSE None
    BY <1>4 DEF LineChar, Carried
  <2> QED
    BY <1>4, <2>1
<1> QED
  BY <1>1, <1>2, <1>3, <1>4

\* A character's time moves nothing of what a port keeps, and adds the line's
\* character to its ring at most.
LEMMA RingHeard ==
    ASSUME BusTypes, NEW noisy \in BOOLEAN, Tick(noisy), NEW u \in Units
    PROVE  LET p == port[u]
               q == port'[u]
               c == LineChar(noisy)
           IN /\ \A d \in Kept(q) : d \in Kept(p)
              /\ Shape(p, u) => Shape(q, u)
              /\ q.ran = p.ran /\ q.out = p.out
              /\ Len(p.ring) \in Nat /\ DOMAIN p.ring = 1..Len(p.ring)
              /\ \A i \in DOMAIN q.ring :
                    \/ i \in DOMAIN p.ring /\ q.ring[i].char = p.ring[i].char
                    \/ i = Len(p.ring) + 1 /\ c # None /\ q.ring[i].char = c
<1> DEFINE p == port[u]
           q == port'[u]
           c == LineChar(noisy)
           loud == noisy \/ c = Garbage
           a == Aged(p)
           more == Append(a.ring, [char |-> c, at |-> 0])
<1>1. /\ PortFits(p) /\ c \in Chars \cup {None} /\ q = Heard(u, c, loud)
  BY TickDoes DEF BusTypes
<1>2. /\ PortFits(a) /\ Len(a.ring) = Len(p.ring)
      /\ \A i \in DOMAIN a.ring : i \in DOMAIN p.ring /\ a.ring[i].char = p.ring[i].char
      /\ a.held # None => p.held # None /\ a.held.char = p.held.char
      /\ (p.held = None => a.held = None)
      /\ a.rtu.receiving = p.rtu.receiving /\ a.rtu.rx = p.rtu.rx
  BY <1>1, AgedIs
<1>3. loud \in BOOLEAN
  BY DEF loud
<1>4. /\ q.out = p.out /\ q.held = a.held /\ q.rtu = a.rtu /\ q.ran = p.ran
      /\ c = None => q.ring = a.ring
      /\ c # None => q.ring = IF Len(a.ring) < Ring THEN more ELSE a.ring
  <2> DEFINE h == Heard(u, c, loud)
  <2> HIDE DEF loud, c
  <2>1. LET b == Aged(port[u])
        IN /\ h.out = port[u].out /\ h.held = b.held /\ h.rtu = b.rtu /\ h.ran = port[u].ran
           /\ c = None => h.ring = b.ring
           /\ c # None => h.ring = IF Len(b.ring) < Ring
                                   THEN Append(b.ring, [char |-> c, at |-> 0]) ELSE b.ring
    BY <1>1, <1>3, HeardIs, ZenonT(60)
  <2>2. q = h
    BY <1>1
  <2> HIDE DEF h, q
  <2> QED
    BY <2>1, <2>2
<1>5. /\ p.ring \in Seq(Stamped) /\ a.ring \in Seq(Stamped) /\ Len(p.ring) \in Nat
      /\ DOMAIN p.ring = 1..Len(p.ring)
  BY <1>1, <1>2, PortIs
<1>6. c # None => \A i \in DOMAIN more :
          \/ i \in DOMAIN a.ring /\ more[i] = a.ring[i]
          \/ i = Len(a.ring) + 1 /\ more[i].char = c
  <2> DEFINE e == [char |-> c, at |-> 0]
  <2>1. c # None => e \in Stamped /\ e.char = c
    BY <1>1 DEF Stamped
  <2> HIDE DEF e
  <2>2. c # None => \A i \in DOMAIN Append(a.ring, e) :
            \/ i \in DOMAIN a.ring /\ Append(a.ring, e)[i] = a.ring[i]
            \/ i = Len(a.ring) + 1 /\ Append(a.ring, e)[i] = e
    BY <1>5, <2>1
  <2> QED
    BY <2>1, <2>2 DEF e
<1> HIDE DEF p, q, c, a, more
<1>7. \A i \in DOMAIN q.ring :
          \/ i \in DOMAIN p.ring /\ q.ring[i].char = p.ring[i].char
          \/ i = Len(p.ring) + 1 /\ c # None /\ q.ring[i].char = c
  <2>1. CASE q.ring = a.ring
    BY <1>2, <2>1
  <2>2. CASE c # None /\ q.ring = more
    BY <1>2, <1>6, <2>2
  <2> QED
    BY <1>4, <2>1, <2>2
<1>8. \A d \in Kept(q) : d \in Kept(p)
  BY <1>2, <1>4 DEF Kept
<1>9. Shape(p, u) => Shape(q, u)
  BY <1>2, <1>4 DEF Shape
<1> QED
  BY <1>4, <1>5, <1>7, <1>8, <1>9 DEF p, q, c

\* The numbers of it.
LEMMA PortHeard ==
    ASSUME BusTypes, NEW noisy \in BOOLEAN, Tick(noisy), NEW u \in Units
    PROVE  LET p == port[u]
               q == port'[u]
               c == LineChar(noisy)
           IN /\ PortFits(q) /\ q.sent = IF u \in Sending THEN p.sent + 1 ELSE p.sent
              /\ q.out = p.out /\ q.taken = p.taken /\ q.ran = p.ran
              /\ (q.held = None) = (p.held = None)
              /\ q.since = IF p.out = None \/ p.sent = Size THEN p.since + 1 ELSE 0
              /\ q.rtu.receiving = p.rtu.receiving /\ q.rtu.rx = p.rtu.rx /\ q.rtu.bad = p.rtu.bad
              /\ q.rtu.receiving => q.rtu.last = p.rtu.last + 1
              /\ q.fault = (p.fault \/ (c # None /\ (noisy \/ c = Garbage)))
              /\ Len(q.ring) = Len(p.ring) + IF c # None /\ Len(p.ring) < Ring THEN 1 ELSE 0
              /\ \A i \in DOMAIN q.ring :
                    \/ /\ i \in DOMAIN p.ring /\ q.ring[i].char = p.ring[i].char
                       /\ q.ring[i].at = p.ring[i].at + 1
                    \/ /\ i = Len(p.ring) + 1 /\ c # None
                       /\ q.ring[i].char = c /\ q.ring[i].at = 0
<1> DEFINE p == port[u]
           q == port'[u]
           c == LineChar(noisy)
           loud == noisy \/ c = Garbage
           a == Aged(p)
           e == [char |-> c, at |-> 0]
           more == Append(a.ring, e)
<1>1. /\ PortFits(p) /\ c \in Chars \cup {None} /\ q = Heard(u, c, loud) /\ p.fault \in BOOLEAN
  BY TickDoes, PortIs DEF BusTypes
<1>2. /\ PortFits(a) /\ Len(a.ring) = Len(p.ring)
      /\ \A i \in DOMAIN a.ring : /\ i \in DOMAIN p.ring /\ a.ring[i].char = p.ring[i].char
                                 /\ a.ring[i].at = p.ring[i].at + 1
      /\ (p.held = None) = (a.held = None)
      /\ a.rtu.receiving = p.rtu.receiving /\ a.rtu.rx = p.rtu.rx /\ a.rtu.bad = p.rtu.bad
      /\ a.rtu.receiving => a.rtu.last = p.rtu.last + 1
      /\ a.since = IF p.out = None \/ p.sent = Size THEN p.since + 1 ELSE 0
  BY <1>1, AgedIs
<1>3. loud \in BOOLEAN
  BY DEF loud
<1>4. /\ PortFits(q) /\ q.sent = (IF u \in Sending THEN p.sent + 1 ELSE p.sent)
      /\ q.out = p.out /\ q.held = a.held /\ q.taken = p.taken /\ q.rtu = a.rtu
      /\ q.since = a.since /\ q.ran = p.ran
      /\ c = None => q.ring = a.ring /\ q.fault = p.fault
      /\ c # None => /\ q.ring = IF Len(a.ring) < Ring THEN more ELSE a.ring
                     /\ q.fault = (p.fault \/ loud)
  <2> DEFINE h == Heard(u, c, loud)
  <2> HIDE DEF loud, c
  <2>1. LET P == port[u]
            b == Aged(P)
        IN /\ PortFits(h)
           /\ h.sent = IF u \in Sending THEN P.sent + 1 ELSE P.sent
           /\ h.out = P.out /\ h.held = b.held /\ h.taken = P.taken /\ h.rtu = b.rtu
           /\ h.since = b.since /\ h.ran = P.ran
           /\ c = None => h.ring = b.ring /\ h.fault = P.fault
           /\ c # None => /\ h.ring = IF Len(b.ring) < Ring
                                      THEN Append(b.ring, [char |-> c, at |-> 0])
                                      ELSE b.ring
                          /\ h.fault = (P.fault \/ loud)
    BY <1>1, <1>3, HeardIs, ZenonT(60)
  <2>2. q = h
    BY <1>1
  <2> HIDE DEF h, q
  <2> QED
    BY <2>1, <2>2
<1>5. a.ring \in Seq(Stamped) /\ Len(p.ring) \in Nat /\ (c # None => e \in Stamped)
      /\ e.char = c /\ e.at = 0
  BY <1>1, <1>2, PortIs DEF Stamped
<1> HIDE DEF p, q, c, a, e
<1>6. c # None => /\ Len(more) = Len(a.ring) + 1
                  /\ \A i \in DOMAIN more : \/ i \in DOMAIN a.ring /\ more[i] = a.ring[i]
                                            \/ i = Len(a.ring) + 1 /\ more[i] = e
  BY <1>5
<1> HIDE DEF more
<1>7. /\ Len(q.ring) = Len(p.ring) + (IF c # None /\ Len(p.ring) < Ring THEN 1 ELSE 0)
      /\ \A i \in DOMAIN q.ring :
            \/ /\ i \in DOMAIN p.ring /\ q.ring[i].char = p.ring[i].char
               /\ q.ring[i].at = p.ring[i].at + 1
            \/ /\ i = Len(p.ring) + 1 /\ c # None
               /\ q.ring[i].char = c /\ q.ring[i].at = 0
  <2>1. CASE c = None \/ ~ (Len(p.ring) < Ring)
    <3>1. q.ring = a.ring
      BY <1>2, <1>4, <2>1
    <3>2. (IF c # None /\ Len(p.ring) < Ring THEN 1 ELSE 0) = 0
      BY <2>1
    <3>3. Len(q.ring) = Len(p.ring) + 0
      BY <1>2, <1>5, <3>1
    <3> QED
      BY <1>2, <3>1, <3>2, <3>3
  <2>2. CASE c # None /\ Len(p.ring) < Ring
    <3>1. q.ring = more
      BY <1>2, <1>4, <2>2
    <3>2. \A i \in DOMAIN more :
              \/ /\ i \in DOMAIN p.ring /\ more[i].char = p.ring[i].char
                 /\ more[i].at = p.ring[i].at + 1
              \/ /\ i = Len(p.ring) + 1 /\ c # None
                 /\ more[i].char = c /\ more[i].at = 0
      BY <1>2, <1>5, <1>6, <2>2
    <3> QED
      BY <1>2, <1>6, <2>2, <3>1, <3>2
  <2> QED
    BY <2>1, <2>2
<1>8. q.fault = (p.fault \/ (c # None /\ (noisy \/ c = Garbage)))
  BY <1>1, <1>4 DEF loud
<1> QED
  BY <1>2, <1>4, <1>7, <1>8 DEF p, q, c

LEMMA OnceTick ==
    ASSUME OnceInv, NEW noisy \in BOOLEAN, Tick(noisy), NEW u \in Units
    PROVE  OnceAt(port'[u], u, host.request, host'.sent)
<1> DEFINE p == port[u]
           q == port'[u]
           request == host.request
           sent == host.sent
           more == host'.sent
           c == LineChar(noisy)
<1>1. /\ BusTypes /\ OnceAt(p, u, request, sent) /\ PortFits(p) /\ Shape(p, u)
      /\ request \in Frames /\ sent \in 0..Size /\ request.from = None /\ request.now
  BY DEF OnceInv, OnceAt, BusTypes, HostFits, HostState
<1>2. /\ \A d \in Kept(q) : d \in Kept(p)
      /\ Shape(q, u) /\ q.ran = p.ran /\ q.out = p.out
      /\ Len(p.ring) \in Nat /\ DOMAIN p.ring = 1..Len(p.ring)
      /\ \A i \in DOMAIN q.ring :
            \/ i \in DOMAIN p.ring /\ q.ring[i].char = p.ring[i].char
            \/ i = Len(p.ring) + 1 /\ c # None /\ q.ring[i].char = c
  <2>1. LET P == port[u]
            Q == port'[u]
            C == LineChar(noisy)
        IN /\ \A d \in Kept(Q) : d \in Kept(P)
           /\ Shape(P, u) => Shape(Q, u)
           /\ Q.ran = P.ran /\ Q.out = P.out
           /\ Len(P.ring) \in Nat /\ DOMAIN P.ring = 1..Len(P.ring)
           /\ \A i \in DOMAIN Q.ring :
                 \/ i \in DOMAIN P.ring /\ Q.ring[i].char = P.ring[i].char
                 \/ i = Len(P.ring) + 1 /\ C # None /\ Q.ring[i].char = C
    BY <1>1, RingHeard, ZenonT(60)
  <2> QED
    BY <1>1, <2>1
<1>3. more = IF HostSends THEN sent + 1 ELSE sent
  BY <1>1, TickDoes
<1>4. /\ Sound(c, request) \/ c = None
      /\ c # None /\ c.frame # None /\ c.frame.from = u => p.out # None
      /\ c # None /\ c.frame = request => HostSends /\ c.k = sent + 1
  <2>1. CASE c = None
    BY <2>1
  <2>2. CASE c = Garbage
    <3>1. c.frame = None
      BY <2>2 DEF Garbage
    <3> QED
      BY <1>1, <3>1, NoneAssumption DEF Sound
  <2>3. CASE HostSends /\ c = Char(request, sent + 1)
    <3>1. c.frame = request /\ c.k = sent + 1
      BY <2>3 DEF Char
    <3>2. None # u
      BY BusAssumption
    <3> QED
      BY <1>1, <2>3, <3>1, <3>2 DEF Sound
  <2>4. ASSUME NEW v \in Sending, c = Char(port[v].out, port[v].sent + 1)
        PROVE  /\ Sound(c, request)
               /\ c.frame # None /\ c.frame.from = u => p.out # None
               /\ c.frame # request
    <3>1. v \in Units /\ port[v].out # None
      BY DEF Sending
    <3>2. port[v].out.from = v /\ port[v].out.to = v
      BY <3>1 DEF OnceInv, OnceAt, Shape
    <3>3. c.frame = port[v].out
      BY <2>4 DEF Char
    <3>4. v # None
      BY <3>1, BusAssumption
    <3> QED
      BY <1>1, <3>1, <3>2, <3>3, <3>4 DEF Sound
  <2> QED
    BY <1>1, <2>1, <2>2, <2>3, <2>4, LineIs
<1>5. \A d \in Kept(p) : d.k \in Int
  BY <1>1, KeptIs, CharsAre, ConstantsAre
<1>6. \A i \in DOMAIN p.ring : p.ring[i].char.k \in Int
  <2>1. \A i \in DOMAIN p.ring : p.ring[i] \in Stamped
    BY <1>1, PortIs
  <2> QED
    BY <2>1, CharsAre, ConstantsAre DEF Stamped
<1>7. sent \in Int /\ more \in Int /\ sent <= more /\ (HostSends => sent < Size /\ more = sent + 1)
  BY <1>1, <1>3, ConstantsAre DEF HostSends, sent
<1> HIDE DEF p, q, request, sent, more, c
<1>8. Texts(q, u, request)
  BY <1>1, <1>2, <1>4 DEF OnceAt, Texts
<1>9. InOrder(q, request, more)
  <2>1. InOrder(p, request, sent)
    BY <1>1 DEF OnceAt
  <2>2. ASSUME NEW d \in Kept(q), d.frame = request PROVE d.k <= sent /\ d.k \in Int
    BY <1>2, <1>5, <2>1, <2>2 DEF InOrder
  <2>3. \A d \in Kept(q) : d.frame = request => d.k <= more
    BY <1>7, <2>2
  <2>4. ASSUME NEW i \in DOMAIN q.ring, q.ring[i].char.frame = request
        PROVE  /\ q.ring[i].char.k <= more
               /\ \A d \in Kept(q) : d.frame = request => d.k < q.ring[i].char.k
               /\ \A j \in DOMAIN q.ring :
                     i < j /\ q.ring[j].char.frame = request
                     => q.ring[i].char.k < q.ring[j].char.k
    <3>1. CASE i \in DOMAIN p.ring /\ q.ring[i].char = p.ring[i].char
      <4>1. /\ p.ring[i].char.k <= sent /\ p.ring[i].char.k \in Int
            /\ \A d \in Kept(p) : d.frame = request => d.k < p.ring[i].char.k
        BY <1>6, <2>1, <2>4, <3>1 DEF InOrder
      <4>2. ASSUME NEW j \in DOMAIN q.ring, i < j, q.ring[j].char.frame = request
            PROVE  q.ring[i].char.k < q.ring[j].char.k
        <5>1. CASE j \in DOMAIN p.ring /\ q.ring[j].char = p.ring[j].char
          BY <2>1, <2>4, <3>1, <4>2, <5>1 DEF InOrder
        <5>2. CASE c # None /\ q.ring[j].char = c
          BY <1>4, <1>7, <3>1, <4>1, <4>2, <5>2
        <5> QED
          BY <1>2, <4>2, <5>1, <5>2
      <4> QED
        BY <1>2, <1>7, <3>1, <4>1, <4>2
    <3>2. CASE i = Len(p.ring) + 1 /\ c # None /\ q.ring[i].char = c
      <4>1. HostSends /\ c.k = sent + 1 /\ more = sent + 1
        BY <1>4, <1>7, <2>4, <3>2
      <4>2. \A d \in Kept(q) : d.frame = request => d.k < q.ring[i].char.k
        BY <1>7, <2>2, <3>2, <4>1
      <4>3. ASSUME NEW j \in DOMAIN q.ring PROVE ~ (i < j)
        <5>1. j \in 1..Len(p.ring) \/ j = Len(p.ring) + 1
          BY <1>2, <4>3
        <5> QED
          BY <1>2, <3>2, <5>1
      <4> QED
        BY <1>7, <3>2, <4>1, <4>2, <4>3
    <3> QED
      BY <1>2, <2>4, <3>1, <3>2
  <2> QED
    BY <2>3, <2>4 DEF InOrder
<1>10. Acted(q, u, request, more)
  <2>1. SUFFICES ASSUME q.ran > 0
                 PROVE  q.ran = 1 /\ request.to \in {u, Broadcast} /\ more = Size
                        /\ Spent(q, request)
    BY DEF Acted
  <2>2. p.ran = 1 /\ request.to \in {u, Broadcast} /\ sent = Size /\ Spent(p, request)
    BY <1>1, <1>2, <2>1 DEF OnceAt, Acted
  <2>3. ~ HostSends
    BY <1>7, <2>2
  <2>4. Spent(q, request)
    BY <1>2, <1>4, <2>2, <2>3 DEF Spent
  <2> QED
    BY <1>2, <1>3, <2>2, <2>3, <2>4
<1> QED
  BY <1>2, <1>8, <1>9, <1>10 DEF OnceAt, q, request, more

\* What a port keeps as the next exchange begins is what it kept, past.
LEMMA KeptPast ==
    ASSUME NEW p, PortFits(p)
    PROVE  \A c \in Kept(PastPort(p)) : \E d \in Kept(p) : c = PastChar(d)
<1> DEFINE q == PastPort(p)
<1>1. /\ Alike(p, q) /\ p.rtu.rx \in Seq(Chars)
      /\ q.held # None => q.held.char = PastChar(p.held.char)
      /\ q.rtu.rx = PastChars(p.rtu.rx)
  BY PastPortIs, PortIs DEF ReceiverFits, ReceiverState
<1> HIDE DEF q
<1>2. ASSUME NEW c \in Kept(q) PROVE \E d \in Kept(p) : c = PastChar(d)
  <2>1. CASE \E i \in DOMAIN q.rtu.rx : c = q.rtu.rx[i]
    <3>1. PICK i \in DOMAIN q.rtu.rx : c = q.rtu.rx[i]
      BY <2>1
    <3>2. i \in DOMAIN p.rtu.rx /\ c = PastChar(p.rtu.rx[i])
      BY <1>1, <3>1, PastCharsIs
    <3> QED
      BY <3>2, KeptIs
  <2>2. CASE q.held # None /\ c = q.held.char
    <3>1. p.held # None
      BY <1>1, <2>2 DEF Alike
    <3> QED
      BY <1>1, <2>2, <3>1, KeptIs
  <2> QED
    BY <1>2, <2>1, <2>2 DEF Kept
<1> QED
  BY <1>2 DEF q

LEMMA OnceTransmit ==
    ASSUME OnceInv, NEW v \in Units \cup {Broadcast}, NEW hinted \in BOOLEAN,
           Transmit(v, hinted), NEW u \in Units
    PROVE  OnceAt(port'[u], u, host'.request, host'.sent)
<1> DEFINE p == port[u]
           q == port'[u]
           request == host'.request
           sent == host'.sent
<1>1. /\ PortFits(p) /\ q = PastPort(p) /\ OnceAt(p, u, host.request, host.sent)
      /\ request = Request(v, hinted)
  BY TransmitIs DEF OnceInv, BusTypes
<1>2. /\ Alike(p, q) /\ q.ran = 0
      /\ \A i \in DOMAIN q.ring : i \in DOMAIN p.ring /\ q.ring[i].char = PastChar(p.ring[i].char)
      /\ q.rtu.rx = PastChars(p.rtu.rx) /\ q.out = Past(p.out)
      /\ \A c \in Kept(q) : \E d \in Kept(p) : c = PastChar(d)
  BY <1>1, PastPortIs, KeptPast
<1>3. request.now /\ request.from = None
  BY <1>1 DEF Request
<1>4. /\ p.rtu.rx \in Seq(Chars) /\ p.out \in Frames \cup {None}
      /\ \A i \in DOMAIN p.ring : p.ring[i].char \in Chars
  <2>1. p.ring \in Seq(Stamped)
    BY <1>1, PortIs
  <2>2. \A i \in DOMAIN p.ring : p.ring[i] \in Stamped
    BY <2>1
  <2> QED
    BY <1>1, <2>2, PortIs DEF ReceiverFits, ReceiverState, Stamped
<1> HIDE DEF p, q, request, sent
\* A past character is of no present frame, and of the same node as before.
<1>5. ASSUME NEW d \in Chars, NEW old, Sound(d, old)
      PROVE  LET c == PastChar(d)
             IN /\ Sound(c, request) /\ c.frame # request
                /\ c.frame # None => d.frame # None /\ c.frame.from = d.frame.from
  <2>1. d.frame \in Frames \cup {None} /\ PastChar(d).frame = Past(d.frame)
    BY CharsAre, PastCharIs
  <2>2. (Past(d.frame) = None) = (d.frame = None)
        /\ (d.frame # None => /\ ~ Past(d.frame).now /\ Past(d.frame).to = d.frame.to
                              /\ Past(d.frame).from = d.frame.from)
    BY <2>1, PastIs
  <2>3. request \in Frames
    BY <1>1, RequestIs
  <2>4. PastChar(d).frame # request
    BY <1>3, <2>1, <2>2, <2>3, NoneAssumption
  <2> QED
    BY <1>5, <2>1, <2>2, <2>4 DEF Sound
<1>7. ASSUME NEW c \in Kept(q)
      PROVE  Sound(c, request) /\ c.frame # request /\ (c.frame # None => c.frame.from # u)
  <2>1. PICK d \in Kept(p) : c = PastChar(d)
    BY <1>2, <1>7
  <2>2. d \in Chars /\ Sound(d, host.request) /\ (d.frame # None => d.frame.from # u)
    BY <1>1, <2>1, KeptIs DEF OnceAt, Texts
  <2> QED
    BY <1>5, <2>1, <2>2
<1>8. (q.out = None) = (p.out = None)
  BY <1>2 DEF Alike
<1>9. ASSUME NEW i \in DOMAIN q.ring
      PROVE  LET c == q.ring[i].char
             IN /\ Sound(c, request) /\ c.frame # request
                /\ c.frame # None /\ c.frame.from = u => q.out # None
  <2> DEFINE d == p.ring[i].char
  <2>1. i \in DOMAIN p.ring /\ q.ring[i].char = PastChar(d) /\ d \in Chars
    BY <1>2, <1>4, <1>9
  <2>2. Sound(d, host.request) /\ (d.frame # None /\ d.frame.from = u => p.out # None)
    BY <1>1, <2>1 DEF OnceAt, Texts
  <2> HIDE DEF d
  <2> QED
    BY <1>5, <1>8, <2>1, <2>2
<1>10. Shape(q, u)
  <2>1. Shape(p, u)
    BY <1>1 DEF OnceAt
  <2>2. p.rtu.rx = <<>> => q.rtu.rx = <<>>
    <3>1. q.rtu.rx \in Seq(Chars) /\ Len(q.rtu.rx) = Len(p.rtu.rx)
      BY <1>2, <1>4, PastCharsIs
    <3> QED
      BY <1>4, <3>1, EmptySeq
  <2>3. q.out # None => q.out.from = p.out.from /\ q.out.to = p.out.to
    BY <1>2, <1>4, <1>8, PastIs
  <2> QED
    BY <1>2, <1>8, <2>1, <2>2, <2>3 DEF Shape, Alike
<1>11. Texts(q, u, request) /\ InOrder(q, request, sent)
  BY <1>7, <1>9 DEF Texts, InOrder
<1>12. Acted(q, u, request, sent)
  BY <1>2 DEF Acted
<1> QED
  BY <1>10, <1>11, <1>12 DEF OnceAt, q, request, sent

LEMMA OnceInit ==
    ASSUME Init
    PROVE  OnceInv
<1>1. BusTypes /\ \A u \in Units : /\ port[u].ring = <<>> /\ port[u].held = None
                                  /\ port[u].out = None /\ ~ port[u].rtu.receiving
  BY InitIs
<1>2. host.request.from = None /\ host.request.now
  BY DEF Init, Request
<1>3. ASSUME NEW u \in Units PROVE OnceAt(port[u], u, host.request, host.sent)
  <2> DEFINE p == port[u]
  <2>1. p.rtu = Receiver /\ p.ran = 0
    BY DEF Init, Port
  <2>2. p.rtu.rx = <<>>
    BY <2>1 DEF Receiver
  <2>3. DOMAIN p.ring = {} /\ DOMAIN p.rtu.rx = {} /\ p.held = None /\ p.out = None
    BY <1>1, <2>2
  <2> HIDE DEF p
  <2>4. Kept(p) = {}
    BY <2>3 DEF Kept
  <2>5. Shape(p, u)
    BY <2>2, <2>3 DEF Shape
  <2>6. Texts(p, u, host.request) /\ InOrder(p, host.request, host.sent)
        /\ Acted(p, u, host.request, host.sent)
    BY <2>1, <2>3, <2>4 DEF Texts, InOrder, Acted
  <2> QED
    BY <2>5, <2>6 DEF OnceAt, p
<1> QED
  BY <1>1, <1>2, <1>3 DEF OnceInv

\* The host's other steps leave the request, and how much of it has left.
LEMMA HostKeeps ==
    ASSUME BusTypes, Left \/ Settled \/ Accept \/ GiveUp
    PROVE  host'.request = host.request /\ host'.sent = host.sent /\ host'.unit = host.unit
           /\ host'.harmed = host.harmed
<1>1. host \in HostState
  BY DEF BusTypes, HostFits
<1>2. CASE Left
  BY <1>1, <1>2 DEF Left, HostState
<1>3. CASE Settled \/ GiveUp
  BY <1>1, <1>3 DEF Settled, GiveUp, HostState
<1>4. CASE Accept
  BY <1>1, <1>4 DEF Accept, HostState
<1> QED
  BY <1>2, <1>3, <1>4

LEMMA OnceKeeps ==
    ASSUME OnceInv, [Next]_vars
    PROVE  OnceInv'
<1>1. BusTypes /\ BusTypes'
  BY TypesKeep DEF OnceInv
<1>2. CASE UNCHANGED vars
  BY <1>1, <1>2 DEF vars, OnceInv
<1>3. ASSUME NEW v \in Units \cup {Broadcast}, NEW hinted \in BOOLEAN, Transmit(v, hinted)
      PROVE  OnceInv'
  <2>1. host'.request.from = None /\ host'.request.now
    <3>1. host'.request = Request(v, hinted)
      BY <1>1, <1>3, TransmitIs
    <3> QED
      BY <3>1 DEF Request
  <2> QED
    BY <1>1, <1>3, <2>1, OnceTransmit DEF OnceInv
<1>4. CASE Left \/ Settled \/ Accept \/ GiveUp
  BY <1>1, <1>4, HostIs, HostKeeps DEF OnceInv
<1>5. ASSUME NEW v \in Units, Node(v) PROVE OnceInv'
  <2>1. Alone(v)
    BY <1>1, <1>5, TakeOneIs, PassEndsIs, SentIs DEF Node
  <2>2. host' = host /\ \A u \in Units \ {v} : port'[u] = port[u]
    BY <2>1 DEF Alone
  <2>3. OnceAt(port'[v], v, host.request, host.sent)
    BY <1>5, OnceTake, OncePass, OnceSent DEF Node
  <2>4. \A u \in Units : OnceAt(port'[u], u, host.request, host.sent)
    BY <2>2, <2>3 DEF OnceInv
  <2> QED
    BY <1>1, <2>2, <2>4 DEF OnceInv
<1>6. ASSUME NEW noisy \in BOOLEAN, Tick(noisy) PROVE OnceInv'
  <2>1. host'.request = host.request
    BY <1>1, <1>6, TickDoes
  <2>2. \A u \in Units : OnceAt(port'[u], u, host.request, host'.sent)
    BY <1>6, OnceTick
  <2> QED
    BY <1>1, <2>1, <2>2 DEF OnceInv
<1> QED
  BY <1>2, <1>3, <1>4, <1>5, <1>6 DEF Next

\* Whatever the noise, the lateness of the passes and the order in which nodes
\* and host run, a node acts on a request once at most, and only on one that is
\* for it and has left the host whole: not on its own echo, on a neighbour's
\* answer, or on what two frames left in its receiver (frame_ours, take_frame,
\* u_put's purge).
THEOREM ActsOnce == Spec => []OncePerRequest
<1>1. OnceInv => OncePerRequest
  BY DEF OnceInv, OnceAt, Acted, OncePerRequest, Addressed
<1>2. Init => OnceInv
  BY OnceInit
<1>3. OnceInv /\ [Next]_vars => OnceInv'
  BY OnceKeeps
<1> QED
  BY <1>1, <1>2, <1>3, PTL DEF Spec

-----------------------------------------------------------------------------
(* The host takes an answer for its own.                                   *)

(* A request that a unit alone is asked is nowhere but in an exchange: it   *)
(* has been executed when its answer has come whole, and has been dropped   *)
(* when the line has been quiet for as long as the host waits.  So who      *)
(* sends answers the exchange that the host is in.                          *)

\* A character of a request to this node alone.
AsksOf(c, u) == c.frame # None /\ c.frame.from = None /\ c.frame.to = u

OwnAt(p, u, pc, request, silence) ==
    /\ \A c \in Kept(p) : AsksOf(c, u) => c.frame = request /\ pc # "idle"
    /\ \A i \in DOMAIN p.ring : AsksOf(p.ring[i].char, u) =>
          p.ring[i].char.frame = request /\ pc # "idle"
    /\ p.out # None /\ p.sent < Size =>
          /\ pc \in {"send", "wait"} /\ p.out.now /\ request.to = u
          /\ silence < Calm
    /\ p.out # None /\ p.out.now => p.ran > 0

\* What the host has, from a unit it has asked.
HeardFrom(got, p) ==
    \A i \in DOMAIN got : got[i].frame # None =>
        got[i].frame.now /\ p.ran > 0 /\ (p.out # None => got[i].k <= p.sent)

Unread(got) == \A i \in DOMAIN got : got[i].frame = None

HostOwn(h, silence) ==
    /\ h.pc # "idle" => h.unit = h.request.to /\ ~ h.clean
    /\ h.pc = "settle" => h.unit = Broadcast
    /\ h.pc = "wait" => h.unit \in Units /\ (h.quiet <= silence \/ silence = Calm)
    /\ h.pc \in {"send", "settle"} => Unread(h.got)
    /\ h.pc = "idle" /\ h.clean => Unread(h.got)

OwnInv(passes) ==
    /\ OnceInv /\ QuietInv(passes) /\ HostOwn(host, still)
    /\ host.pc = "wait" => HeardFrom(host.got, port[host.unit])
    /\ \A u \in Units : OwnAt(port[u], u, host.pc, host.request, still)

LEMMA NoBroadcastUnit == Broadcast \notin Units /\ None \notin Units
BY BusAssumption DEF Broadcast

\* A node that executes a frame of the present exchange's: what it sends.
LEMMA OwnRuns ==
    ASSUME NEW Passes \in Nat \ {0}, Ring <= Passes * Take, (Passes - 1) * Late < T35,
           OwnInv(Passes), NEW u \in Units, port[u].rtu.receiving, port[u].out = None
    PROVE  LET p == port[u]
               out == OutOf(u, p.rtu)
           IN out # None =>
                /\ host.pc \in {"send", "wait"} /\ out.now /\ host.request.to = u
                /\ still < Calm /\ p.ran = 0 /\ RanOf(u, p.rtu, p.ran) > 0
<1> DEFINE p == port[u]
           out == OutOf(u, p.rtu)
           f == p.rtu.rx[1].frame
<1>1. SUFFICES ASSUME out # None
               PROVE  /\ host.pc \in {"send", "wait"} /\ out.now /\ host.request.to = u
                      /\ still < Calm /\ p.ran = 0 /\ RanOf(u, p.rtu, p.ran) > 0
  OBVIOUS
<1>2. Ours(p.rtu, u) /\ f.to # Broadcast /\ out = Answer(u, f.now)
  BY <1>1 DEF OutOf
<1>3. /\ PortFits(p) /\ host.request \in Frames /\ host.sent \in 0..Size
      /\ OnceAt(p, u, host.request, host.sent) /\ still \in 0..Calm
      /\ host.pc \in {"idle", "send", "settle", "wait"} /\ host.request.now
  BY DEF OwnInv, OnceInv, BusTypes, HostFits, HostState
<1>4. /\ f \in Frames /\ f.from = None /\ f.to = u /\ 1 \in DOMAIN p.rtu.rx
      /\ f.now => f = host.request /\ p.ran = 0
  BY <1>2, <1>3, Executes
<1>5. p.rtu.rx[1] \in Kept(p) /\ AsksOf(p.rtu.rx[1], u)
  BY <1>3, <1>4, KeptIs, NoneAssumption DEF AsksOf
<1>6. f = host.request /\ host.pc # "idle"
  BY <1>5 DEF OwnInv, OwnAt
<1>7. host.pc # "settle"
  BY <1>4, <1>6, NoBroadcastUnit DEF OwnInv, HostOwn
<1>8. out.now /\ p.ran = 0 /\ RanOf(u, p.rtu, p.ran) = 1
  BY <1>2, <1>3, <1>4, <1>6 DEF Answer, RanOf
<1>9. still # Calm
  BY CalmRests DEF OwnInv
<1>10. still < Calm
  BY <1>3, <1>9, ConstantsAre
<1> QED
  BY <1>3, <1>4, <1>6, <1>7, <1>8, <1>10

\* A node's step: what it keeps it had, and what it starts to send answers the
\* exchange.
LEMMA OwnNode ==
    ASSUME NEW Passes \in Nat \ {0}, Ring <= Passes * Take, (Passes - 1) * Late < T35,
           OwnInv(Passes), NEW u \in Units, Node(u)
    PROVE  LET p == port[u]
               q == port'[u]
           IN /\ OwnAt(q, u, host.pc, host.request, still)
              /\ p.ran > 0 => q.ran > 0 /\ q.out = None
<1> DEFINE p == port[u]
           q == port'[u]
           out == OutOf(u, p.rtu)
           pc == host.pc
           request == host.request
<1>1. /\ BusTypes /\ PortFits(p) /\ PortFits(q) /\ Shape(p, u) /\ p.ran \in Nat
      /\ OwnAt(p, u, pc, request, still)
  BY TakeOneIs, PassEndsIs, SentIs, PortIs
     DEF OwnInv, OnceInv, OnceAt, BusTypes, Node
<1>2. p.out = None /\ p.rtu.receiving /\ out # None =>
          /\ pc \in {"send", "wait"} /\ out.now /\ request.to = u
          /\ still < Calm /\ p.ran = 0 /\ RanOf(u, p.rtu, p.ran) > 0
  BY OwnRuns
<1>3. /\ \/ q.out = None
         \/ q.out = out /\ q.ran = RanOf(u, p.rtu, p.ran) /\ p.out = None /\ p.rtu.receiving
      /\ p.ran > 0 => q.ran > 0
  <2>1. RanOf(u, p.rtu, p.ran) = p.ran \/ RanOf(u, p.rtu, p.ran) = p.ran + 1
    BY DEF RanOf
  <2>2. CASE TakeOne(u)
    BY <1>1, <2>1, <2>2, TakeOneIs DEF Breaks
  <2>3. CASE PassEnds(u)
    BY <1>1, <2>1, <2>3, PassEndsIs DEF Ends
  <2>4. CASE Sent(u)
    BY <1>1, <2>4, SentIs
  <2> QED
    BY <2>2, <2>3, <2>4 DEF Node
<1>4. /\ \A c \in Kept(q) : c \in Kept(p) \/ \E i \in DOMAIN p.ring : c = p.ring[i].char
      /\ \A i \in DOMAIN q.ring : \E j \in DOMAIN p.ring : q.ring[i] = p.ring[j]
  <2>1. CASE TakeOne(u)
    <3>1. /\ p.ring \in Seq(Stamped) /\ p.ring # <<>> /\ 1 \in DOMAIN p.ring
          /\ q.ring = Tail(p.ring)
          /\ \A c \in Kept(q) : c = p.ring[1].char \/ (~ Breaks(p) /\ c \in Kept(p))
      BY <1>1, <2>1, KeptTake
    <3>2. \A i \in DOMAIN q.ring : i + 1 \in DOMAIN p.ring /\ q.ring[i] = p.ring[i + 1]
      BY <3>1, TailIs
    <3> HIDE DEF p, q
    <3> QED
      BY <3>1, <3>2
  <2>2. CASE PassEnds(u)
    <3>1. /\ q.ring = p.ring /\ q.held = p.held
          /\ q.rtu.rx = p.rtu.rx \/ q.rtu = Receiver
      <4>1. OnError(p.rtu).rx = p.rtu.rx
        BY <1>1, PortIs DEF OnError, ReceiverFits, ReceiverState
      <4> QED
        BY <1>1, <2>2, <4>1, PassEndsIs
    <3>2. DOMAIN Receiver.rx = {}
      BY DEF Receiver
    <3> HIDE DEF p, q
    <3>3. \A c \in Kept(q) : c \in Kept(p)
      BY <3>1, <3>2 DEF Kept
    <3> QED
      BY <3>1, <3>3
  <2>3. CASE Sent(u)
    <3>1. q.ring = <<>> /\ \A c \in Kept(q) : c \in Kept(p)
      BY <1>1, <2>3, KeptSent, SentIs
    <3>2. DOMAIN q.ring = {}
      BY <3>1
    <3> HIDE DEF p, q
    <3> QED
      BY <3>1, <3>2
  <2> QED
    BY <2>1, <2>2, <2>3 DEF Node
<1> HIDE DEF p, q, out, pc, request
<1>5. OwnAt(q, u, pc, request, still)
  <2>1. \A c \in Kept(q) : AsksOf(c, u) => c.frame = request /\ pc # "idle"
    BY <1>1, <1>4 DEF OwnAt
  <2>2. \A i \in DOMAIN q.ring : AsksOf(q.ring[i].char, u) =>
            q.ring[i].char.frame = request /\ pc # "idle"
    BY <1>1, <1>4 DEF OwnAt
  <2>3. q.out # None =>
            /\ pc \in {"send", "wait"} /\ q.out.now /\ request.to = u /\ still < Calm
            /\ q.ran > 0
    BY <1>2, <1>3
  <2> QED
    BY <2>1, <2>2, <2>3 DEF OwnAt
<1>6. p.ran > 0 => q.ran > 0 /\ q.out = None
  BY <1>1, <1>2, <1>3
<1> QED
  BY <1>5, <1>6 DEF p, q, pc, request

LEMMA OwnTick ==
    ASSUME NEW Passes \in Nat \ {0}, OwnInv(Passes), NEW noisy \in BOOLEAN, Tick(noisy),
           NEW u \in Units
    PROVE  OwnAt(port'[u], u, host.pc, host.request, still')
<1> DEFINE p == port[u]
           q == port'[u]
           c == LineChar(noisy)
           pc == host.pc
           request == host.request
<1>1. /\ BusTypes /\ PortFits(p) /\ PortFits(q) /\ OwnAt(p, u, pc, request, still)
      /\ request \in Frames /\ p.sent \in 0..Size
  BY TickIs, PortIs DEF OwnInv, OnceInv, BusTypes, HostFits, HostState
<1>2. /\ \A d \in Kept(q) : d \in Kept(p)
      /\ q.ran = p.ran /\ q.out = p.out
      /\ \A i \in DOMAIN q.ring :
            \/ i \in DOMAIN p.ring /\ q.ring[i].char = p.ring[i].char
            \/ c # None /\ q.ring[i].char = c
  <2>1. LET P == port[u]
            Q == port'[u]
            C == LineChar(noisy)
        IN /\ \A d \in Kept(Q) : d \in Kept(P)
           /\ Shape(P, u) => Shape(Q, u)
           /\ Q.ran = P.ran /\ Q.out = P.out
           /\ Len(P.ring) \in Nat /\ DOMAIN P.ring = 1..Len(P.ring)
           /\ \A i \in DOMAIN Q.ring :
                 \/ i \in DOMAIN P.ring /\ Q.ring[i].char = P.ring[i].char
                 \/ i = Len(P.ring) + 1 /\ C # None /\ Q.ring[i].char = C
    BY <1>1, RingHeard, ZenonT(60)
  <2> QED
    BY <2>1
<1>3. c # None /\ AsksOf(c, u) => c.frame = request /\ pc # "idle"
  <2>1. CASE c = None \/ c = Garbage
    BY <2>1 DEF AsksOf, Garbage
  <2>2. CASE HostSends /\ c = Char(request, host.sent + 1)
    BY <2>2 DEF Char, HostSends
  <2>3. ASSUME NEW v \in Sending, c = Char(port[v].out, port[v].sent + 1) PROVE ~ AsksOf(c, u)
    <3>1. v \in Units /\ port[v].out # None
      BY DEF Sending
    <3>2. port[v].out.from = v
      BY <3>1 DEF OwnInv, OnceInv, OnceAt, Shape
    <3> QED
      BY <2>3, <3>1, <3>2, NoBroadcastUnit DEF Char, AsksOf
  <2> QED
    BY <1>1, <2>1, <2>2, <2>3, LineIs
<1>4. q.sent = IF u \in Sending THEN p.sent + 1 ELSE p.sent
  BY <1>1, PortHeard
<1>5. u \in Sending => c # None
  BY <1>1, CarriedIs, CharsAre DEF LineChar, c
<1>6. c # None => still' < Calm
  BY <1>1, TickDoes, ConstantsAre
<1>7. u \in Sending <=> p.out # None /\ p.sent < Size
  BY DEF Sending
<1> HIDE DEF p, q, c, pc, request
<1>8. \A d \in Kept(q) : AsksOf(d, u) => d.frame = request /\ pc # "idle"
  BY <1>1, <1>2 DEF OwnAt
<1>9. \A i \in DOMAIN q.ring : AsksOf(q.ring[i].char, u) =>
          q.ring[i].char.frame = request /\ pc # "idle"
  BY <1>1, <1>2, <1>3 DEF OwnAt
<1>10. q.out # None /\ q.sent < Size => p.out # None /\ p.sent < Size
  BY <1>1, <1>2, <1>4, ConstantsAre
<1>11. OwnAt(q, u, pc, request, still')
  BY <1>1, <1>2, <1>5, <1>6, <1>7, <1>8, <1>9, <1>10 DEF OwnAt
<1> QED
  BY <1>11 DEF q, pc, request

LEMMA UnreadIs ==
    ASSUME NEW got \in Seq(Chars), Unread(got)
    PROVE  Unread(PastChars(got))
<1>1. ASSUME NEW i \in DOMAIN PastChars(got) PROVE PastChars(got)[i].frame = None
  <2>1. i \in DOMAIN got /\ PastChars(got)[i] = PastChar(got[i])
    BY <1>1, PastCharsIs
  <2>2. got[i] \in Chars /\ got[i].frame = None
    BY <2>1 DEF Unread
  <2> QED
    BY <2>1, <2>2, PastCharIs DEF Past
<1> QED
  BY <1>1 DEF Unread

\* What the tick adds to the host's input.
LEMMA OwnTickHost ==
    ASSUME NEW Passes \in Nat \ {0}, OwnInv(Passes), NEW noisy \in BOOLEAN, Tick(noisy)
    PROVE  /\ HostOwn(host', still')
           /\ host'.pc = "wait" => HeardFrom(host'.got, port'[host'.unit])
<1> DEFINE c == LineChar(noisy)
           h == host'
           pc == host.pc
<1>1. /\ BusTypes /\ BusTypes' /\ HostOwn(host, still) /\ host.got \in Seq(Chars)
      /\ host.quiet \in 0..(Timeout + Gap) /\ still \in 0..Calm
      /\ Calm \in Nat /\ Timeout + Gap \in Nat
  <2>1. BusTypes /\ HostOwn(host, still)
    BY DEF OwnInv, OnceInv
  <2>2. BusTypes'
    BY <2>1, TickIs
  <2>3. /\ host.got \in Seq(Chars) /\ host.quiet \in 0..(Timeout + Gap)
        /\ still \in 0..Calm
    BY <2>1 DEF BusTypes, HostFits, HostState
  <2> QED
    BY <2>1, <2>2, <2>3, ConstantsAre
<1>2. /\ h.pc = pc /\ h.request = host.request /\ h.unit = host.unit /\ h.clean = host.clean
      /\ h.quiet = IF pc = "wait" /\ c # None THEN 0 ELSE Lesser(host.quiet + 1, Timeout + Gap)
      /\ h.got = IF pc \in {"wait", "idle"} /\ c # None /\ Len(host.got) <= Size
                 THEN Append(host.got, c) ELSE host.got
      /\ still' = IF c = None THEN Lesser(still + 1, Calm) ELSE 0
      /\ c \in Chars \cup {None}
  BY <1>1, TickDoes
<1>3. pc # "send" => ~ HostSends
  BY DEF HostSends
<1>4. \A v \in Sending : v \in Units /\ pc \in {"send", "wait"} /\ port[v].out.now
                         /\ host.request.to = v
  BY DEF OwnInv, OwnAt, Sending
<1> HIDE DEF c, h, pc
<1>5. c # None => \A i \in DOMAIN Append(host.got, c) :
          \/ i \in DOMAIN host.got /\ Append(host.got, c)[i] = host.got[i]
          \/ Append(host.got, c)[i] = c
  BY <1>1, <1>2
<1>6. \A i \in DOMAIN h.got :
          \/ i \in DOMAIN host.got /\ h.got[i] = host.got[i]
          \/ h.got[i] = c /\ c # None /\ pc \in {"wait", "idle"}
  <2>1. CASE h.got = host.got
    BY <2>1
  <2>2. CASE pc \in {"wait", "idle"} /\ c # None /\ h.got = Append(host.got, c)
    BY <1>5, <2>2
  <2> QED
    BY <1>2, <2>1, <2>2
<1>7. pc = "wait" => h.quiet <= still' \/ still' = Calm
  <2>1. CASE pc = "wait" /\ c = None
    <3>1. h.quiet = Lesser(host.quiet + 1, Timeout + Gap) /\ still' = Lesser(still + 1, Calm)
      BY <1>2, <2>1
    <3>2. host.quiet <= still \/ still = Calm
      BY <1>1, <2>1 DEF HostOwn, pc
    <3>3. h.quiet <= host.quiet + 1 /\ h.quiet \in Int /\ host.quiet \in Int /\ still \in Int
      BY <1>1, <3>1 DEF Lesser
    <3>4. still' = IF still + 1 < Calm THEN still + 1 ELSE Calm
      BY <3>1 DEF Lesser
    <3> QED
      BY <1>1, <3>2, <3>3, <3>4
  <2>2. CASE pc = "wait" /\ c # None
    BY <1>1, <1>2, <2>2
  <2> QED
    BY <2>1, <2>2
<1>8. pc = "idle" => c = None \/ c.frame = None
  <2>1. ASSUME pc = "idle" PROVE Sending = {} /\ ~ HostSends
    BY <1>3, <1>4, <2>1
  <2> QED
    BY <1>1, <2>1, LineIs DEF Garbage, c
<1>9. Unread(host.got) /\ pc # "wait" => Unread(h.got)
  BY <1>6, <1>8 DEF Unread
<1>10. HostOwn(h, still')
  BY <1>1, <1>2, <1>7, <1>9 DEF HostOwn, pc
<1>11. ASSUME pc = "wait" PROVE HeardFrom(h.got, port'[host.unit])
  <2> DEFINE u == host.unit
             p == port[u]
             q == port'[u]
  <2>1. /\ u \in Units /\ HeardFrom(host.got, p) /\ host.request.to = u
    BY <1>1, <1>11 DEF OwnInv, HostOwn, pc
  <2>2. PortFits(p)
    BY <1>1, <2>1 DEF BusTypes
  <2>3. /\ q.ran = p.ran /\ q.out = p.out
        /\ q.sent = IF u \in Sending THEN p.sent + 1 ELSE p.sent
    BY <1>1, <2>1, PortHeard
  <2>4. c # None /\ c.frame # None => c.frame.now /\ p.ran > 0 /\ u \in Sending /\ c.k = p.sent + 1
    <3>1. SUFFICES ASSUME c # None, c.frame # None
                   PROVE  c.frame.now /\ p.ran > 0 /\ u \in Sending /\ c.k = p.sent + 1
      OBVIOUS
    <3>2. ~ HostSends
      BY <1>3, <1>11
    <3>3. c # Garbage
      BY <3>1 DEF Garbage
    <3>4. PICK v \in Sending : c = Char(port[v].out, port[v].sent + 1)
      BY <1>1, <3>1, <3>2, <3>3, LineIs DEF c
    <3>5. v = u
      BY <1>4, <2>1, <3>4
    <3>6. port[u].out # None /\ port[u].out.now
      BY <1>4, <3>4, <3>5 DEF Sending
    <3>7. p.ran > 0
      BY <2>1, <3>6 DEF OwnInv, OwnAt
    <3> QED
      BY <3>4, <3>5, <3>6, <3>7 DEF Char
  <2>5. p.sent \in Int /\ \A i \in DOMAIN host.got : host.got[i].k \in Int
    <3>1. \A i \in DOMAIN host.got : host.got[i] \in Chars
      BY <1>1
    <3> QED
      BY <2>2, <3>1, PortIs, CharsAre, ConstantsAre, SMTT(30)
  <2> HIDE DEF p, q, u
  <2>6. HeardFrom(h.got, q)
    <3>1. SUFFICES ASSUME NEW i \in DOMAIN h.got, h.got[i].frame # None
                   PROVE  /\ h.got[i].frame.now /\ q.ran > 0
                          /\ (q.out # None => h.got[i].k <= q.sent)
      BY DEF HeardFrom
    <3>2. CASE i \in DOMAIN host.got /\ h.got[i] = host.got[i]
      <4>1. host.got[i].frame.now /\ p.ran > 0 /\ (p.out # None => host.got[i].k <= p.sent)
        BY <2>1, <3>1, <3>2 DEF HeardFrom
      <4>2. host.got[i].k \in Int
        BY <2>5, <3>2
      <4> QED
        BY <2>3, <2>5, <3>2, <4>1, <4>2
    <3>3. CASE h.got[i] = c /\ c # None
      BY <2>3, <2>4, <2>5, <3>1, <3>3
    <3> QED
      BY <1>6, <3>1, <3>2, <3>3
  <2> QED
    BY <2>6 DEF q, u
<1> QED
  BY <1>2, <1>10, <1>11 DEF h

\* The next exchange: nobody sends, and no node has a request left.
LEMMA OwnTransmit ==
    ASSUME NEW Passes \in Nat \ {0}, OwnInv(Passes), NEW v \in Units \cup {Broadcast},
           NEW hinted \in BOOLEAN, Transmit(v, hinted)
    PROVE  /\ HostOwn(host', still') /\ host'.pc = "send"
           /\ \A u \in Units : OwnAt(port'[u], u, host'.pc, host'.request, still')
<1>1. /\ BusTypes /\ HostOwn(host, still) /\ host.pc = "idle" /\ host'.pc = "send"
      /\ host'.request = Request(v, hinted) /\ host'.unit = v /\ ~ host'.clean
      /\ host'.got = (IF host.clean THEN PastChars(host.got) ELSE <<>>)
      /\ host.got \in Seq(Chars)
  BY TransmitIs, ZenonT(40) DEF OwnInv, OnceInv, BusTypes, HostFits, HostState
<1>2. Unread(host'.got)
  <2>1. CASE host.clean
    BY <1>1, <2>1, UnreadIs DEF HostOwn
  <2>2. CASE ~ host.clean
    BY <1>1, <2>2 DEF Unread
  <2> QED
    BY <2>1, <2>2
<1>3. HostOwn(host', still')
  BY <1>1, <1>2 DEF HostOwn, Request
<1>4. ASSUME NEW u \in Units PROVE OwnAt(port'[u], u, host'.pc, host'.request, still')
  <2> DEFINE p == port[u]
             q == port'[u]
  <2>1. /\ PortFits(p) /\ q = PastPort(p) /\ OwnAt(p, u, "idle", host.request, still)
    BY <1>1, TransmitIs DEF BusTypes, OwnInv
  <2>2. /\ Alike(p, q) /\ q.out = Past(p.out)
        /\ \A i \in DOMAIN q.ring : i \in DOMAIN p.ring /\ q.ring[i].char = PastChar(p.ring[i].char)
        /\ \A c \in Kept(q) : \E d \in Kept(p) : c = PastChar(d)
    BY <2>1, PastPortIs, KeptPast
  <2>3. /\ p.out \in Frames \cup {None} /\ \A i \in DOMAIN p.ring : p.ring[i].char \in Chars
        /\ \A d \in Kept(p) : d \in Chars
    <3>1. p.ring \in Seq(Stamped)
      BY <2>1, PortIs
    <3>2. \A i \in DOMAIN p.ring : p.ring[i] \in Stamped
      BY <3>1
    <3> QED
      BY <2>1, <3>2, PortIs, KeptIs DEF Stamped
  <2> HIDE DEF p, q
  <2>4. ASSUME NEW d \in Chars, AsksOf(PastChar(d), u) PROVE AsksOf(d, u)
    <3>1. d.frame \in Frames \cup {None} /\ PastChar(d).frame = Past(d.frame)
      BY CharsAre, PastCharIs
    <3> QED
      BY <2>4, <3>1, PastIs DEF AsksOf
  <2>5. \A c \in Kept(q) : ~ AsksOf(c, u)
    BY <2>1, <2>2, <2>3, <2>4 DEF OwnAt
  <2>6. \A i \in DOMAIN q.ring : ~ AsksOf(q.ring[i].char, u)
    BY <2>1, <2>2, <2>3, <2>4 DEF OwnAt
  <2>7. ~ (q.out # None /\ q.sent < Size)
    BY <2>1, <2>2 DEF OwnAt, Alike
  <2>8. q.out # None => ~ q.out.now
    BY <2>2, <2>3, PastIs
  <2> QED
    BY <2>5, <2>6, <2>7, <2>8 DEF OwnAt, q
<1> QED
  BY <1>1, <1>3, <1>4

\* What the host's other steps leave.
HostNext ==
    /\ HostOwn(host', still')
    /\ host'.pc = "wait" => HeardFrom(host'.got, port'[host'.unit])
    /\ \A u \in Units : OwnAt(port'[u], u, host'.pc, host'.request, still')

LEMMA OwnLeft ==
    ASSUME NEW Passes \in Nat \ {0}, OwnInv(Passes), Left
    PROVE  HostNext
<1>1. /\ host \in HostState /\ HostOwn(host, still) /\ host.pc = "send"
      /\ port' = port /\ still' = still /\ still \in Nat
      /\ host' = [host EXCEPT !.pc = IF host.unit = Broadcast THEN "settle" ELSE "wait",
                              !.quiet = 0]
      /\ host.request \in Frames /\ host.unit = host.request.to
  BY DEF OwnInv, OnceInv, BusTypes, HostFits, HostState, HostOwn, Left
<1>2. /\ host'.pc = (IF host.unit = Broadcast THEN "settle" ELSE "wait") /\ host'.quiet = 0
      /\ host'.unit = host.unit /\ host'.request = host.request /\ host'.got = host.got
      /\ host'.clean = host.clean
  BY <1>1 DEF HostState
<1>3. host.unit \in Units \cup {Broadcast}
  BY <1>1 DEF Frames
<1>4. Unread(host.got) /\ ~ host.clean
  BY <1>1 DEF HostOwn
<1>5. HostOwn(host', still')
  BY <1>1, <1>2, <1>3, <1>4 DEF HostOwn
<1>6. HeardFrom(host'.got, port'[host'.unit])
  BY <1>2, <1>4 DEF HeardFrom, Unread
<1>7. ASSUME NEW u \in Units PROVE OwnAt(port[u], u, host'.pc, host.request, still)
  <2>1. OwnAt(port[u], u, "send", host.request, still)
    BY <1>1 DEF OwnInv
  <2>2. port[u].out # None /\ port[u].sent < Size => host'.pc = "wait"
    BY <1>1, <1>2, <2>1, NoBroadcastUnit DEF OwnAt
  <2> QED
    BY <1>2, <2>1, <2>2 DEF OwnAt
<1> QED
  BY <1>1, <1>2, <1>5, <1>6, <1>7 DEF HostNext

LEMMA OwnSettled ==
    ASSUME NEW Passes \in Nat \ {0}, OwnInv(Passes), Settled
    PROVE  HostNext
<1>1. /\ host \in HostState /\ HostOwn(host, still) /\ host.pc = "settle"
      /\ port' = port /\ still' = still
      /\ host' = [host EXCEPT !.pc = "idle"]
  BY DEF OwnInv, OnceInv, BusTypes, HostFits, Settled
<1>2. /\ host'.pc = "idle" /\ host'.unit = host.unit /\ host'.request = host.request
      /\ host'.got = host.got /\ host'.clean = host.clean
  BY <1>1 DEF HostState
<1>3. host.request.to = Broadcast /\ Unread(host.got)
  BY <1>1 DEF HostOwn
<1>4. ASSUME NEW u \in Units PROVE OwnAt(port[u], u, "idle", host.request, still)
  <2>1. OwnAt(port[u], u, "settle", host.request, still)
    BY <1>1 DEF OwnInv
  <2>2. \A c : AsksOf(c, u) => c.frame # host.request
    BY <1>3, NoBroadcastUnit DEF AsksOf
  <2> QED
    BY <2>1, <2>2 DEF OwnAt
<1> QED
  BY <1>1, <1>2, <1>3, <1>4 DEF HostNext, HostOwn

\* An answer of the unit's, whole, is the present exchange's, and the unit has
\* sent it and has nothing of the request left.
LEMMA AnswerWhole ==
    ASSUME NEW Passes \in Nat \ {0}, OwnInv(Passes), host.pc = "wait", Accepts
    PROVE  LET u == host.unit
               p == port[u]
           IN /\ u \in Units /\ host.request.to = u /\ host.got[1].frame.now
              /\ p.ran > 0 /\ (p.out # None => p.sent = Size)
<1> DEFINE got == host.got
           u == host.unit
           p == port[u]
           f == got[1].frame
<1>1. /\ got \in Seq(Chars) /\ u \in Units /\ host.request.to = u /\ HeardFrom(got, p)
  BY DEF OwnInv, OnceInv, BusTypes, HostFits, HostState, HostOwn
<1>2. /\ Len(got) = Size /\ Head(got).frame # None /\ got = CharsOf(Head(got).frame)
      /\ Size \in Nat \ {0}
  BY ConstantsAre DEF Accepts, Whole, Makes
<1>3. 1 \in DOMAIN got /\ Size \in DOMAIN got /\ Head(got) = got[1]
  BY <1>1, <1>2
<1>4. got[Size] = Char(f, Size)
  BY <1>2, <1>3 DEF CharsOf
<1>5. got[Size].frame = f /\ got[Size].k = Size /\ f # None
  BY <1>2, <1>3, <1>4 DEF Char
<1>6. PortFits(p)
  BY <1>1 DEF OwnInv, OnceInv, BusTypes
<1>7. p.sent \in 0..Size
  BY <1>6, PortIs
<1> DEFINE last == got[Size]
<1>8. last.k = Size /\ last.frame # None
  BY <1>5
<1>9. f.now /\ p.ran > 0 /\ (p.out # None => last.k <= p.sent)
  BY <1>1, <1>3, <1>5, <1>8 DEF HeardFrom
<1> HIDE DEF p, last, f
<1>10. p.out # None => p.sent = Size
  BY <1>2, <1>7, <1>8, <1>9
<1> QED
  BY <1>1, <1>9, <1>10 DEF p, f

LEMMA OwnAccept ==
    ASSUME NEW Passes \in Nat \ {0}, OwnInv(Passes), Accept
    PROVE  HostNext
<1> DEFINE none == <<>>
<1>1. /\ host \in HostState /\ HostOwn(host, still) /\ host.pc = "wait" /\ Accepts
      /\ port' = port /\ still' = still
      /\ host' = [host EXCEPT !.pc = "idle", !.got = none, !.clean = TRUE, !.quiet = 0]
  BY DEF OwnInv, OnceInv, BusTypes, HostFits, Accept
<1>2. Unread(none)
  BY DEF Unread
<1> HIDE DEF none
<1>3. /\ host'.pc = "idle" /\ host'.unit = host.unit /\ host'.request = host.request
      /\ host'.got = none
  BY <1>1 DEF HostState
<1>4. /\ host.unit \in Units /\ host.request.to = host.unit
      /\ port[host.unit].ran > 0
      /\ port[host.unit].out # None => port[host.unit].sent = Size
  BY <1>1, AnswerWhole
<1>5. ASSUME NEW u \in Units PROVE OwnAt(port[u], u, "idle", host.request, still)
  <2> DEFINE p == port[u]
  <2>1. /\ OwnAt(p, u, "wait", host.request, still) /\ OnceAt(p, u, host.request, host.sent)
        /\ PortFits(p)
    BY <1>1 DEF OwnInv, OnceInv, BusTypes
  <2>2. u = host.unit => p.ran > 0 /\ (p.out # None => p.sent = Size)
    BY <1>4
  <2> HIDE DEF p
  <2>3. ASSUME NEW c, AsksOf(c, u), c.frame = host.request
        PROVE  /\ c \notin Kept(p) /\ \A i \in DOMAIN p.ring : c # p.ring[i].char
    <3>1. u = host.unit
      BY <1>4, <2>3 DEF AsksOf
    <3>2. Spent(p, host.request)
      BY <2>1, <2>2, <3>1 DEF OnceAt, Acted
    <3> QED
      BY <2>3, <3>2 DEF Spent
  <2>4. p.out # None => ~ (p.sent < Size)
    <3>1. p.out # None /\ p.sent < Size => host.request.to = u
      BY <2>1 DEF OwnAt
    <3>2. p.sent \in Int /\ Size \in Int
      BY <2>1, PortIs, ConstantsAre
    <3> QED
      BY <1>4, <2>2, <3>1, <3>2
  <2> QED
    BY <2>1, <2>3, <2>4 DEF OwnAt, p
<1> QED
  BY <1>1, <1>2, <1>3, <1>5 DEF HostNext, HostOwn

\* The host has waited for as long as any node can have had something left.
LEMMA OwnGiveUp ==
    ASSUME NEW Passes \in Nat \ {0}, Ring <= Passes * Take, (Passes - 1) * Late < T35,
           Calm <= Quiet, Calm <= Timeout, OwnInv(Passes), GiveUp
    PROVE  HostNext
<1>1. /\ host \in HostState /\ HostOwn(host, still) /\ host.pc = "wait" /\ Waited
      /\ port' = port /\ still' = still /\ still \in 0..Calm
      /\ host' = [host EXCEPT !.pc = "idle", !.quiet = 0]
      /\ host.quiet \in Nat
  BY ConstantsAre DEF OwnInv, OnceInv, BusTypes, HostFits, HostState, GiveUp
<1>2. /\ host'.pc = "idle" /\ host'.unit = host.unit /\ host'.request = host.request
      /\ host'.clean = host.clean
  BY <1>1 DEF HostState
<1>3. ~ host.clean /\ (host.quiet <= still \/ still = Calm)
  BY <1>1 DEF HostOwn
<1>4. host.quiet >= Calm
  <2>1. host.quiet >= Timeout \/ host.quiet >= Quiet
    BY <1>1 DEF Waited
  <2> QED
    BY <1>1, <2>1, ConstantsAre
<1>5. still = Calm
  BY <1>1, <1>3, <1>4, ConstantsAre
<1>6. ASSUME NEW u \in Units PROVE OwnAt(port[u], u, "idle", host.request, still)
  <2> DEFINE p == port[u]
  <2>1. OwnAt(p, u, "wait", host.request, still) /\ Shape(p, u)
    BY <1>1 DEF OwnInv, OnceInv, OnceAt
  <2>2. /\ p.out = None => p.ring = <<>> /\ ~ p.rtu.receiving
        /\ p.out # None => p.sent < Size
    BY <1>5, CalmRests DEF OwnInv
  <2> HIDE DEF p
  <2>3. ~ (still < Calm)
    BY <1>5, ConstantsAre
  <2>4. p.out = None
    BY <2>1, <2>2, <2>3 DEF OwnAt
  <2>5. DOMAIN p.ring = {} /\ DOMAIN p.rtu.rx = {} /\ p.held = None
    BY <2>1, <2>2, <2>4 DEF Shape
  <2>6. Kept(p) = {}
    BY <2>5 DEF Kept
  <2> QED
    BY <2>4, <2>5, <2>6 DEF OwnAt, p
<1> QED
  BY <1>1, <1>2, <1>3, <1>6 DEF HostNext, HostOwn

LEMMA OwnInit ==
    ASSUME NEW Passes \in Nat \ {0}, Init
    PROVE  OwnInv(Passes)
<1>1. OnceInv /\ QuietInv(Passes)
  BY OnceInit, QuietInit
<1>2. host.pc = "idle" /\ ~ host.clean
  BY DEF Init
<1>3. HostOwn(host, still)
  BY <1>2 DEF HostOwn
<1>4. ASSUME NEW u \in Units PROVE OwnAt(port[u], u, host.pc, host.request, still)
  <2> DEFINE p == port[u]
  <2>1. p.ring = <<>> /\ p.held = None /\ p.out = None /\ ~ p.rtu.receiving /\ Shape(p, u)
    BY <1>1, InitIs DEF OnceInv, OnceAt
  <2> HIDE DEF p
  <2>2. DOMAIN p.ring = {} /\ DOMAIN p.rtu.rx = {}
    BY <2>1 DEF Shape
  <2>3. Kept(p) = {}
    BY <2>1, <2>2 DEF Kept
  <2> QED
    BY <2>1, <2>2, <2>3 DEF OwnAt, p
<1> QED
  BY <1>1, <1>2, <1>3, <1>4 DEF OwnInv

LEMMA OwnKeeps ==
    ASSUME NEW Passes \in Nat \ {0}, Ring <= Passes * Take, (Passes - 1) * Late < T35,
           Calm <= Quiet, Calm <= Timeout, OwnInv(Passes), [Next]_vars
    PROVE  OwnInv(Passes)'
<1>1. OnceInv' /\ QuietInv(Passes)'
  BY OnceKeeps, QuietKeeps DEF OwnInv
<1>2. SUFFICES HostNext
  BY <1>1 DEF OwnInv, HostNext
<1>3. CASE UNCHANGED vars
  BY <1>3 DEF vars, OwnInv, HostNext
<1>4. ASSUME NEW v \in Units \cup {Broadcast}, NEW hinted \in BOOLEAN, Transmit(v, hinted)
      PROVE  HostNext
  BY <1>4, OwnTransmit DEF HostNext
<1>5. CASE Left \/ Settled \/ Accept \/ GiveUp
  BY <1>5, OwnLeft, OwnSettled, OwnAccept, OwnGiveUp
<1>6. ASSUME NEW v \in Units, Node(v) PROVE HostNext
  <2>1. Alone(v)
    BY <1>6, TakeOneIs, PassEndsIs, SentIs DEF Node, OwnInv, OnceInv
  <2>2. host' = host /\ still' = still /\ \A u \in Units \ {v} : port'[u] = port[u]
    BY <2>1 DEF Alone
  <2>3. /\ OwnAt(port'[v], v, host.pc, host.request, still)
        /\ port[v].ran > 0 => port'[v].ran > 0 /\ port'[v].out = None
    BY <1>6, OwnNode
  <2>4. \A u \in Units : OwnAt(port'[u], u, host.pc, host.request, still)
    BY <2>2, <2>3 DEF OwnInv
  <2>5. host.pc = "wait" => HeardFrom(host.got, port'[host.unit])
    <3>1. CASE host.unit = v
      BY <2>3, <3>1 DEF HeardFrom, OwnInv
    <3>2. CASE host.unit # v
      <4>1. host.pc = "wait" => host.unit \in Units
        BY DEF OwnInv, HostOwn
      <4> QED
        BY <2>2, <3>2, <4>1 DEF OwnInv
    <3> QED
      BY <3>1, <3>2
  <2> QED
    BY <2>2, <2>4, <2>5 DEF HostNext, OwnInv
<1>7. ASSUME NEW noisy \in BOOLEAN, Tick(noisy) PROVE HostNext
  <2>1. host'.pc = host.pc /\ host'.request = host.request
    BY <1>7, TickDoes DEF OwnInv, OnceInv
  <2> QED
    BY <1>7, <2>1, OwnTick, OwnTickHost DEF HostNext
<1> QED
  BY <1>3, <1>4, <1>5, <1>6, <1>7 DEF Next

\* The answer the host takes is the present exchange's, whatever the noise and
\* though nothing on the wire would tell it from an earlier one (transmit,
\* read_reply, validate), when the silence that makes the host give an exchange
\* up, and its wait for a first character, are as long as a quiet line needs to
\* empty every node: t3.5 and three late passes.
THEOREM AnswersOwn ==
    ASSUME NEW Passes \in Nat \ {0}, Ring <= Passes * Take, (Passes - 1) * Late < T35,
           Calm <= Quiet, Calm <= Timeout
    PROVE  Spec => []AnswersItsOwn
<1>1. OwnInv(Passes) => AnswersItsOwn
  BY AnswerWhole DEF AnswersItsOwn
<1>2. Init => OwnInv(Passes)
  BY OwnInit
<1>3. OwnInv(Passes) /\ [Next]_vars => OwnInv(Passes)'
  BY OwnKeeps
<1> QED
  BY <1>1, <1>2, <1>3, PTL DEF Spec

-----------------------------------------------------------------------------
(* A request that no noise touched is heard, and answered.                 *)

(* Once noise is over and line and nodes have been at rest, the passes keep *)
(* up: what a ring holds came since the last pass, and no pass ends with a  *)
(* character left in it.  A node that a request is for is then somewhere on *)
(* its way from its first character to its end, whatever it had in its      *)
(* receiver being older than t3.5; or it has acted on it.                   *)

\* What the code's times and sizes owe to one another.
Timely(passes) ==
    /\ passes \in Nat \ {0} /\ Ring <= passes * Take /\ (passes - 1) * Late < T35
    /\ Calm <= Quiet /\ Calm <= Timeout /\ Prompt /\ T35 <= Gap
    /\ Late <= Take /\ Late <= Ring /\ Late <= T35 /\ Late <= Settle

Rests(p) == p.ring = <<>> /\ ~ p.rtu.receiving /\ p.out = None

\* A node with nothing left to hear.
Over(p) == p.out # None \/ Rests(p)

\* The first characters of a frame.
First(chars, frame, n) == Len(chars) = n /\ \A k \in DOMAIN chars : chars[k] = Char(frame, k)

Tidy(p) ==
    /\ p.fault => p.ring # <<>>
    /\ ~ p.rtu.receiving /\ p.held = None => p.taken = 0

\* The passes of a node that no noise has touched keep up with the line.
Clean(p, silence) ==
    /\ ~ p.fault /\ p.held = None
    /\ p.out = None =>
          /\ Len(p.ring) + p.taken <= p.since
          /\ \A k \in DOMAIN p.ring : p.ring[k].at < p.since
          /\ p.rtu.receiving => p.rtu.last < T35 + p.since /\ silence <= p.rtu.last

\* Of n characters of a request the receiver has j, the ring the others.
HeardTo(p, request, n, j, silence) ==
    /\ Len(p.ring) = n - j
    /\ \A i \in DOMAIN p.ring :
          p.ring[i].char = Char(request, j + i) /\ p.ring[i].at = n - (j + i) + silence
    /\ j = 0 =>
          /\ \A c \in Kept(p) : c.frame # request
          /\ p.rtu.receiving => p.rtu.last >= IF n = 0 THEN T35 ELSE T35 + n + silence
    /\ j > 0 =>
          /\ p.rtu.receiving /\ ~ p.rtu.bad /\ p.rtu.last = n - j + silence
          /\ First(p.rtu.rx, request, j)

Hearing(p, request, n, silence) ==
    /\ p.ran = 0
    /\ \/ n = 0 /\ p.out # None /\ p.sent = Size
       \/ p.out = None /\ \E j \in 0..n : HeardTo(p, request, n, j, silence)
    /\ n = Size /\ request.hinted => silence < p.since

IsFor(h, u) == h.unit # None /\ h.request.to \in {u, Broadcast}

\* A node the request is for hears it or has acted on it, or noise has struck
\* the exchange and nothing of it is left.
WordAt(p, u, h, silence) ==
    /\ IsFor(h, u) =>
          \/ Hearing(p, h.request, h.sent, silence)
          \/ p.ran = 1 /\ Over(p)
          \/ Rests(p) /\ h.harmed /\ h.pc # "send"
    /\ h.pc = "idle" /\ h.unit = u => Over(p)

\* The host has what the unit has sent.
ReadsAt(p, u, h) ==
    ~ h.harmed /\ h.pc \in {"send", "wait"} /\ h.unit = u =>
        /\ p.ran = 0 => h.got = <<>>
        /\ p.ran > 0 /\ p.out = None => First(h.got, Answer(u, TRUE), Size)
        /\ p.ran > 0 /\ p.out # None => /\ p.out = Answer(u, TRUE)
                                       /\ First(h.got, p.out, p.sent)

CleanAt(p, u, h, silence, struck) ==
    /\ Tidy(p) /\ ReadsAt(p, u, h)
    /\ ~ struck => Clean(p, silence) /\ WordAt(p, u, h, silence)

\* The host's part: its waits are no longer than the silence it counts.
Paced(h, silence, struck) ==
    /\ h.unit # None => /\ h.unit = h.request.to /\ h.proven = h.request.hinted
                        /\ h.pc # "send" => h.sent = Size
    /\ h.unit = None => h.pc = "idle" /\ ~ h.proven
    /\ h.pc = "send" /\ h.sent > 0 => silence = 0
    /\ h.pc = "idle" /\ h.unit = Broadcast => h.quiet >= Settle
    /\ struck => h.harmed
    /\ ~ struck /\ h.pc # "send" => silence >= T35 \/ h.quiet <= silence

CleanInv(passes) ==
    /\ OwnInv(passes) /\ Paced(host, still, hit)
    /\ \A u \in Units : CleanAt(port[u], u, host, still, hit)

LEMMA TimelyIs ==
    ASSUME NEW Passes, Timely(Passes)
    PROVE  /\ Passes \in Nat \ {0} /\ Ring <= Passes * Take /\ (Passes - 1) * Late < T35
           /\ Calm <= Quiet /\ Calm <= Timeout /\ Prompt /\ T35 <= Gap
           /\ Late <= Take /\ Late <= Ring /\ Late <= T35 /\ Late <= Settle
BY DEF Timely

\* What is known of a port, with what numbers are what.
LEMMA CleanFacts ==
    ASSUME NEW Passes, CleanInv(Passes), NEW u \in Units
    PROVE  LET p == port[u]
           IN /\ BusTypes /\ PortFits(p) /\ Shape(p, u) /\ Tidy(p) /\ ReadsAt(p, u, host)
              /\ OnceAt(p, u, host.request, host.sent) /\ QuietAt(p, still, Passes)
              /\ OwnAt(p, u, host.pc, host.request, still)
              /\ ~ hit => Clean(p, still) /\ WordAt(p, u, host, still)
              /\ host.request \in Frames /\ host.request.now /\ host.request.from = None
              /\ host.sent \in 0..Size /\ still \in 0..Calm
              /\ host.pc \in {"idle", "send", "settle", "wait"}
              /\ Paced(host, still, hit) /\ HostOwn(host, still)
BY DEF CleanInv, CleanAt, OwnInv, OnceInv, OnceAt, QuietInv, BusTypes, HostFits, HostState

\* A frame that a node has in its receiver from before makes it neither answer
\* nor count a request.
LEMMA Stale ==
    ASSUME NEW Passes, CleanInv(Passes), NEW u \in Units
    PROVE  LET p == port[u]
           IN /\ ~ IsFor(host, u) => OutOf(u, p.rtu) = None
              /\ (\A c \in Kept(p) : c.frame # host.request) =>
                    OutOf(u, p.rtu) = None /\ RanOf(u, p.rtu, p.ran) = p.ran
<1> DEFINE p == port[u]
           f == p.rtu.rx[1].frame
<1>1. CASE ~ Ours(p.rtu, u)
  BY <1>1 DEF OutOf, RanOf
<1>2. CASE Ours(p.rtu, u)
  <2>1. /\ PortFits(p) /\ OnceAt(p, u, host.request, host.sent)
        /\ OwnAt(p, u, host.pc, host.request, still)
        /\ host.request \in Frames /\ host.sent \in 0..Size
        /\ Paced(host, still, hit)
    BY CleanFacts
  <2>2. /\ f \in Frames /\ f.from = None /\ f.to \in {u, Broadcast} /\ 1 \in DOMAIN p.rtu.rx
        /\ f.now => f = host.request
    BY <1>2, <2>1, Executes
  <2> DEFINE c == p.rtu.rx[1]
  <2>3. c \in Kept(p) /\ c.frame = f
    BY <2>1, <2>2, KeptIs
  <2>4. OutOf(u, p.rtu) = (IF f.to # Broadcast THEN Answer(u, f.now) ELSE None)
        /\ RanOf(u, p.rtu, p.ran) = (IF f.now THEN p.ran + 1 ELSE p.ran)
    BY <1>2 DEF OutOf, RanOf
  <2> HIDE DEF p, f, c
  <2>5. f.to = u => f = host.request /\ host.pc # "idle"
    <3>1. f.to = u => AsksOf(c, u)
      BY <2>2, <2>3, NoneAssumption DEF AsksOf
    <3> QED
      BY <2>1, <2>3, <3>1 DEF OwnAt
  <2>6. ~ IsFor(host, u) => f.to = Broadcast
    BY <2>1, <2>2, <2>5 DEF IsFor, Paced
  <2>7. (\A d \in Kept(p) : d.frame # host.request) => f.to = Broadcast /\ ~ f.now
    BY <2>2, <2>3, <2>5
  <2> QED
    BY <2>4, <2>6, <2>7 DEF p
<1> QED
  BY <1>1, <1>2

LEMMA FirstMore ==
    ASSUME NEW S, NEW s \in Seq(S), NEW n \in Nat, NEW f, First(s, f, n)
    PROVE  First(Append(s, Char(f, n + 1)), f, n + 1)
<1> DEFINE c == Char(f, n + 1)
           T == S \cup {c}
           t == Append(s, c)
<1>1. s \in Seq(T) /\ c \in T /\ Len(s) = n /\ \A k \in DOMAIN s : s[k] = Char(f, k)
  BY DEF First
<1> HIDE DEF c, T
<1>2. Len(t) = n + 1 /\ \A k \in DOMAIN t : (k \in DOMAIN s /\ t[k] = s[k]) \/ (k = n + 1 /\ t[k] = c)
  BY <1>1
<1> HIDE DEF t
<1>3. \A k \in DOMAIN t : t[k] = Char(f, k)
  BY <1>1, <1>2 DEF c
<1> QED
  BY <1>2, <1>3 DEF First, t, c

LEMMA FirstOne ==
    ASSUME NEW f
    PROVE  First(<<Char(f, 1)>>, f, 1)
<1> DEFINE s == <<Char(f, 1)>>
<1>1. Len(s) = 1 /\ DOMAIN s = {1} /\ s[1] = Char(f, 1)
  OBVIOUS
<1> HIDE DEF s
<1>2. First(s, f, 1)
  BY <1>1 DEF First
<1> QED
  BY <1>2 DEF s

\* All the characters of a frame are the frame.
LEMMA FirstAll ==
    ASSUME NEW S, NEW s \in Seq(S), NEW f, f # None, First(s, f, Size)
    PROVE  Whole(s) /\ s[1].frame = f
<1>1. Len(s) = Size /\ Size \in Nat \ {0} /\ \A k \in DOMAIN s : s[k] = Char(f, k)
  BY ConstantsAre DEF First
<1>2. 1 \in DOMAIN s /\ DOMAIN s = 1..Size /\ Head(s) = s[1]
  BY <1>1
<1>3. s[1].frame = f
  BY <1>1, <1>2 DEF Char
<1>4. s = [k \in 1..Size |-> s[k]]
  BY <1>2
<1>5. s = CharsOf(f)
  BY <1>1, <1>2, <1>4 DEF CharsOf
<1> QED
  BY <1>1, <1>2, <1>3, <1>5 DEF Whole, Makes

LEMMA OnByteFirst ==
    ASSUME NEW r, ~ r.receiving, NEW f, NEW at
    PROVE  LET q == OnByte(r, Char(f, 1), at)
           IN q.receiving /\ ~ q.bad /\ q.last = at /\ First(q.rx, f, 1)
<1> DEFINE q == OnByte(r, Char(f, 1), at)
           one == <<Char(f, 1)>>
<1>1. q.receiving /\ ~ q.bad /\ q.last = at /\ q.rx = one
  BY DEF OnByte
<1>2. First(one, f, 1)
  BY FirstOne
<1> HIDE DEF q, one
<1>3. q.receiving /\ ~ q.bad /\ q.last = at /\ First(q.rx, f, 1)
  BY <1>1, <1>2
<1> QED
  BY <1>3 DEF q

LEMMA OnByteNext ==
    ASSUME NEW r, ReceiverFits(r), r.receiving, ~ r.bad, NEW f, NEW n \in Nat, n < Size,
           First(r.rx, f, n), NEW at \in Nat, r.last = at + 1
    PROVE  LET q == OnByte(r, Char(f, n + 1), at)
           IN q.receiving /\ ~ q.bad /\ q.last = at /\ First(q.rx, f, n + 1)
<1> DEFINE q == OnByte(r, Char(f, n + 1), at)
           more == Append(r.rx, Char(f, n + 1))
<1>1. Len(r.rx) < AduMax /\ r.rx \in Seq(Chars)
  BY ConstantsAre DEF First, ReceiverFits, ReceiverState
<1>2. ~ (Elapsed(at, r.last) > T15)
  BY ConstantsAre DEF Elapsed
<1>3. q.receiving /\ ~ q.bad /\ q.last = at /\ q.rx = more
  BY <1>1, <1>2 DEF OnByte
<1>4. First(more, f, n + 1)
  BY <1>1, FirstMore
<1> HIDE DEF q, more
<1>5. q.receiving /\ ~ q.bad /\ q.last = at /\ First(q.rx, f, n + 1)
  BY <1>3, <1>4
<1> QED
  BY <1>5 DEF q

LEMMA TidyNode ==
    ASSUME NEW Passes, CleanInv(Passes), NEW u \in Units, Node(u)
    PROVE  Tidy(port'[u])
<1> DEFINE p == port[u]
           q == port'[u]
<1>1. BusTypes /\ PortFits(p) /\ Tidy(p) /\ Shape(p, u)
      /\ (p.out # None => ~ p.rtu.receiving)
  BY CleanFacts DEF QuietAt, Passing
<1>2. CASE TakeOne(u)
  <2>1. /\ p.ring # <<>> /\ ~ q.fault
        /\ \/ q.out # None /\ q.held = Head(p.ring)
           \/ q.rtu = OnByte(IF Breaks(p) THEN Receiver ELSE p.rtu,
                             Head(p.ring).char, Head(p.ring).at)
    BY <1>1, <1>2, TakeOneIs
  <2>2. Head(p.ring) \in Stamped
    BY <1>1, <2>1, PortIs, TailIs
  <2>3. q.held = Head(p.ring) => q.held # None
    BY <2>2, NoneAssumption
  <2>4. q.rtu = OnByte(IF Breaks(p) THEN Receiver ELSE p.rtu,
                       Head(p.ring).char, Head(p.ring).at) => q.rtu.receiving
    BY DEF OnByte
  <2> QED
    BY <2>1, <2>3, <2>4 DEF Tidy
<1>3. CASE PassEnds(u)
  <2>1. q.taken = 0 /\ q.ring = p.ring /\ (q.fault => p.fault)
    BY <1>1, <1>3, PassEndsIs
  <2> QED
    BY <1>1, <2>1 DEF Tidy
<1>4. CASE Sent(u)
  <2>1. /\ ~ q.fault /\ q.taken = p.taken /\ p.out # None
        /\ \/ p.held = None /\ q.rtu = p.rtu
           \/ q.rtu = OnByte(p.rtu, p.held.char, p.held.at)
    BY <1>1, <1>4, SentIs
  <2>2. q.rtu = OnByte(p.rtu, p.held.char, p.held.at) => q.rtu.receiving
    BY DEF OnByte
  <2> QED
    BY <1>1, <2>1, <2>2 DEF Tidy
<1> QED
  BY <1>2, <1>3, <1>4 DEF Node

\* With nothing left to hear a node has nothing to take, and its passes end.
LEMMA OverNode ==
    ASSUME NEW Passes, CleanInv(Passes), ~ hit, NEW u \in Units, Node(u), Over(port[u])
    PROVE  LET p == port[u]
               q == port'[u]
           IN /\ Rests(q) /\ q.ran = p.ran
              /\ p.out # None => p.sent = Size
<1> DEFINE p == port[u]
           q == port'[u]
<1>1. /\ BusTypes /\ Clean(p, still) /\ (p.out # None => ~ p.rtu.receiving)
      /\ (p.out = None => Rests(p))
  BY CleanFacts DEF QuietAt, Passing, Over
<1>2. CASE TakeOne(u)
  <2>1. p.out = None /\ p.ring # <<>>
    BY <1>1, <1>2, TakeOneIs
  <2> QED
    BY <1>1, <2>1 DEF Rests
<1>3. CASE PassEnds(u)
  <2>1. /\ p.out = None /\ q.ring = p.ring
        /\ \/ p.fault
           \/ Ends(p.rtu, u, 0)
           \/ q.rtu = p.rtu /\ q.out = None /\ q.ran = p.ran
    BY <1>1, <1>3, PassEndsIs
  <2>2. ~ Ends(p.rtu, u, 0)
    BY <1>1, <2>1 DEF Ends, Rests
  <2> QED
    BY <1>1, <2>1, <2>2 DEF Rests, Clean
<1>4. CASE Sent(u)
  <2>1. /\ q.ring = <<>> /\ q.out = None /\ q.ran = p.ran /\ p.out # None /\ p.sent = Size
        /\ p.held # None \/ q.rtu = p.rtu
    BY <1>1, <1>4, SentIs
  <2> QED
    BY <1>1, <2>1 DEF Rests, Clean
<1> QED
  BY <1>2, <1>3, <1>4 DEF Node

\* What is left of a request, for a node that has not acted on it.
LEMMA HearingIs ==
    ASSUME NEW Passes, CleanInv(Passes), ~ hit, NEW u \in Units, IsFor(host, u),
           ~ Over(port[u])
    PROVE  LET p == port[u]
           IN /\ p.ran = 0 /\ p.out = None
              /\ \E j \in 0..host.sent : HeardTo(p, host.request, host.sent, j, still)
              /\ host.sent = Size /\ host.request.hinted => still < p.since
BY CleanFacts DEF WordAt, Hearing, Over, Rests

LEMMA CleanTake ==
    ASSUME NEW Passes, Timely(Passes), CleanInv(Passes), ~ hit, NEW u \in Units, TakeOne(u)
    PROVE  LET p == port[u]
               q == port'[u]
           IN /\ Clean(q, still) /\ WordAt(q, u, host, still) /\ ~ Over(p)
              /\ IsFor(host, u) => q.ran = 0
<1> DEFINE p == port[u]
           q == port'[u]
           e == Head(p.ring)
           request == host.request
           n == host.sent
<1>1. /\ BusTypes /\ PortFits(p) /\ Shape(p, u) /\ Clean(p, still)
      /\ Stamps(p, still) /\ request \in Frames /\ n \in 0..Size /\ still \in Nat
  BY CleanFacts DEF QuietAt
<1>2. /\ PortFits(q) /\ p.out = None /\ p.ring # <<>> /\ p.ring \in Seq(Stamped)
      /\ q.ring = Tail(p.ring) /\ q.taken = p.taken + 1 /\ ~ q.fault /\ q.since = p.since
      /\ q.out = (IF Breaks(p) THEN OutOf(u, p.rtu) ELSE None)
      /\ q.ran = (IF Breaks(p) THEN RanOf(u, p.rtu, p.ran) ELSE p.ran)
      /\ \/ q.out # None
         \/ /\ q.held = p.held /\ q.rtu.last = e.at
            /\ q.rtu = OnByte(IF Breaks(p) THEN Receiver ELSE p.rtu, e.char, e.at)
  BY <1>1, TakeOneIs, PortIs
<1>3. /\ e \in Stamped /\ 1 \in DOMAIN p.ring /\ e = p.ring[1]
      /\ Len(q.ring) = Len(p.ring) - 1 /\ Len(p.ring) \in Nat
      /\ \A i \in DOMAIN q.ring : i \in Int /\ i + 1 \in DOMAIN p.ring /\ q.ring[i] = p.ring[i + 1]
  <2>1. e \in Stamped /\ 1 \in DOMAIN p.ring /\ e = p.ring[1]
        /\ \A i \in DOMAIN q.ring : i \in Int /\ i + 1 \in DOMAIN p.ring /\ q.ring[i] = p.ring[i + 1]
    BY <1>2, TailIs
  <2>2. Len(q.ring) = Len(p.ring) - 1 /\ Len(p.ring) \in Nat
    BY <1>2, <2>1
  <2> QED
    BY <2>1, <2>2
<1>4. /\ e.at \in Nat /\ e.char \in Chars /\ p.since \in Nat /\ p.taken \in Nat
      /\ ReceiverFits(p.rtu) /\ p.rtu.last \in Nat /\ T35 \in Nat \ {0} /\ p.ran \in Nat
  <2>1. e.at \in Nat /\ e.char \in Chars
    BY <1>3 DEF Stamped
  <2>2. p.taken \in 0..Take
    BY <1>1, PortIs
  <2> QED
    BY <1>1, <2>1, <2>2, PortIs, ConstantsAre
<1>5. e.at < p.since /\ still <= e.at /\ Len(p.ring) + p.taken <= p.since
      /\ \A k \in DOMAIN p.ring : p.ring[k].at < p.since
  BY <1>1, <1>2, <1>3 DEF Clean, Stamps
<1>6. ~ Over(p)
  BY <1>2 DEF Over, Rests
<1>7. ~ IsFor(host, u) => OutOf(u, p.rtu) = None
  BY Stale
<1>8. (\A c \in Kept(p) : c.frame # request) =>
          OutOf(u, p.rtu) = None /\ RanOf(u, p.rtu, p.ran) = p.ran
  BY Stale
<1>9. IsFor(host, u) =>
        /\ p.ran = 0 /\ (n = Size /\ request.hinted => still < p.since)
        /\ \E j \in 0..n : HeardTo(p, request, n, j, still)
  BY <1>6, HearingIs
<1>10. host.pc = "idle" /\ host.unit = u => Over(p)
  BY CleanFacts DEF WordAt
<1> HIDE DEF p, q, e, request, n
<1>11. ASSUME NEW j \in 0..n, HeardTo(p, request, n, j, still), p.ran = 0
       PROVE  /\ q.out = None /\ q.ran = 0 /\ j + 1 \in 0..n
              /\ HeardTo(q, request, n, j + 1, still)
  <2>1. /\ Len(p.ring) = n - j /\ j < n /\ n \in Int /\ j \in Nat /\ n <= Size /\ Size \in Int
        /\ e.char = Char(request, j + 1) /\ e.at = n - (j + 1) + still
        /\ \A i \in DOMAIN p.ring :
              p.ring[i].char = Char(request, j + i) /\ p.ring[i].at = n - (j + i) + still
    <3>1. Len(p.ring) # 0
      BY <1>2, EmptySeq
    <3> QED
      BY <1>1, <1>3, <1>11, <3>1, ConstantsAre DEF HeardTo
  <2>2. /\ Len(q.ring) = n - (j + 1)
        /\ \A i \in DOMAIN q.ring :
              /\ q.ring[i].char = Char(request, (j + 1) + i)
              /\ q.ring[i].at = n - ((j + 1) + i) + still
    <3>1. ASSUME NEW i \in DOMAIN q.ring
          PROVE  /\ q.ring[i].char = Char(request, (j + 1) + i)
                 /\ q.ring[i].at = n - ((j + 1) + i) + still
      <4>1. i \in Int /\ i + 1 \in DOMAIN p.ring /\ q.ring[i] = p.ring[i + 1]
        BY <1>3, <3>1
      <4>2. j + (i + 1) = (j + 1) + i
        BY <2>1, <4>1
      <4> QED
        BY <2>1, <4>1, <4>2
    <3>2. Len(q.ring) = n - (j + 1)
      BY <1>3, <2>1
    <3> QED
      BY <3>1, <3>2
  <2>3. ASSUME /\ q.out = None /\ q.ran = 0
               /\ q.rtu.receiving /\ ~ q.rtu.bad /\ q.rtu.last = e.at
               /\ First(q.rtu.rx, request, j + 1)
        PROVE  HeardTo(q, request, n, j + 1, still)
    <3>1. j + 1 > 0 /\ j + 1 # 0 /\ e.at = n - (j + 1) + still
      BY <2>1
    <3> QED
      BY <2>2, <2>3, <3>1 DEF HeardTo
  <2>4. CASE j = 0
    <3>1. (\A c \in Kept(p) : c.frame # request)
          /\ (p.rtu.receiving => p.rtu.last >= T35 + n + still)
      BY <1>11, <2>1, <2>4 DEF HeardTo
    <3>2. p.rtu.receiving => Breaks(p)
      BY <1>1, <1>4, <2>1, <2>4, <3>1, SMTT(30) DEF Breaks, Elapsed, e
    <3>3. q.out = None /\ q.ran = 0
      BY <1>2, <1>8, <1>11, <3>1
    <3> DEFINE r == IF Breaks(p) THEN Receiver ELSE p.rtu
    <3>4. ~ r.receiving
      BY <3>2, ReceiverIs
    <3> HIDE DEF r
    <3>5. j + 1 = 1
      BY <2>4
    <3>6. q.rtu = OnByte(r, Char(request, 1), e.at)
      BY <1>2, <2>1, <3>3, <3>5 DEF r
    <3>7. q.rtu.receiving /\ ~ q.rtu.bad /\ q.rtu.last = e.at /\ First(q.rtu.rx, request, 1)
      BY <3>4, <3>6, OnByteFirst
    <3> QED
      BY <2>1, <2>3, <3>3, <3>5, <3>7
  <2>5. CASE j > 0
    <3>1. p.rtu.receiving /\ ~ p.rtu.bad /\ p.rtu.last = n - j + still
          /\ First(p.rtu.rx, request, j)
      BY <1>11, <2>5 DEF HeardTo
    <3>2. p.rtu.last = e.at + 1
      BY <1>1, <2>1, <3>1
    <3>3. ~ Breaks(p)
      BY <1>4, <3>2 DEF Breaks, Elapsed, e
    <3>4. q.out = None /\ q.ran = 0 /\ q.rtu = OnByte(p.rtu, Char(request, j + 1), e.at)
      BY <1>2, <1>11, <2>1, <3>3
    <3>5. q.rtu.receiving /\ ~ q.rtu.bad /\ q.rtu.last = e.at
          /\ First(q.rtu.rx, request, j + 1)
      BY <1>4, <2>1, <3>1, <3>2, <3>4, OnByteNext
    <3> QED
      BY <2>1, <2>3, <3>4, <3>5
  <2> QED
    BY <2>1, <2>4, <2>5
<1>12. q.out = None /\ (IsFor(host, u) => q.ran = 0)
  BY <1>2, <1>7, <1>9, <1>11
<1>13. Clean(q, still)
  <2>1. q.rtu.last = e.at /\ q.held = None
    BY <1>1, <1>2, <1>12 DEF Clean
  <2>2. Len(q.ring) + q.taken <= q.since /\ \A k \in DOMAIN q.ring : q.ring[k].at < q.since
    BY <1>2, <1>3, <1>4, <1>5
  <2>3. q.rtu.last < T35 + q.since /\ still <= q.rtu.last
    BY <1>2, <1>4, <1>5, <2>1
  <2> QED
    BY <1>2, <2>1, <2>2, <2>3 DEF Clean
<1>14. IsFor(host, u) => Hearing(q, request, n, still)
  BY <1>2, <1>9, <1>11, <1>12 DEF Hearing
<1>15. WordAt(q, u, host, still)
  BY <1>6, <1>10, <1>14 DEF WordAt, n, request
<1> QED
  BY <1>6, <1>12, <1>13, <1>15 DEF p, q

LEMMA KeptNone ==
    ASSUME NEW p, p.rtu.rx = <<>>, p.held = None
    PROVE  Kept(p) = {}
<1>1. DOMAIN p.rtu.rx = {}
  OBVIOUS
<1> QED
  BY <1>1 DEF Kept

\* The numbers of what a request's characters have become.
LEMMA HeardRest ==
    ASSUME NEW p, PortFits(p), NEW request, NEW n \in 0..Size, NEW j \in 0..n,
           NEW silence, HeardTo(p, request, n, j, silence), p.ring = <<>>
    PROVE  /\ j = n
           /\ n = 0 => /\ \A c \in Kept(p) : c.frame # request
                       /\ p.rtu.receiving => p.rtu.last >= T35
           /\ n > 0 => /\ p.rtu.receiving /\ ~ p.rtu.bad /\ p.rtu.last = n - j + silence
                       /\ First(p.rtu.rx, request, n)
<1>1. Len(p.ring) = 0
  OBVIOUS
<1>2. n \in Int /\ j \in Int /\ Len(p.ring) = n - j
  BY ConstantsAre DEF HeardTo
<1>3. j = n
  BY <1>1, <1>2
<1> QED
  BY <1>2, <1>3 DEF HeardTo

\* A node that has nothing of the request, and one that has it all in its
\* receiver.
LEMMA HeardNone ==
    ASSUME NEW q, q.ring = <<>>, ~ q.rtu.receiving, Kept(q) = {}, NEW request, NEW silence
    PROVE  HeardTo(q, request, 0, 0, silence)
<1>1. Len(q.ring) = 0 /\ DOMAIN q.ring = {}
  OBVIOUS
<1> QED
  BY <1>1 DEF HeardTo

LEMMA HeardWhole ==
    ASSUME NEW q, q.ring = <<>>, NEW request, NEW n \in Nat \ {0}, NEW silence \in Nat,
           q.rtu.receiving, ~ q.rtu.bad, q.rtu.last = silence, First(q.rtu.rx, request, n)
    PROVE  HeardTo(q, request, n, n, silence)
<1>1. Len(q.ring) = 0 /\ DOMAIN q.ring = {} /\ n - n = 0 /\ n > 0 /\ n - n + silence = silence
  OBVIOUS
<1> QED
  BY <1>1 DEF HeardTo

LEMMA CleanPass ==
    ASSUME NEW Passes, Timely(Passes), CleanInv(Passes), ~ hit, NEW u \in Units, PassEnds(u)
    PROVE  LET q == port'[u] IN Clean(q, still) /\ WordAt(q, u, host, still)
<1> DEFINE p == port[u]
           q == port'[u]
           request == host.request
           n == host.sent
<1>1. /\ BusTypes /\ PortFits(p) /\ Clean(p, still) /\ WordAt(p, u, host, still)
      /\ request \in Frames /\ request.now /\ n \in 0..Size /\ still \in Nat
      /\ p.since <= Late /\ Paced(host, still, hit)
  BY CleanFacts DEF QuietAt, Passing
<1>2. /\ p.ring \in Seq(Stamped) /\ Len(p.ring) \in Nat /\ p.taken \in 0..Take
      /\ p.since \in Nat /\ p.ran \in Nat /\ ReceiverFits(p.rtu) /\ p.rtu.last \in Nat
  BY <1>1, PortIs
<1>3. /\ p.out = None /\ (p.ring = <<>> \/ p.taken = Take)
      /\ q.ring = p.ring /\ q.taken = 0 /\ q.since = 0 /\ q.held = p.held /\ ~ q.fault
      /\ \/ /\ Ends(p.rtu, u, 0) /\ q.rtu = Receiver
            /\ q.out = OutOf(u, p.rtu) /\ q.ran = RanOf(u, p.rtu, p.ran)
         \/ /\ ~ Ends(p.rtu, u, 0) /\ q.rtu = p.rtu /\ q.out = None /\ q.ran = p.ran
            /\ p.rtu.receiving => p.rtu.last < T35
  BY <1>1, PassEndsIs DEF Clean
<1>4. p.ring = <<>> /\ q.held = None /\ p.held = None
      /\ (p.rtu.receiving => still <= p.rtu.last)
  <2>1. Len(p.ring) + p.taken <= p.since
    BY <1>1, <1>3 DEF Clean
  <2>2. Late <= Take
    BY TimelyIs
  <2>3. p.taken = Take => Len(p.ring) = 0
    BY <1>1, <1>2, <2>1, <2>2, ConstantsAre
  <2>4. p.ring = <<>>
    BY <1>2, <1>3, <2>3, EmptySeq
  <2> QED
    BY <1>1, <1>3, <2>4 DEF Clean
<1>5. Over(p) => Rests(q) /\ q.ran = p.ran
  BY OverNode DEF Node
<1>6. (\A c \in Kept(p) : c.frame # request) =>
          OutOf(u, p.rtu) = None /\ RanOf(u, p.rtu, p.ran) = p.ran
  BY Stale
<1>7. IsFor(host, u) /\ ~ Over(p) =>
        /\ p.ran = 0 /\ (n = Size /\ request.hinted => still < p.since)
        /\ \E j \in 0..n : HeardTo(p, request, n, j, still)
  BY HearingIs
<1>8. IsFor(host, u) => request.to \in {u, Broadcast} /\ (host.pc # "send" => n = Size)
  BY <1>1 DEF IsFor, Paced
<1>9. host.pc = "send" /\ n > 0 => still = 0
  BY <1>1 DEF Paced
<1>10. ~ Receiver.receiving /\ Receiver.rx = <<>>
  BY DEF Receiver
<1>11. Size \in Nat \ {0} /\ T35 \in Nat \ {0}
  BY ConstantsAre
<1>12. IsFor(host, u) =>
          \/ Hearing(p, request, n, still)
          \/ p.ran = 1 /\ Over(p)
          \/ Rests(p) /\ host.harmed /\ host.pc # "send"
  BY <1>1 DEF WordAt
<1>13. host.pc = "idle" /\ host.unit = u => Over(p)
  BY <1>1 DEF WordAt
<1> HIDE DEF p, q, request, n
<1>14. Clean(q, still)
  <2>1. Len(q.ring) = 0 /\ DOMAIN q.ring = {}
    BY <1>3, <1>4
  <2>2. q.rtu.receiving => q.rtu.last < T35 + q.since /\ still <= q.rtu.last
    BY <1>2, <1>3, <1>4, <1>10, <1>11
  <2> QED
    BY <1>3, <1>4, <2>1, <2>2 DEF Clean
<1>15. ASSUME Over(p), Hearing(p, request, n, still)
       PROVE  Hearing(q, request, n, still)
  <2>1. p.ran = 0 /\ ~ p.rtu.receiving /\ \E j \in 0..n : HeardTo(p, request, n, j, still)
    BY <1>3, <1>15 DEF Hearing, Over, Rests
  <2>2. n = 0 /\ \A c \in Kept(p) : c.frame # request
    BY <1>1, <1>4, <2>1, HeardRest
  <2>3. q.rtu = p.rtu /\ q.out = None /\ q.ran = 0
    BY <1>3, <2>1 DEF Ends
  <2>4. Kept(q) = Kept(p)
    BY <1>3, <2>3 DEF Kept
  <2>5. HeardTo(q, request, 0, 0, still)
    <3>1. Len(q.ring) = 0 /\ DOMAIN q.ring = {}
      BY <1>3, <1>4
    <3> QED
      BY <2>1, <2>2, <2>3, <2>4, <3>1 DEF HeardTo
  <2>6. 0 \in 0..n /\ n # Size
    BY <1>11, <2>2
  <2> QED
    BY <2>2, <2>3, <2>5, <2>6 DEF Hearing
<1>16. ASSUME IsFor(host, u), ~ Over(p)
       PROVE  Hearing(q, request, n, still) \/ (q.ran = 1 /\ Over(q))
  <2>1. PICK j \in 0..n : HeardTo(p, request, n, j, still)
    BY <1>7, <1>16
  <2>2. /\ j = n
        /\ n = 0 => /\ \A c \in Kept(p) : c.frame # request
                    /\ p.rtu.receiving => p.rtu.last >= T35
        /\ n > 0 => /\ p.rtu.receiving /\ ~ p.rtu.bad /\ p.rtu.last = n - j + still
                    /\ First(p.rtu.rx, request, n)
    BY <1>1, <1>4, <2>1, HeardRest
  <2>3. p.ran = 0 /\ n \in Nat /\ n <= Size
    BY <1>1, <1>7, <1>11, <1>16
  <2>4. CASE n = 0
    <3>1. OutOf(u, p.rtu) = None /\ RanOf(u, p.rtu, p.ran) = p.ran
      BY <1>6, <2>2, <2>4
    <3>2. p.rtu.receiving
      BY <1>3, <1>4, <1>16 DEF Over, Rests
    <3>3. ~ (p.rtu.last < T35)
      BY <1>2, <1>11, <2>2, <2>4, <3>2
    <3>4. q.rtu = Receiver /\ q.out = None /\ q.ran = 0
      BY <1>3, <2>3, <3>1, <3>2, <3>3
    <3>5. Kept(q) = {}
      BY <1>4, <1>10, <3>4, KeptNone
    <3>6. HeardTo(q, request, 0, 0, still)
      BY <1>3, <1>4, <1>10, <3>4, <3>5, HeardNone
    <3>7. 0 \in 0..n /\ n # Size
      BY <1>11, <2>4
    <3> QED
      BY <2>4, <3>4, <3>6, <3>7 DEF Hearing
  <2>5. CASE n > 0
    <3>1. /\ p.rtu.receiving /\ ~ p.rtu.bad /\ p.rtu.last = still
          /\ First(p.rtu.rx, request, n)
      BY <1>1, <2>2, <2>3, <2>5
    <3>2. n = Size => Whole(p.rtu.rx) /\ p.rtu.rx[1].frame = request
      <4>1. p.rtu.rx \in Seq(Chars) /\ request # None
        BY <1>1, <1>2, NoneAssumption DEF ReceiverFits, ReceiverState
      <4> QED
        BY <3>1, <4>1, FirstAll
    <3>3. CASE Ends(p.rtu, u, 0)
      <4>1. n = Size
        <5>1. SUFFICES ASSUME n # Size PROVE FALSE
          OBVIOUS
        <5>2. still = 0
          BY <1>8, <1>9, <1>16, <2>5, <5>1
        <5>3. ~ (Elapsed(0, p.rtu.last) >= T35)
          BY <1>11, <3>1, <5>2 DEF Elapsed
        <5>4. ~ Proven(p.rtu, u)
          BY <3>1, <5>1 DEF Proven, Whole, First
        <5> QED
          BY <3>3, <5>3, <5>4 DEF Ends
      <4>2. Ours(p.rtu, u)
        BY <1>8, <1>16, <3>1, <3>2, <4>1 DEF Ours
      <4>3. q.ran = 1 /\ q.rtu = Receiver
        BY <1>1, <1>3, <2>3, <3>2, <3>3, <4>1, <4>2 DEF RanOf
      <4> QED
        BY <1>3, <1>4, <1>10, <4>3 DEF Over, Rests
    <3>4. CASE ~ Ends(p.rtu, u, 0)
      <4>1. q.rtu = p.rtu /\ q.out = None /\ q.ran = 0
        BY <1>3, <2>3, <3>4
      <4>2. HeardTo(q, request, n, n, still)
        BY <1>1, <1>3, <1>4, <2>3, <2>5, <3>1, <4>1, HeardWhole
      <4>3. ~ (n = Size /\ request.hinted)
        BY <1>8, <1>16, <3>1, <3>2, <3>4 DEF Ends, Proven
      <4> QED
        BY <2>3, <4>1, <4>2, <4>3 DEF Hearing
    <3> QED
      BY <3>3, <3>4
  <2> QED
    BY <2>3, <2>4, <2>5
<1>17. IsFor(host, u) =>
          \/ Hearing(q, request, n, still)
          \/ q.ran = 1 /\ Over(q)
          \/ Rests(q) /\ host.harmed /\ host.pc # "send"
  <2>1. CASE Over(p)
    BY <1>5, <1>12, <1>15, <2>1 DEF Over, Rests
  <2>2. CASE ~ Over(p)
    BY <1>16, <2>2
  <2> QED
    BY <2>1, <2>2
<1>18. WordAt(q, u, host, still)
  BY <1>5, <1>13, <1>17 DEF WordAt, Over, request, n
<1> QED
  BY <1>14, <1>18 DEF q

LEMMA CleanSent ==
    ASSUME NEW Passes, Timely(Passes), CleanInv(Passes), ~ hit, NEW u \in Units, Sent(u)
    PROVE  LET q == port'[u] IN Clean(q, still) /\ WordAt(q, u, host, still)
<1> DEFINE p == port[u]
           q == port'[u]
           request == host.request
           n == host.sent
<1>1. /\ BusTypes /\ PortFits(p) /\ Clean(p, still) /\ WordAt(p, u, host, still)
      /\ Tidy(p) /\ Shape(p, u) /\ n \in 0..Size /\ still \in Nat
      /\ (p.out # None => ~ p.rtu.receiving)
  BY CleanFacts DEF QuietAt, Passing
<1>2. p.held = None
  BY <1>1 DEF Clean
<1>3. /\ p.out # None /\ q.ring = <<>> /\ ~ q.fault /\ q.out = None /\ q.since = 0
      /\ q.taken = p.taken /\ q.ran = p.ran /\ q.held = p.held /\ q.rtu = p.rtu
  BY <1>1, <1>2, SentIs
<1>4. Rests(q)
  BY <1>3, OverNode DEF Over, Node
<1> HIDE DEF p, q, request, n
<1>5. /\ ~ p.rtu.receiving /\ p.rtu.rx = <<>> /\ p.taken = 0
  BY <1>1, <1>2, <1>3 DEF Tidy, Shape
<1>6. Clean(q, still)
  <2>1. Len(q.ring) = 0 /\ DOMAIN q.ring = {}
    BY <1>3
  <2> QED
    BY <1>2, <1>3, <1>5, <2>1 DEF Clean
<1>7. Hearing(p, request, n, still) => Hearing(q, request, n, still)
  <2>1. SUFFICES ASSUME Hearing(p, request, n, still) PROVE Hearing(q, request, n, still)
    OBVIOUS
  <2>2. p.ran = 0 /\ n = 0
    BY <1>3, <2>1 DEF Hearing
  <2>3. Kept(q) = {}
    BY <1>2, <1>3, <1>5, KeptNone
  <2>4. HeardTo(q, request, 0, 0, still)
    BY <1>3, <1>5, <2>3, HeardNone
  <2>5. 0 \in 0..n /\ n # Size
    BY <2>2, ConstantsAre
  <2> QED
    BY <1>3, <2>2, <2>4, <2>5 DEF Hearing
<1>8. WordAt(q, u, host, still)
  <2>1. IsFor(host, u) =>
          \/ Hearing(p, request, n, still)
          \/ p.ran = 1 /\ Over(p)
          \/ Rests(p) /\ host.harmed /\ host.pc # "send"
    BY <1>1 DEF WordAt, request, n
  <2>2. Over(q) /\ ~ Rests(p)
    BY <1>3, <1>4 DEF Over, Rests
  <2> QED
    BY <1>3, <1>7, <2>1, <2>2 DEF WordAt, request, n
<1> QED
  BY <1>6, <1>8 DEF q

LEMMA FirstNone ==
    ASSUME NEW frame
    PROVE  First(<<>>, frame, 0)
<1> DEFINE none == <<>>
<1>1. Len(none) = 0 /\ DOMAIN none = {}
  OBVIOUS
<1> HIDE DEF none
<1>2. First(none, frame, 0)
  BY <1>1 DEF First
<1> QED
  BY <1>2 DEF none

\* The host has none of the answer when the node begins it, and all of it when
\* the node is through.
LEMMA ReadsNode ==
    ASSUME NEW Passes, Timely(Passes), CleanInv(Passes), NEW u \in Units, Node(u)
    PROVE  ReadsAt(port'[u], u, host)
<1> DEFINE p == port[u]
           q == port'[u]
           answer == Answer(u, TRUE)
<1>1. SUFFICES ASSUME ~ host.harmed, host.pc \in {"send", "wait"}, host.unit = u
               PROVE  /\ q.ran = 0 => host.got = <<>>
                      /\ q.ran > 0 /\ q.out = None => First(host.got, answer, Size)
                      /\ q.ran > 0 /\ q.out # None => /\ q.out = answer
                                                     /\ First(host.got, q.out, q.sent)
  BY DEF ReadsAt
<1>2. /\ BusTypes /\ PortFits(p) /\ ReadsAt(p, u, host) /\ Paced(host, still, hit)
      /\ OnceAt(p, u, host.request, host.sent) /\ host.request \in Frames
      /\ host.request.now /\ host.sent \in 0..Size /\ (p.out = None => p.sent = 0)
  BY CleanFacts DEF QuietAt, Passing
<1>3. /\ p.ran = 0 => host.got = <<>>
      /\ p.ran > 0 /\ p.out = None => First(host.got, answer, Size)
      /\ p.ran > 0 /\ p.out # None => p.out = answer /\ First(host.got, p.out, p.sent)
  BY <1>1, <1>2 DEF ReadsAt
<1>4. ~ hit /\ IsFor(host, u) /\ host.request.to = u /\ u # Broadcast
  BY <1>1, <1>2, NoBroadcastUnit DEF Paced, IsFor
<1>5. answer # None
  BY AnswerIs, NoneAssumption
<1>6. CASE Over(p)
  <2>1. Rests(q) /\ q.ran = p.ran /\ (p.out # None => p.sent = Size)
    BY <1>4, <1>6, OverNode
  <2> HIDE DEF p, q, answer
  <2> QED
    BY <1>3, <2>1 DEF Rests
<1>7. CASE ~ Over(p)
  <2>1. p.ran = 0 /\ p.out = None /\ host.got = <<>> /\ p.sent = 0
    <3>1. p.ran = 0 /\ p.out = None
      BY <1>4, <1>7, HearingIs
    <3> QED
      BY <1>2, <1>3, <3>1
  <2>2. CASE TakeOne(u)
    <3>1. q.ran = 0
      BY <1>4, <2>2, CleanTake
    <3> QED
      BY <2>1, <3>1
  <2>3. CASE PassEnds(u)
    <3>1. /\ q.sent = p.sent
          /\ q.ran = p.ran \/ (q.out = OutOf(u, p.rtu) /\ q.ran = RanOf(u, p.rtu, p.ran))
      BY <1>2, <2>3, PassEndsIs
    <3>2. CASE q.ran = p.ran
      BY <2>1, <3>2
    <3>3. CASE q.ran # p.ran
      <4>1. q.out = OutOf(u, p.rtu) /\ Ours(p.rtu, u) /\ p.rtu.rx[1].frame.now
        BY <3>1, <3>3 DEF RanOf
      <4>2. p.rtu.rx[1].frame = host.request
        BY <1>2, <4>1, Executes
      <4>3. q.out = answer
        BY <1>2, <1>4, <4>1, <4>2 DEF OutOf
      <4>4. q.sent = 0 /\ First(host.got, q.out, 0)
        BY <2>1, <3>1, FirstNone
      <4>5. q.ran # 0
        BY <2>1, <3>3
      <4> QED
        BY <1>5, <4>3, <4>4, <4>5
    <3> QED
      BY <3>2, <3>3
  <2>4. CASE Sent(u)
    BY <1>2, <2>1, <2>4, SentIs
  <2> QED
    BY <2>2, <2>3, <2>4 DEF Node
<1> QED
  BY <1>6, <1>7

\* A node's step leaves it clean, and the others as they were.
LEMMA CleanNode ==
    ASSUME NEW Passes, Timely(Passes), CleanInv(Passes), NEW u \in Units, Node(u)
    PROVE  /\ Paced(host', still', hit')
           /\ \A v \in Units : CleanAt(port'[v], v, host', still', hit')
<1>1. Alone(u)
  BY CleanFacts, TakeOneIs, PassEndsIs, SentIs DEF Node
<1>2. /\ host' = host /\ still' = still /\ hit' = hit
      /\ \A v \in Units \ {u} : port'[v] = port[v]
  BY <1>1 DEF Alone
<1>3. ~ hit => Clean(port'[u], still) /\ WordAt(port'[u], u, host, still)
  BY CleanTake, CleanPass, CleanSent DEF Node
<1>4. CleanAt(port'[u], u, host, still, hit)
  BY <1>3, TidyNode, ReadsNode DEF CleanAt
<1> QED
  BY <1>2, <1>4 DEF CleanInv

-----------------------------------------------------------------------------
(* A character's time, for a clean node.                                   *)

\* Without noise the line carries the host's next character, or the next of the
\* answer the host waits for, or nothing.
LEMMA LineClean ==
    ASSUME NEW Passes, CleanInv(Passes), Tick(FALSE)
    PROVE  LET c == LineChar(FALSE)
               p == port[host.unit]
           IN /\ c # Garbage
              /\ \/ c = None /\ Sending = {} /\ host.pc # "send"
                 \/ HostSends /\ Sending = {} /\ c = Char(host.request, host.sent + 1)
                 \/ /\ host.pc = "wait" /\ Sending = {host.unit} /\ host.request.to = host.unit
                    /\ c = Char(p.out, p.sent + 1) /\ p.ran > 0
<1>1. /\ BusTypes /\ (host.pc = "send" => HostSends) /\ host.request \in Frames
      /\ host.sent \in 0..Size /\ HostOwn(host, still)
  BY TickDoes, CleanFacts DEF CleanInv, OwnInv, OnceInv, BusTypes, HostFits, HostState
<1>2. ASSUME NEW v \in Sending
      PROVE  /\ host.pc = "wait" /\ host.unit = v /\ host.request.to = v
             /\ port[v].ran > 0 /\ port[v].out \in Frames
  <2>1. v \in Units /\ port[v].out # None /\ port[v].sent < Size
    BY DEF Sending
  <2>2. /\ OwnAt(port[v], v, host.pc, host.request, still)
        /\ OnceAt(port[v], v, host.request, host.sent) /\ PortFits(port[v])
    BY <2>1, CleanFacts
  <2>3. host.pc \in {"send", "wait"} /\ host.request.to = v /\ port[v].ran > 0
    BY <2>1, <2>2 DEF OwnAt
  <2>4. host.sent = Size
    BY <2>2, <2>3 DEF OnceAt, Acted
  <2>5. ~ HostSends
    BY <2>4, ConstantsAre DEF HostSends
  <2>6. port[v].out \in Frames
    BY <2>1, <2>2, PortIs
  <2> QED
    BY <1>1, <2>3, <2>5, <2>6 DEF HostOwn
<1>3. \A f \in Frames : \A k : Char(f, k) # Garbage
  <2>1. ASSUME NEW f \in Frames, NEW k, Char(f, k) = Garbage PROVE FALSE
    <3>1. Char(f, k).frame = f /\ Garbage.frame = None
      BY DEF Char, Garbage
    <3> QED
      BY <2>1, <3>1, NoneAssumption
  <2> QED
    BY <2>1
<1>4. CASE Sending = {}
  <2>1. CASE HostSends
    <3>1. LineChar(FALSE) = Char(host.request, host.sent + 1)
      BY <1>4, <2>1 DEF LineChar, Carried
    <3> QED
      BY <1>1, <1>3, <1>4, <2>1, <3>1
  <2>2. CASE ~ HostSends
    <3>1. Cardinality(Sending) # 1
      BY <1>4, FS_EmptySet
    <3>2. LineChar(FALSE) = None
      BY <1>4, <2>2, <3>1 DEF LineChar, Carried
    <3>3. None # Garbage
      BY CharsAre, NoneAssumption
    <3> QED
      BY <1>1, <1>4, <2>2, <3>2, <3>3
  <2> QED
    BY <2>1, <2>2
<1>5. CASE Sending # {}
  <2>1. PICK v \in Sending : TRUE
    BY <1>5
  <2>2. Sending = {host.unit} /\ v = host.unit
    BY <1>2, <2>1
  <2>3. Cardinality(Sending) = 1
    BY <2>2, FS_Singleton
  <2>4. host.pc = "wait" /\ ~ HostSends
    BY <1>2, <2>1 DEF HostSends
  <2> DEFINE w == CHOOSE x \in Sending : TRUE
  <2>5. w = host.unit
    BY <2>2
  <2>6. LineChar(FALSE) = Char(port[w].out, port[w].sent + 1)
    BY <2>3, <2>4 DEF LineChar, Carried
  <2> HIDE DEF w
  <2>7. port[host.unit].out \in Frames /\ port[host.unit].ran > 0 /\ host.request.to = host.unit
    BY <1>2, <2>1, <2>2
  <2> QED
    BY <1>3, <2>2, <2>4, <2>5, <2>6, <2>7
<1> QED
  BY <1>4, <1>5

LEMMA TidyTick ==
    ASSUME NEW Passes, CleanInv(Passes), NEW noisy \in BOOLEAN, Tick(noisy), NEW u \in Units
    PROVE  Tidy(port'[u])
<1> DEFINE p == port[u]
           q == port'[u]
           c == LineChar(noisy)
<1>1. BusTypes /\ PortFits(p) /\ Tidy(p)
  BY CleanFacts
<1>2. /\ PortFits(q) /\ q.taken = p.taken /\ (q.held = None) = (p.held = None)
      /\ q.rtu.receiving = p.rtu.receiving
      /\ q.fault = (p.fault \/ (c # None /\ (noisy \/ c = Garbage)))
      /\ Len(q.ring) = Len(p.ring) + IF c # None /\ Len(p.ring) < Ring THEN 1 ELSE 0
  <2>1. LET P == port[u]
            Q == port'[u]
            C == LineChar(noisy)
        IN /\ PortFits(Q) /\ Q.taken = P.taken /\ (Q.held = None) = (P.held = None)
           /\ Q.rtu.receiving = P.rtu.receiving
           /\ Q.fault = (P.fault \/ (C # None /\ (noisy \/ C = Garbage)))
           /\ Len(Q.ring) = Len(P.ring) + IF C # None /\ Len(P.ring) < Ring THEN 1 ELSE 0
    BY <1>1, PortHeard, ZenonT(60)
  <2> QED
    BY <2>1
<1>3. p.ring \in Seq(Stamped) /\ Len(p.ring) \in Nat /\ Len(p.ring) <= Ring /\ Ring \in Nat \ {0}
  BY <1>1, PortIs, ConstantsAre
<1> HIDE DEF p, q, c
<1>4. q.fault => q.ring # <<>>
  <2>1. SUFFICES ASSUME q.fault PROVE Len(q.ring) # 0
    OBVIOUS
  <2>2. p.fault => Len(p.ring) # 0
    BY <1>1, <1>3, EmptySeq DEF Tidy
  <2>3. CASE c # None /\ Len(p.ring) < Ring
    BY <1>2, <1>3, <2>3
  <2>4. CASE ~ (c # None /\ Len(p.ring) < Ring)
    <3>1. Len(q.ring) = Len(p.ring) + 0
      BY <1>2, <2>4
    <3>2. p.fault \/ c # None
      BY <1>2, <2>1, Zenon
    <3>3. c # None => Len(p.ring) # 0
      BY <1>3, <2>4
    <3> QED
      BY <1>3, <2>2, <3>1, <3>2, <3>3
  <2> QED
    BY <2>3, <2>4
<1> QED
  BY <1>1, <1>2, <1>4 DEF Tidy, q

\* A character of the answer is one more of what the host has.
LEMMA ReadsTick ==
    ASSUME NEW Passes, CleanInv(Passes), NEW noisy \in BOOLEAN, Tick(noisy), NEW u \in Units
    PROVE  ReadsAt(port'[u], u, host')
<1> DEFINE p == port[u]
           q == port'[u]
           c == LineChar(noisy)
           answer == Answer(u, TRUE)
<1>1. /\ BusTypes /\ PortFits(p) /\ ReadsAt(p, u, host) /\ host.got \in Seq(Chars)
  BY CleanFacts DEF BusTypes, HostFits, HostState
<1>2. /\ host'.pc = host.pc /\ host'.unit = host.unit /\ host'.harmed = (host.harmed \/ noisy)
      /\ host'.got = IF /\ host.pc \in {"wait", "idle"} /\ c # None
                        /\ Len(host.got) <= Size
                     THEN Append(host.got, c) ELSE host.got
      /\ (host.pc = "send" => HostSends)
  BY <1>1, TickDoes
<1>3. q.ran = p.ran /\ q.out = p.out /\ q.sent = IF u \in Sending THEN p.sent + 1 ELSE p.sent
  BY <1>1, PortHeard
<1>4. p.sent \in 0..Size /\ Size \in Nat
  BY <1>1, PortIs, ConstantsAre
<1>5. SUFFICES ASSUME ~ host'.harmed, host'.pc \in {"send", "wait"}, host'.unit = u
               PROVE  /\ q.ran = 0 => host'.got = <<>>
                      /\ q.ran > 0 /\ q.out = None => First(host'.got, answer, Size)
                      /\ q.ran > 0 /\ q.out # None => /\ q.out = answer
                                                     /\ First(host'.got, q.out, q.sent)
  BY DEF ReadsAt
<1>6. ~ noisy /\ ~ host.harmed /\ host.pc \in {"send", "wait"} /\ host.unit = u
  BY <1>2, <1>5
<1>7. /\ p.ran = 0 => host.got = <<>>
      /\ p.ran > 0 /\ p.out = None => First(host.got, answer, Size)
      /\ p.ran > 0 /\ p.out # None => p.out = answer /\ First(host.got, p.out, p.sent)
  BY <1>1, <1>6 DEF ReadsAt
<1>8. \/ c = None /\ Sending = {} /\ host.pc # "send"
      \/ HostSends /\ Sending = {}
      \/ host.pc = "wait" /\ u \in Sending /\ c = Char(p.out, p.sent + 1) /\ p.ran > 0 /\ c # None
  <2>1. noisy = FALSE
    BY <1>6
  <2>2. LineChar(FALSE) \in Chars \cup {None}
    BY <1>1, <2>1, TickDoes
  <2>3. /\ p.out # None /\ u \in Sending /\ c = Char(p.out, p.sent + 1) => c # None
    <3>1. SUFFICES ASSUME u \in Sending, p.out # None, c = Char(p.out, p.sent + 1)
                   PROVE  c # None
      OBVIOUS
    <3>2. p.out \in Frames /\ p.sent + 1 \in 0..Size
      BY <1>1, <1>4, <3>1, PortIs DEF Sending
    <3> QED
      BY <3>1, <3>2, CharsAre
  <2>4. u \in Sending => p.out # None
    BY DEF Sending
  <2> QED
    BY <1>6, <2>1, <2>3, <2>4, LineClean
<1>9. u \in Sending => p.out # None /\ p.sent < Size
  BY DEF Sending
<1> HIDE DEF p, q, c, answer
<1>10. CASE Sending = {} /\ (c = None \/ HostSends)
  <2>1. host'.got = host.got
    BY <1>2, <1>10 DEF HostSends
  <2>2. q.sent = p.sent
    BY <1>3, <1>10
  <2> QED
    BY <1>3, <1>7, <2>1, <2>2
<1>11. CASE host.pc = "wait" /\ u \in Sending /\ c = Char(p.out, p.sent + 1) /\ p.ran > 0 /\ c # None
  <2>1. p.out = answer /\ First(host.got, p.out, p.sent) /\ p.out # None
    BY <1>7, <1>9, <1>11
  <2>2. Len(host.got) <= Size
    BY <1>4, <2>1 DEF First
  <2>3. host'.got = Append(host.got, Char(p.out, p.sent + 1))
    BY <1>2, <1>11, <2>2
  <2>4. First(host'.got, p.out, p.sent + 1)
    BY <1>1, <1>4, <2>1, <2>3, FirstMore
  <2>5. q.sent = p.sent + 1
    BY <1>3, <1>11
  <2>6. q.ran # 0
    BY <1>3, <1>11
  <2> QED
    BY <1>3, <2>1, <2>4, <2>5, <2>6
<1> QED
  BY <1>8, <1>10, <1>11

\* A host that sends is heard.
LEMMA LineSends ==
    ASSUME BusTypes, NEW noisy \in BOOLEAN, LineChar(noisy) = None
    PROVE  ~ HostSends
<1>1. host.request \in Frames /\ host.sent \in 0..Size
  BY DEF BusTypes, HostFits, HostState
<1>2. Garbage # None
  BY CharsAre
<1>3. HostSends => Char(host.request, host.sent + 1) # None
  <2>1. HostSends => host.sent + 1 \in 0..Size
    BY <1>1, ConstantsAre DEF HostSends
  <2> QED
    BY <1>1, <2>1, CharsAre
<1> QED
  BY <1>2, <1>3, LineIs

\* The silence the host counts is never longer than the line's.
LEMMA PacedTick ==
    ASSUME NEW Passes, CleanInv(Passes), NEW noisy \in BOOLEAN, Tick(noisy)
    PROVE  Paced(host', still', hit')
<1> DEFINE c == LineChar(noisy)
<1>1. /\ BusTypes /\ Paced(host, still, hit) /\ host.quiet \in 0..(Timeout + Gap)
      /\ still \in 0..Calm /\ host.sent \in 0..Size /\ hit \in BOOLEAN /\ host.harmed \in BOOLEAN
  BY DEF CleanInv, OwnInv, OnceInv, BusTypes, HostFits, HostState
<1>2. /\ host'.pc = host.pc /\ host'.request = host.request /\ host'.unit = host.unit
      /\ host'.proven = host.proven
      /\ host'.sent = IF HostSends THEN host.sent + 1 ELSE host.sent
      /\ host'.quiet = IF host.pc = "wait" /\ c # None THEN 0
                       ELSE Lesser(host.quiet + 1, Timeout + Gap)
      /\ host'.harmed = (host.harmed \/ noisy)
      /\ still' = IF c = None THEN Lesser(still + 1, Calm) ELSE 0
      /\ hit' = (noisy \/ (hit /\ ~ (still' >= T35 /\ \A u \in Units : AtRest(u))))
      /\ host.pc = "send" => HostSends
  BY <1>1, TickDoes
<1>3. HostSends => host.pc = "send"
  BY DEF HostSends
<1>4. c = None => ~ HostSends
  BY <1>1, LineSends
<1>5. ~ noisy /\ c # None /\ host.pc # "send" => host.pc = "wait"
  <2>1. SUFFICES ASSUME noisy = FALSE, c # None, host.pc # "send" PROVE host.pc = "wait"
    OBVIOUS
  <2> QED
    BY <1>3, <2>1, LineClean
<1>6. /\ T35 \in Nat /\ Calm \in Nat /\ T35 <= Calm /\ Timeout \in Nat /\ Gap \in Nat /\ Settle \in Nat
      /\ T35 > 0
  BY ConstantsAre
<1>7. Lesser(still + 1, Calm) = (IF still < Calm THEN still + 1 ELSE Calm)
  BY <1>1, <1>6 DEF Lesser
<1>8. Lesser(host.quiet + 1, Timeout + Gap)
        = (IF host.quiet < Timeout + Gap THEN host.quiet + 1 ELSE Timeout + Gap)
  BY <1>1, <1>6 DEF Lesser
<1> HIDE DEF c
<1>9. host.unit # None => /\ host.unit = host.request.to /\ host.proven = host.request.hinted
                          /\ host.pc # "send" => host'.sent = Size
  BY <1>1, <1>2, <1>3 DEF Paced
<1>10. host.unit = None => host.pc = "idle" /\ ~ host.proven
  BY <1>1 DEF Paced
<1>11. host.pc = "send" => still' = 0
  BY <1>2, <1>4
<1>12. host.pc = "idle" /\ host.unit = Broadcast => host'.quiet >= Settle
  <2>1. SUFFICES ASSUME host.pc = "idle", host.unit = Broadcast PROVE host'.quiet >= Settle
    OBVIOUS
  <2>2. host.quiet >= Settle
    BY <1>1, <2>1 DEF Paced
  <2>3. host'.quiet = Lesser(host.quiet + 1, Timeout + Gap)
    BY <1>2, <2>1
  <2> QED
    BY <1>1, <1>6, <1>8, <2>2, <2>3
<1>13. hit' => host'.harmed
  BY <1>1, <1>2 DEF Paced
<1>14. ~ hit' /\ host.pc # "send" => still' >= T35 \/ host'.quiet <= still'
  <2>1. SUFFICES ASSUME ~ hit', host.pc # "send" PROVE still' >= T35 \/ host'.quiet <= still'
    OBVIOUS
  <2>2. ~ noisy /\ (hit => still' >= T35)
    BY <1>2, <2>1
  <2>3. CASE c # None
    <3>1. host'.quiet = 0 /\ still' = 0
      BY <1>2, <1>5, <2>1, <2>2, <2>3
    <3> QED
      BY <3>1
  <2>4. CASE c = None /\ ~ hit
    <3>1. still >= T35 \/ host.quiet <= still
      BY <1>1, <2>1, <2>4 DEF Paced
    <3>2. /\ still' = (IF still < Calm THEN still + 1 ELSE Calm)
          /\ host'.quiet = (IF host.quiet < Timeout + Gap THEN host.quiet + 1 ELSE Timeout + Gap)
      BY <1>2, <1>7, <1>8, <2>4
    <3>3. CASE still >= T35
      BY <1>1, <1>6, <3>2, <3>3
    <3>4. CASE host.quiet <= still
      BY <1>1, <1>6, <3>2, <3>4
    <3> QED
      BY <3>1, <3>3, <3>4
  <2> QED
    BY <2>2, <2>3, <2>4
<1> QED
  BY <1>2, <1>9, <1>10, <1>11, <1>12, <1>13, <1>14 DEF Paced

\* What a character's time does to a node, the line's character aside.
Ticked(p, q) ==
    /\ \A d \in Kept(q) : d \in Kept(p)
    /\ q.rtu.receiving = p.rtu.receiving /\ q.rtu.rx = p.rtu.rx /\ q.rtu.bad = p.rtu.bad
    /\ q.rtu.receiving => q.rtu.last = p.rtu.last + 1
    /\ q.out = p.out /\ q.taken = p.taken /\ q.ran = p.ran
    /\ (q.held = None) = (p.held = None)

\* A request's characters grow older.
LEMMA HeardQuiet ==
    ASSUME NEW p, PortFits(p), NEW q, PortFits(q), Ticked(p, q), Len(q.ring) = Len(p.ring),
           \A i \in DOMAIN q.ring : /\ i \in DOMAIN p.ring /\ q.ring[i].char = p.ring[i].char
                                   /\ q.ring[i].at = p.ring[i].at + 1,
           NEW request, NEW n \in Nat \ {0}, NEW j \in 0..n, NEW silence \in Nat,
           HeardTo(p, request, n, j, silence)
    PROVE  HeardTo(q, request, n, j, silence + 1)
<1>1. /\ p.rtu.last \in Nat /\ q.rtu.last \in Nat /\ n # 0 /\ j \in Nat /\ T35 \in Nat
      /\ \A i \in DOMAIN q.ring : i \in Int
  <2>1. q.ring \in Seq(Stamped)
    BY PortIs
  <2>2. \A i \in DOMAIN q.ring : i \in Int
    BY <2>1
  <2> QED
    BY <2>2, PortIs, ConstantsAre
<1>2. Len(q.ring) = n - j
  BY DEF HeardTo
<1>3. ASSUME NEW i \in DOMAIN q.ring
      PROVE  q.ring[i].char = Char(request, j + i) /\ q.ring[i].at = n - (j + i) + (silence + 1)
  <2>1. /\ i \in DOMAIN p.ring /\ q.ring[i].char = p.ring[i].char
        /\ q.ring[i].at = p.ring[i].at + 1 /\ i \in Int
    BY <1>1, <1>3
  <2>2. p.ring[i].char = Char(request, j + i) /\ p.ring[i].at = n - (j + i) + silence
    BY <2>1 DEF HeardTo
  <2>3. n - (j + i) + silence + 1 = n - (j + i) + (silence + 1)
    BY <1>1, <2>1
  <2> QED
    BY <2>1, <2>2, <2>3
<1>4. j = 0 => /\ \A c \in Kept(q) : c.frame # request
               /\ q.rtu.receiving =>
                    q.rtu.last >= IF n = 0 THEN T35 ELSE T35 + n + (silence + 1)
  <2>1. SUFFICES ASSUME j = 0
                 PROVE  /\ \A c \in Kept(q) : c.frame # request
                        /\ q.rtu.receiving => q.rtu.last >= T35 + n + (silence + 1)
    BY <1>1
  <2>2. /\ \A c \in Kept(p) : c.frame # request
        /\ p.rtu.receiving => p.rtu.last >= T35 + n + silence
    BY <1>1, <2>1 DEF HeardTo
  <2>3. q.rtu.receiving => p.rtu.receiving /\ q.rtu.last = p.rtu.last + 1
    BY DEF Ticked
  <2> QED
    BY <1>1, <2>2, <2>3 DEF Ticked
<1>5. j > 0 => /\ q.rtu.receiving /\ ~ q.rtu.bad /\ q.rtu.last = n - j + (silence + 1)
               /\ First(q.rtu.rx, request, j)
  <2>1. SUFFICES ASSUME j > 0
                 PROVE  /\ q.rtu.receiving /\ ~ q.rtu.bad /\ q.rtu.last = n - j + (silence + 1)
                        /\ First(q.rtu.rx, request, j)
    OBVIOUS
  <2>2. /\ p.rtu.receiving /\ ~ p.rtu.bad /\ p.rtu.last = n - j + silence
        /\ First(p.rtu.rx, request, j)
    BY <2>1 DEF HeardTo
  <2>3. /\ q.rtu.receiving /\ ~ q.rtu.bad /\ q.rtu.last = p.rtu.last + 1 /\ q.rtu.rx = p.rtu.rx
    BY <2>2 DEF Ticked
  <2> QED
    BY <1>1, <2>2, <2>3
<1> QED
  BY <1>2, <1>3, <1>4, <1>5 DEF HeardTo

\* The request's next character comes.
LEMMA HeardSend ==
    ASSUME NEW p, PortFits(p), NEW q, PortFits(q), Ticked(p, q), Len(q.ring) = Len(p.ring) + 1,
           NEW request, NEW n \in Nat, NEW j \in 0..n, NEW silence \in Nat,
           n = 0 \/ silence = 0,
           \A i \in DOMAIN q.ring :
              \/ /\ i \in DOMAIN p.ring /\ q.ring[i].char = p.ring[i].char
                 /\ q.ring[i].at = p.ring[i].at + 1
              \/ /\ i = Len(p.ring) + 1
                 /\ q.ring[i].char = Char(request, n + 1) /\ q.ring[i].at = 0,
           HeardTo(p, request, n, j, silence)
    PROVE  HeardTo(q, request, n + 1, j, 0)
<1>1. /\ p.rtu.last \in Nat /\ q.rtu.last \in Nat /\ j \in Nat /\ T35 \in Nat
      /\ DOMAIN p.ring = 1..Len(p.ring) /\ Len(p.ring) \in Nat
      /\ \A i \in DOMAIN q.ring : i \in Int
  <2>1. q.ring \in Seq(Stamped) /\ p.ring \in Seq(Stamped)
    BY PortIs
  <2>2. DOMAIN p.ring = 1..Len(p.ring) /\ Len(p.ring) \in Nat /\ \A i \in DOMAIN q.ring : i \in Int
    BY <2>1
  <2> QED
    BY <2>2, PortIs, ConstantsAre
<1>2. Len(p.ring) = n - j /\ Len(q.ring) = (n + 1) - j
  BY <1>1 DEF HeardTo
<1>3. ASSUME NEW i \in DOMAIN q.ring
      PROVE  q.ring[i].char = Char(request, j + i) /\ q.ring[i].at = (n + 1) - (j + i) + 0
  <2>1. i \in Int
    BY <1>1
  <2>2. CASE /\ i \in DOMAIN p.ring /\ q.ring[i].char = p.ring[i].char
             /\ q.ring[i].at = p.ring[i].at + 1
    <3>1. p.ring[i].char = Char(request, j + i) /\ p.ring[i].at = n - (j + i) + silence
      BY <2>2 DEF HeardTo
    <3>2. n # 0
      BY <1>1, <1>2, <2>1, <2>2
    <3>3. n - (j + i) + silence + 1 = (n + 1) - (j + i) + 0
      BY <1>1, <2>1, <3>2
    <3> QED
      BY <2>2, <3>1, <3>3
  <2>3. CASE /\ i = Len(p.ring) + 1
             /\ q.ring[i].char = Char(request, n + 1) /\ q.ring[i].at = 0
    <3>1. j + i = n + 1 /\ 0 = (n + 1) - (j + i) + 0
      BY <1>1, <1>2, <2>1, <2>3
    <3> QED
      BY <2>3, <3>1
  <2> QED
    BY <2>2, <2>3
<1>4. j = 0 => /\ \A c \in Kept(q) : c.frame # request
               /\ q.rtu.receiving =>
                    q.rtu.last >= IF n + 1 = 0 THEN T35 ELSE T35 + (n + 1) + 0
  <2>1. SUFFICES ASSUME j = 0
                 PROVE  /\ \A c \in Kept(q) : c.frame # request
                        /\ q.rtu.receiving => q.rtu.last >= T35 + (n + 1) + 0
    BY <1>1
  <2>2. /\ \A c \in Kept(p) : c.frame # request
        /\ p.rtu.receiving => p.rtu.last >= T35 + n
    BY <1>1, <2>1 DEF HeardTo
  <2>3. q.rtu.receiving => p.rtu.receiving /\ q.rtu.last = p.rtu.last + 1
    BY DEF Ticked
  <2> QED
    BY <1>1, <2>2, <2>3 DEF Ticked
<1>5. j > 0 => /\ q.rtu.receiving /\ ~ q.rtu.bad /\ q.rtu.last = (n + 1) - j + 0
               /\ First(q.rtu.rx, request, j)
  <2>1. SUFFICES ASSUME j > 0
                 PROVE  /\ q.rtu.receiving /\ ~ q.rtu.bad /\ q.rtu.last = (n + 1) - j + 0
                        /\ First(q.rtu.rx, request, j)
    OBVIOUS
  <2>2. /\ p.rtu.receiving /\ ~ p.rtu.bad /\ p.rtu.last = n - j + silence
        /\ First(p.rtu.rx, request, j)
    BY <2>1 DEF HeardTo
  <2>3. /\ q.rtu.receiving /\ ~ q.rtu.bad /\ q.rtu.last = p.rtu.last + 1 /\ q.rtu.rx = p.rtu.rx
    BY <2>2 DEF Ticked
  <2>4. silence = 0
    BY <1>1, <2>1
  <2> QED
    BY <1>1, <2>2, <2>3, <2>4
<1> QED
  BY <1>2, <1>3, <1>4, <1>5 DEF HeardTo

\* PortHeard and RingHeard together.
LEMMA TickedIs ==
    ASSUME BusTypes, NEW noisy \in BOOLEAN, Tick(noisy), NEW u \in Units
    PROVE  /\ Ticked(port[u], port'[u]) /\ PortFits(port'[u])
           /\ port'[u].since = IF port[u].out = None \/ port[u].sent = Size
                               THEN port[u].since + 1 ELSE 0
<1> DEFINE p == port[u]
           q == port'[u]
<1>1. \A d \in Kept(q) : d \in Kept(p)
  BY RingHeard
<1>2. /\ PortFits(q)
      /\ q.out = p.out /\ q.taken = p.taken /\ q.ran = p.ran
      /\ (q.held = None) = (p.held = None)
      /\ q.since = IF p.out = None \/ p.sent = Size THEN p.since + 1 ELSE 0
      /\ q.rtu.receiving = p.rtu.receiving /\ q.rtu.rx = p.rtu.rx /\ q.rtu.bad = p.rtu.bad
      /\ q.rtu.receiving => q.rtu.last = p.rtu.last + 1
  BY PortHeard
<1> HIDE DEF p, q
<1>3. Ticked(p, q)
  BY <1>1, <1>2 DEF Ticked
<1> QED
  BY <1>2, <1>3 DEF p, q

\* Line and nodes have been at rest: the noise is over.
LEMMA ClearTick ==
    ASSUME NEW Passes, CleanInv(Passes), Tick(FALSE), hit, ~ hit', NEW u \in Units
    PROVE  Clean(port'[u], still') /\ WordAt(port'[u], u, host', still')
<1> DEFINE p == port[u]
           q == port'[u]
           c == LineChar(FALSE)
<1>1. BusTypes /\ PortFits(p) /\ Tidy(p) /\ Shape(p, u) /\ Paced(host, still, hit)
  BY CleanFacts
<1>2. /\ still' = (IF c = None THEN Lesser(still + 1, Calm) ELSE 0)
      /\ still' >= T35 /\ AtRest(u)
      /\ host'.pc = host.pc /\ host'.harmed = (host.harmed \/ FALSE)
  <2>1. LET C == LineChar(FALSE)
        IN /\ still' = IF C = None THEN Lesser(still + 1, Calm) ELSE 0
           /\ hit' = (FALSE \/ (hit /\ ~ (still' >= T35 /\ \A w \in Units : AtRest(w))))
           /\ host'.pc = host.pc /\ host'.harmed = (host.harmed \/ FALSE)
    BY <1>1, TickDoes, ZenonT(60)
  <2> HIDE DEF c
  <2>2. still' >= T35 /\ AtRest(u)
    BY <2>1
  <2> QED
    BY <2>1, <2>2 DEF c
<1>3. c = None /\ host.pc # "send"
  <2>1. c # None => still' = 0
    BY <1>2
  <2>2. ~ (0 >= T35)
    BY ConstantsAre
  <2>3. c = None
    <3> HIDE DEF c
    <3> QED
      BY <1>2, <2>1, <2>2
  <2>4. host.pc = "send" => HostSends
    BY <1>1, TickDoes
  <2> QED
    BY <1>1, <2>3, <2>4, LineSends
<1>4. Rests(p) /\ ~ p.fault /\ p.held = None /\ p.taken = 0
  <2>1. p.ring = <<>> /\ ~ p.rtu.receiving /\ p.out = None
    BY <1>2 DEF AtRest, Looping
  <2> QED
    BY <1>1, <2>1 DEF Rests, Tidy, Shape
<1>5. Ticked(p, q) /\ PortFits(q)
  BY <1>1, TickedIs
<1>6. /\ q.fault = (p.fault \/ (c # None /\ (FALSE \/ c = Garbage)))
      /\ Len(q.ring) = Len(p.ring) + IF c # None /\ Len(p.ring) < Ring THEN 1 ELSE 0
  BY <1>1, PortHeard
<1> HIDE DEF p, q, c
<1>7. q.ring = <<>> /\ Len(q.ring) = 0 /\ DOMAIN q.ring = {}
  <2>1. Len(p.ring) = 0 /\ q.ring \in Seq(Stamped)
    BY <1>4, <1>5, PortIs DEF Rests
  <2>2. Len(q.ring) = 0
    BY <1>3, <1>6, <2>1
  <2>3. q.ring = <<>>
    BY <2>1, <2>2, EmptySeq
  <2> QED
    BY <2>2, <2>3
<1>8. Rests(q) /\ q.held = None /\ q.taken = 0 /\ ~ q.fault /\ q.since \in Nat
  BY <1>3, <1>4, <1>5, <1>6, <1>7, PortIs DEF Ticked, Rests
<1>9. Clean(q, still')
  BY <1>7, <1>8 DEF Clean, Rests
<1>10. host.harmed
  BY <1>1 DEF Paced
<1>11. WordAt(q, u, host', still')
  BY <1>2, <1>3, <1>8, <1>10 DEF WordAt, Over
<1> QED
  BY <1>9, <1>11 DEF q

\* A node that is not answering keeps up, and has what the line says of a
\* request for it.
LEMMA StillTick ==
    ASSUME NEW Passes, Timely(Passes), CleanInv(Passes), Tick(FALSE), ~ hit, NEW u \in Units
    PROVE  Clean(port'[u], still') /\ WordAt(port'[u], u, host', still')
<1> DEFINE p == port[u]
           q == port'[u]
           c == LineChar(FALSE)
           request == host.request
           n == host.sent
           more == host'.sent
<1>1. /\ BusTypes /\ PortFits(p) /\ Clean(p, still) /\ WordAt(p, u, host, still)
      /\ OnceAt(p, u, request, n) /\ Paced(host, still, hit) /\ HostOwn(host, still)
      /\ n \in 0..Size /\ still \in 0..Calm
  BY CleanFacts
<1>2. /\ still' = (IF c = None THEN Lesser(still + 1, Calm) ELSE 0)
      /\ more = (IF HostSends THEN n + 1 ELSE n)
      /\ host'.pc = host.pc /\ host'.harmed = (host.harmed \/ FALSE)
      /\ host'.request = request /\ host'.unit = host.unit /\ InTime(u)
  <2>1. LET C == LineChar(FALSE)
        IN /\ still' = IF C = None THEN Lesser(still + 1, Calm) ELSE 0
           /\ host'.sent = IF HostSends THEN host.sent + 1 ELSE host.sent
           /\ host'.pc = host.pc /\ host'.harmed = (host.harmed \/ FALSE)
           /\ host'.request = host.request /\ host'.unit = host.unit
           /\ \A w \in Units : InTime(w)
    BY <1>1, TickDoes, ZenonT(60)
  <2> HIDE DEF c
  <2> QED
    BY <2>1 DEF c
<1>3. /\ Ticked(p, q) /\ PortFits(q)
      /\ q.since = IF p.out = None \/ p.sent = Size THEN p.since + 1 ELSE 0
  BY <1>1, TickedIs
<1>4. /\ q.fault = (p.fault \/ (c # None /\ (FALSE \/ c = Garbage)))
      /\ Len(q.ring) = Len(p.ring) + IF c # None /\ Len(p.ring) < Ring THEN 1 ELSE 0
      /\ \A i \in DOMAIN q.ring :
            \/ /\ i \in DOMAIN p.ring /\ q.ring[i].char = p.ring[i].char
               /\ q.ring[i].at = p.ring[i].at + 1
            \/ /\ i = Len(p.ring) + 1 /\ c # None
               /\ q.ring[i].char = c /\ q.ring[i].at = 0
  BY <1>1, PortHeard
<1>5. /\ c # Garbage
      /\ \/ c = None /\ Sending = {} /\ host.pc # "send"
         \/ HostSends /\ Sending = {} /\ c = Char(request, n + 1)
         \/ host.pc = "wait" /\ Sending = {host.unit} /\ request.to = host.unit
  BY LineClean
<1>6. (c = None => ~ HostSends) /\ (HostSends => host.pc = "send" /\ n < Size)
      /\ (host.pc = "send" => HostSends)
  BY <1>1, LineSends, TickDoes DEF HostSends
<1>7. /\ p.since \in Nat /\ p.taken \in Nat /\ Len(p.ring) \in Nat /\ p.rtu.last \in Nat
      /\ p.ring \in Seq(Stamped) /\ q.ring \in Seq(Stamped) /\ q.rtu.last \in Nat
      /\ p.ran \in Nat /\ p.sent \in 0..Size
      /\ \A i \in DOMAIN p.ring : p.ring[i].at \in Nat
  <2>1. p.taken \in 0..Take
    BY <1>1, PortIs
  <2>2. \A i \in DOMAIN p.ring : p.ring[i].at \in Nat
    BY <1>1, PortNumbers
  <2>3. PortFits(p) /\ PortFits(q)
    BY <1>1, <1>3
  <2> HIDE DEF p, q
  <2>4. /\ p.since \in Nat /\ Len(p.ring) \in Nat /\ p.rtu.last \in Nat
        /\ p.ring \in Seq(Stamped) /\ p.ran \in Nat /\ p.sent \in 0..Size
    BY <2>3, PortIs
  <2>5. q.ring \in Seq(Stamped) /\ q.rtu.last \in Nat
    BY <2>3, PortIs
  <2>6. p.taken \in Nat
    BY <2>1, ConstantsAre
  <2> QED
    BY <2>2, <2>4, <2>5, <2>6
<1>8. /\ p.out = None => p.since < Late /\ u \notin Sending
      /\ p.out # None => u \in Sending
  <2>1. Prompt
    BY TimelyIs
  <2>2. p.sent # Size => p.sent < Size
    BY <1>7, ConstantsAre
  <2> QED
    BY <1>2, <2>1, <2>2 DEF InTime, Sending
<1>9. Late <= Ring /\ Late \in Nat /\ Ring \in Nat /\ T35 \in Nat \ {0} /\ T35 + Late <= Calm
      /\ Calm \in Nat /\ Size \in Nat \ {0}
  <2>1. Late <= Ring
    BY TimelyIs
  <2> QED
    BY <2>1, ConstantsAre
<1>10. IsFor(host', u) = IsFor(host, u) /\ (IsFor(host, u) => request.to \in {u, Broadcast})
       /\ (IsFor(host, u) /\ host.pc # "send" => n = Size)
       /\ (host.pc = "send" /\ n > 0 => still = 0)
  BY <1>1, <1>2 DEF IsFor, Paced
<1>11. IsFor(host, u) =>
          \/ Hearing(p, request, n, still)
          \/ p.ran = 1 /\ Over(p)
          \/ Rests(p) /\ host.harmed /\ host.pc # "send"
  BY <1>1 DEF WordAt
<1>12. host.pc = "idle" /\ host.unit = u => Over(p)
  BY <1>1 DEF WordAt
<1>13. p.ran > 0 => n = Size
  BY <1>1 DEF OnceAt, Acted
<1>14. Broadcast # u
  BY NoBroadcastUnit
<1>15. Lesser(still + 1, Calm) = (IF still < Calm THEN still + 1 ELSE Calm)
  BY <1>1, <1>9 DEF Lesser
<1>16. p.out = None /\ p.rtu.receiving => p.rtu.last < T35 + p.since /\ still <= p.rtu.last
  BY <1>1 DEF Clean
<1>17. p.out = None => /\ Len(p.ring) + p.taken <= p.since
                       /\ \A k \in DOMAIN p.ring : p.ring[k].at < p.since
  BY <1>1 DEF Clean
<1>18. ~ q.fault /\ p.held = None
  BY <1>1, <1>4, <1>5 DEF Clean
<1> DEFINE word == /\ IsFor(host, u) =>
                        \/ Hearing(q, request, more, still')
                        \/ q.ran = 1 /\ Over(q)
                        \/ Rests(q) /\ host.harmed /\ host.pc # "send"
                   /\ host.pc = "idle" /\ host.unit = u => Over(q)
<1>19. word => WordAt(q, u, host', still')
  BY <1>2, <1>10 DEF WordAt
<1> HIDE DEF p, q, c, request, n, more
<1>20. CASE p.out # None
  <2>1. q.out # None /\ q.ran = p.ran /\ q.held = None
    BY <1>3, <1>18, <1>20 DEF Ticked
  <2>2. ~ Hearing(p, request, n, still) /\ ~ Rests(p)
    <3>1. p.sent < Size
      BY <1>8, <1>20 DEF Sending, p
    <3> QED
      BY <1>7, <1>9, <1>20, <3>1 DEF Hearing, Rests
  <2>3. Clean(q, still')
    BY <1>18, <2>1 DEF Clean
  <2>4. word
    BY <1>11, <2>1, <2>2 DEF Over
  <2> QED
    BY <1>19, <2>3, <2>4 DEF q
<1>21. CASE p.out = None
  <2>1. /\ q.out = None /\ q.ran = p.ran /\ q.held = None /\ q.taken = p.taken
        /\ q.rtu.receiving = p.rtu.receiving /\ (q.rtu.receiving => q.rtu.last = p.rtu.last + 1)
        /\ q.since = p.since + 1 /\ p.since < Late /\ Len(p.ring) < Ring
    <3>1. Len(p.ring) < Ring
      BY <1>7, <1>8, <1>9, <1>17, <1>21
    <3> QED
      BY <1>3, <1>8, <1>18, <1>21, <3>1 DEF Ticked
  <2>2. Clean(q, still')
    <3>1. Len(q.ring) + q.taken <= q.since
      <4>1. Len(q.ring) = Len(p.ring) \/ Len(q.ring) = Len(p.ring) + 1
        <5>1. CASE c # None /\ Len(p.ring) < Ring
          BY <1>4, <5>1
        <5>2. CASE ~ (c # None /\ Len(p.ring) < Ring)
          <6>1. Len(q.ring) = Len(p.ring) + 0
            BY <1>4, <5>2
          <6> QED
            BY <1>7, <6>1
        <5> QED
          BY <5>1, <5>2
      <4> QED
        BY <1>7, <1>17, <1>21, <2>1, <4>1
    <3>2. \A k \in DOMAIN q.ring : q.ring[k].at < q.since
      <4>1. ASSUME NEW k \in DOMAIN q.ring PROVE q.ring[k].at < q.since
        <5>1. CASE k \in DOMAIN p.ring /\ q.ring[k].at = p.ring[k].at + 1
          <6>1. p.ring[k].at < p.since /\ p.ring[k].at \in Nat
            BY <1>7, <1>17, <1>21, <5>1
          <6> QED
            BY <1>7, <2>1, <5>1, <6>1
        <5>2. CASE q.ring[k].at = 0
          BY <1>7, <2>1, <5>2
        <5> QED
          BY <1>4, <4>1, <5>1, <5>2
      <4> QED
        BY <4>1
    <3>3. q.rtu.receiving => q.rtu.last < T35 + q.since /\ still' <= q.rtu.last
      <4>1. SUFFICES ASSUME q.rtu.receiving
                     PROVE  q.rtu.last < T35 + q.since /\ still' <= q.rtu.last
        OBVIOUS
      <4>2. p.rtu.last < T35 + p.since /\ still <= p.rtu.last /\ q.rtu.last = p.rtu.last + 1
        BY <1>16, <1>21, <2>1, <4>1
      <4>3. still' <= still + 1
        BY <1>1, <1>2, <1>9, <1>15
      <4>4. still \in Nat /\ still' \in Nat
        BY <1>1, <1>2, <1>9, <1>15
      <4>5. T35 \in Nat /\ p.since \in Nat /\ p.rtu.last \in Nat /\ q.since = p.since + 1
        BY <1>7, <1>9, <2>1
      <4> QED
        BY <4>2, <4>3, <4>4, <4>5
    <3> QED
      BY <1>18, <2>1, <3>1, <3>2, <3>3 DEF Clean
  <2>3. Rests(p) /\ c = None => Rests(q)
    <3>1. SUFFICES ASSUME Rests(p), c = None PROVE Rests(q)
      OBVIOUS
    <3>2. Len(p.ring) = 0
      BY <3>1 DEF Rests
    <3>3. Len(q.ring) = 0
      BY <1>4, <3>1, <3>2
    <3>4. q.ring = <<>>
      BY <1>7, <3>3, EmptySeq
    <3> QED
      BY <2>1, <3>1, <3>4 DEF Rests
  <2>4. Over(p) <=> Rests(p)
    BY <1>21 DEF Over, Rests
  <2>5. host.pc = "idle" /\ host.unit = u => Over(q)
    <3>1. host.pc = "idle" => c = None
      BY <1>5, <1>6
    <3> QED
      BY <1>12, <2>3, <2>4, <3>1 DEF Over
  <2>6. ASSUME Hearing(p, request, n, still), n > 0, c = None, host.pc # "send", n = Size
        PROVE  Hearing(q, request, more, still')
    <3>1. PICK j \in 0..n : HeardTo(p, request, n, j, still)
      BY <1>21, <2>6 DEF Hearing
    <3>2. n \in Nat \ {0} /\ still \in Nat /\ more = n /\ j \in Nat /\ j <= n
      BY <1>1, <1>2, <1>6, <1>9, <2>6
    <3>3. still < Calm
      <4>1. CASE p.ring = <<>>
        <5>1. j = n /\ p.rtu.receiving
          BY <1>1, <2>6, <3>1, <4>1, HeardRest
        <5>2. still < T35 + p.since
          BY <1>7, <1>9, <1>16, <1>21, <3>2, <5>1
        <5> QED
          BY <1>7, <1>9, <2>1, <3>2, <5>2
      <4>2. CASE p.ring # <<>>
        <5>1. 1 \in DOMAIN p.ring /\ Len(p.ring) >= 1
          BY <1>7, <4>2, EmptySeq
        <5>2. Len(p.ring) = n - j /\ p.ring[1].at = n - (j + 1) + still
          BY <3>1, <5>1 DEF HeardTo
        <5>3. p.ring[1].at < p.since
          BY <1>17, <1>21, <5>1
        <5>4. still < Late
          BY <1>7, <1>9, <2>1, <3>2, <5>1, <5>2, <5>3
        <5> QED
          BY <1>9, <3>2, <5>4
      <4> QED
        BY <4>1, <4>2
    <3>4. still' = still + 1
      BY <1>2, <1>15, <2>6, <3>3
    <3>5. Len(q.ring) = Len(p.ring)
      BY <1>4, <1>7, <2>6
    <3>6. \A i \in DOMAIN q.ring : /\ i \in DOMAIN p.ring /\ q.ring[i].char = p.ring[i].char
                                   /\ q.ring[i].at = p.ring[i].at + 1
      BY <1>4, <2>6
    <3>7. HeardTo(q, request, n, j, still + 1)
      BY <1>1, <1>3, <3>1, <3>2, <3>5, <3>6, HeardQuiet
    <3>8. p.ran = 0 /\ (n = Size /\ request.hinted => still < p.since)
      BY <2>6 DEF Hearing
    <3>9. n = Size /\ request.hinted => still + 1 < q.since
      BY <1>7, <2>1, <3>2, <3>8
    <3> QED
      BY <2>1, <3>2, <3>4, <3>7, <3>8, <3>9 DEF Hearing
  <2>7. ASSUME Hearing(p, request, n, still), HostSends, c = Char(request, n + 1)
        PROVE  Hearing(q, request, more, still')
    <3>1. PICK j \in 0..n : HeardTo(p, request, n, j, still)
      BY <1>21, <2>7 DEF Hearing
    <3>2. n \in Nat /\ still \in Nat /\ more = n + 1 /\ c # None /\ still' = 0
          /\ (n = 0 \/ still = 0) /\ j \in 0..(n + 1)
      BY <1>1, <1>2, <1>6, <1>9, <1>10, <2>7
    <3>3. Len(q.ring) = Len(p.ring) + 1
      BY <1>4, <1>7, <2>1, <3>2
    <3>4. \A i \in DOMAIN q.ring :
              \/ /\ i \in DOMAIN p.ring /\ q.ring[i].char = p.ring[i].char
                 /\ q.ring[i].at = p.ring[i].at + 1
              \/ /\ i = Len(p.ring) + 1
                 /\ q.ring[i].char = Char(request, n + 1) /\ q.ring[i].at = 0
      BY <1>4, <2>7
    <3>5. HeardTo(q, request, n + 1, j, 0)
      BY <1>1, <1>3, <3>1, <3>2, <3>3, <3>4, HeardSend
    <3>6. p.ran = 0 /\ 0 < q.since
      BY <1>7, <2>1, <2>7 DEF Hearing
    <3> QED
      BY <2>1, <3>2, <3>5, <3>6 DEF Hearing
  <2>8. CASE c = None /\ host.pc # "send"
    <3>1. IsFor(host, u) => n = Size /\ n > 0
      BY <1>9, <1>10, <2>8
    <3> QED
      BY <1>11, <1>19, <2>1, <2>2, <2>3, <2>4, <2>5, <2>6, <2>8, <3>1 DEF Over, q
  <2>9. CASE HostSends /\ c = Char(request, n + 1)
    <3>1. host.pc = "send" /\ n # Size
      BY <1>1, <1>6, <1>9, <2>9
    <3>2. ~ (p.ran = 1)
      BY <1>13, <3>1
    <3> QED
      BY <1>11, <1>19, <2>2, <2>5, <2>7, <2>9, <3>1, <3>2 DEF q
  <2>10. CASE host.pc = "wait" /\ Sending = {host.unit} /\ request.to = host.unit
    <3>1. host.unit \in Units /\ host.unit # u
      BY <1>8, <1>21, <2>10 DEF Sending
    <3>2. ~ IsFor(host, u)
      BY <1>10, <2>10, <3>1, NoBroadcastUnit
    <3> QED
      BY <1>19, <2>2, <2>5, <3>2 DEF q
  <2> QED
    BY <1>5, <2>8, <2>9, <2>10
<1> QED
  BY <1>20, <1>21

LEMMA CleanTick ==
    ASSUME NEW Passes, Timely(Passes), CleanInv(Passes), NEW noisy \in BOOLEAN, Tick(noisy)
    PROVE  /\ Paced(host', still', hit')
           /\ \A u \in Units : CleanAt(port'[u], u, host', still', hit')
<1>1. ~ hit' => noisy = FALSE
  <2>1. LET C == LineChar(noisy)
        IN hit' = (noisy \/ (hit /\ ~ (still' >= T35 /\ \A w \in Units : AtRest(w))))
    BY CleanFacts, TickDoes DEF CleanInv, OwnInv, OnceInv
  <2> QED
    BY <2>1
<1>2. ASSUME NEW u \in Units PROVE CleanAt(port'[u], u, host', still', hit')
  <2>1. ~ hit' => Clean(port'[u], still') /\ WordAt(port'[u], u, host', still')
    BY <1>1, ClearTick, StillTick
  <2> QED
    BY <2>1, TidyTick, ReadsTick DEF CleanAt
<1> QED
  BY <1>2, PacedTick

-----------------------------------------------------------------------------
(* The host's steps, for a clean node.                                     *)

\* A frame that no exchange but an earlier one had.
LEMMA PastOther ==
    ASSUME NEW c \in Chars, NEW request \in Frames, request.now = TRUE
    PROVE  PastChar(c).frame # request
<1>1. c.frame \in Frames \cup {None} /\ PastChar(c).frame = Past(c.frame)
  BY CharsAre, PastCharIs
<1>2. CASE c.frame = None
  <2>1. PastChar(c).frame = None
    BY <1>1, <1>2, PastIs
  <2> QED
    BY <2>1, NoneAssumption
<1>3. CASE c.frame # None
  BY <1>1, <1>3, PastIs
<1> QED
  BY <1>2, <1>3

\* A node the next request is for has nothing on its way: it is still sending
\* the answer the host has, or it has acted on the last broadcast or been at
\* rest, or what it has is older than t3.5.
LEMMA Fresh ==
    ASSUME NEW Passes, Timely(Passes), CleanInv(Passes), ~ hit,
           NEW v \in Units \cup {Broadcast}, host.pc = "idle",
           OwesNothing(v) \/ host.quiet >= Gap, NEW u \in Units, v \in {u, Broadcast}
    PROVE  LET p == port[u]
           IN /\ p.out # None => p.sent = Size
              /\ p.out = None => /\ p.ring = <<>>
                                 /\ p.rtu.receiving => p.rtu.last >= T35
<1> DEFINE p == port[u]
<1>1. /\ PortFits(p) /\ Clean(p, still) /\ WordAt(p, u, host, still) /\ Stamps(p, still)
      /\ OwnAt(p, u, host.pc, host.request, still) /\ p.since <= Late
      /\ Paced(host, still, hit) /\ still \in 0..Calm
  BY CleanFacts DEF QuietAt, Passing
<1>2. /\ Late <= T35 /\ T35 <= Gap /\ Late <= Settle
  BY TimelyIs
<1>3. /\ Late \in Nat /\ T35 \in Nat /\ Gap \in Nat /\ Settle \in Nat /\ Size \in Nat \ {0}
      /\ still \in Nat /\ p.since \in Nat /\ p.sent \in 0..Size /\ host.quiet \in Nat
      /\ p.rtu.last \in Nat /\ p.ring \in Seq(Stamped)
      /\ \A i \in DOMAIN p.ring : p.ring[i].at \in Nat
  <2>1. host.quiet \in 0..(Timeout + Gap)
    BY DEF CleanInv, OwnInv, OnceInv, BusTypes, HostFits, HostState
  <2>2. \A i \in DOMAIN p.ring : p.ring[i].at \in Nat
    BY <1>1, PortNumbers
  <2> QED
    BY <1>1, <2>1, <2>2, PortIs, ConstantsAre
<1>4. still >= T35 \/ host.quiet <= still
  BY <1>1 DEF Paced
<1> HIDE DEF p
<1>5. p.out # None => p.sent = Size
  <2>1. p.out # None => ~ (p.sent < Size)
    BY <1>1 DEF OwnAt
  <2> QED
    BY <1>3, <2>1
<1>6. ASSUME p.out = None
      PROVE  p.ring = <<>> /\ (p.rtu.receiving => p.rtu.last >= T35)
  <2>1. CASE host.quiet >= Gap
    <3>1. still >= T35
      BY <1>2, <1>3, <1>4, <2>1
    <3>2. \A i \in DOMAIN p.ring : FALSE
      <4>1. ASSUME NEW i \in DOMAIN p.ring PROVE FALSE
        <5>1. p.ring[i].at < p.since /\ still <= p.ring[i].at /\ p.ring[i].at \in Nat
          BY <1>1, <1>3, <1>6 DEF Clean, Stamps
        <5> QED
          BY <1>1, <1>2, <1>3, <3>1, <5>1
      <4> QED
        BY <4>1
    <3>3. p.ring = <<>>
      BY <1>3, <3>2, EmptySeq
    <3>4. p.rtu.receiving => still <= p.rtu.last
      BY <1>1, <1>6 DEF Clean
    <3> QED
      BY <1>3, <3>1, <3>3, <3>4
  <2>2. CASE OwesNothing(v)
    <3>1. host.proven /\ v = host.unit /\ host.unit # None
      BY <1>1, <2>2 DEF OwesNothing, Paced
    <3>2. CASE v = u
      BY <1>1, <1>6, <3>1, <3>2 DEF WordAt, Over, Rests
    <3>3. CASE v = Broadcast
      <4>1. /\ host.request.to = Broadcast /\ host.request.hinted /\ host.sent = Size
            /\ host.quiet >= Settle
        BY <1>1, <3>1, <3>3 DEF Paced
      <4>2. still >= Late
        BY <1>2, <1>3, <1>4, <4>1
      <4>3. ~ (still < p.since)
        BY <1>1, <1>3, <4>2
      <4>4. ~ Hearing(p, host.request, host.sent, still)
        BY <4>1, <4>3 DEF Hearing
      <4>5. IsFor(host, u)
        BY <3>1, <4>1 DEF IsFor
      <4>6. Over(p)
        BY <1>1, <4>4, <4>5 DEF WordAt, Over
      <4> QED
        BY <1>6, <4>6 DEF Over, Rests
    <3> QED
      BY <3>2, <3>3
  <2> QED
    BY <2>1, <2>2
<1> QED
  BY <1>5, <1>6 DEF p

LEMMA CleanTransmit ==
    ASSUME NEW Passes, Timely(Passes), CleanInv(Passes), NEW v \in Units \cup {Broadcast},
           NEW hinted \in BOOLEAN, Transmit(v, hinted)
    PROVE  /\ Paced(host', still', hit')
           /\ \A u \in Units : CleanAt(port'[u], u, host', still', hit')
<1> DEFINE request == Request(v, hinted)
<1>1. /\ BusTypes /\ host.pc = "idle" /\ (OwesNothing(v) \/ host.quiet >= Gap)
      /\ host'.pc = "send" /\ host'.request = request /\ host'.sent = 0
      /\ host'.unit = v /\ host'.proven = hinted
      /\ host'.got = (IF host.clean THEN PastChars(host.got) ELSE <<>>)
      /\ host'.harmed = (hit \/ (host.clean /\ host.got # <<>>))
      /\ still' = still /\ hit' = hit /\ host.got \in Seq(Chars)
  BY TransmitIs DEF CleanInv, OwnInv, OnceInv, BusTypes, HostFits, HostState, Steady
<1>2. request.to = v /\ request.hinted = hinted /\ request.now = TRUE /\ request \in Frames
  BY RequestIs DEF Request
<1>3. v # None
  BY NoBroadcastUnit, NoneAssumption
<1> HIDE DEF request
<1>4. Paced(host', still', hit')
  <2>1. hit' => host'.harmed
    BY <1>1, Zenon
  <2>2. ~ (host'.sent > 0)
    BY <1>1
  <2> QED
    BY <1>1, <1>2, <1>3, <2>1, <2>2, Zenon DEF Paced
<1>5. ~ host'.harmed => host'.got = <<>>
  <2>1. host.clean /\ host.got = <<>> => PastChars(host.got) = <<>>
    <3>1. Len(<<>>) = 0
      OBVIOUS
    <3>2. host.got = <<>> => Len(PastChars(host.got)) = 0 /\ PastChars(host.got) \in Seq(Chars)
      BY <1>1, <3>1, PastCharsIs
    <3> QED
      BY <3>2, EmptySeq
  <2> QED
    BY <1>1, <2>1
<1>6. ASSUME NEW u \in Units PROVE CleanAt(port'[u], u, host', still', hit')
  <2> DEFINE p == port[u]
             q == port'[u]
  <2>1. PortFits(p) /\ Tidy(p) /\ q = PastPort(p) /\ (~ hit => Clean(p, still))
    BY <1>1, CleanFacts, TransmitIs
  <2>2. PortFits(q) /\ Alike(p, q) /\ q.ran = 0
    BY <2>1, PastPortIs
  <2>3. \A c \in Kept(q) : \E d \in Kept(p) : c = PastChar(d)
    BY <2>1, KeptPast
  <2>4. \A d \in Kept(p) : d \in Chars
    BY <2>1, KeptIs
  <2>5. ~ hit /\ v \in {u, Broadcast} =>
            /\ p.out # None => p.sent = Size
            /\ p.out = None => /\ p.ring = <<>>
                               /\ p.rtu.receiving => p.rtu.last >= T35
    BY <1>1, Fresh
  <2>6. /\ p.ring \in Seq(Stamped) /\ q.ring \in Seq(Stamped)
        /\ DOMAIN p.ring = DOMAIN q.ring
    <3>1. p.ring \in Seq(Stamped) /\ q.ring \in Seq(Stamped) /\ Len(q.ring) = Len(p.ring)
      BY <2>1, <2>2, PortIs DEF Alike
    <3> QED
      BY <3>1
  <2> HIDE DEF p, q
  <2>7. p.ring = <<>> <=> q.ring = <<>>
    BY <2>2, <2>6, EmptySeq DEF Alike
  <2>8. Tidy(q)
    BY <2>1, <2>2, <2>7 DEF Tidy, Alike
  <2>9. ReadsAt(q, u, host')
    BY <1>5, <2>2 DEF ReadsAt
  <2>10. ~ hit => Clean(q, still)
    BY <2>1, <2>2, <2>6 DEF Clean, Alike
  <2>11. ~ hit => WordAt(q, u, host', still)
    <3>1. SUFFICES ASSUME ~ hit, v \in {u, Broadcast} PROVE Hearing(q, request, 0, still)
      BY <1>1, <1>2 DEF WordAt, IsFor
    <3>2. CASE q.out # None
      BY <2>2, <2>5, <3>1, <3>2, ConstantsAre DEF Hearing, Alike
    <3>3. CASE q.out = None
      <4>1. q.ring = <<>> /\ (q.rtu.receiving => q.rtu.last >= T35)
        BY <2>2, <2>5, <2>7, <3>1, <3>3 DEF Alike
      <4>2. Len(q.ring) = 0 /\ DOMAIN q.ring = {}
        BY <4>1
      <4>3. \A c \in Kept(q) : c.frame # request
        BY <1>2, <2>3, <2>4, PastOther
      <4>4. HeardTo(q, request, 0, 0, still)
        BY <4>1, <4>2, <4>3 DEF HeardTo
      <4>5. 0 \in 0..0 /\ 0 # Size
        BY ConstantsAre
      <4> QED
        BY <2>2, <3>3, <4>4, <4>5 DEF Hearing
    <3> QED
      BY <3>2, <3>3
  <2> QED
    BY <1>1, <2>8, <2>9, <2>10, <2>11 DEF CleanAt, q
<1> QED
  BY <1>4, <1>6

\* A request without noise that has left the host, for a node at rest: the node
\* has acted on it.
LEMMA RestHeard ==
    ASSUME NEW Passes, CleanInv(Passes), NEW u \in Units, ~ host.harmed, IsFor(host, u),
           host.pc = "send" => host.sent = Size, Rests(port[u])
    PROVE  ~ hit /\ host.sent = Size /\ port[u].ran = 1
<1> DEFINE p == port[u]
<1>1. /\ PortFits(p) /\ Paced(host, still, hit) /\ host.sent \in 0..Size
      /\ (~ hit => WordAt(p, u, host, still)) /\ Size \in Nat \ {0}
  BY CleanFacts, ConstantsAre
<1>2. ~ hit /\ host.sent = Size
  BY <1>1 DEF Paced, IsFor
<1> HIDE DEF p
<1>3. p.out = None /\ p.ring = <<>> /\ ~ p.rtu.receiving
  BY DEF Rests, p
<1>4. ~ Hearing(p, host.request, host.sent, still)
  <2>1. SUFFICES ASSUME NEW j \in 0..host.sent, HeardTo(p, host.request, host.sent, j, still)
                 PROVE  FALSE
    BY <1>3 DEF Hearing
  <2>2. host.sent > 0 => p.rtu.receiving
    BY <1>1, <1>3, <2>1, HeardRest
  <2> QED
    BY <1>1, <1>2, <1>3, <2>2
<1>5. p.ran = 1
  BY <1>1, <1>2, <1>4 DEF WordAt
<1> QED
  BY <1>2, <1>5 DEF p

\* The unit that has answered has nothing left to hear.
LEMMA Answered ==
    ASSUME NEW Passes, Timely(Passes), CleanInv(Passes), ~ hit, host.pc = "wait", Accepts
    PROVE  Over(port[host.unit])
<1> DEFINE u == host.unit
           p == port[u]
<1>1. Passes \in Nat \ {0} /\ OwnInv(Passes)
  BY TimelyIs DEF CleanInv
<1>2. u \in Units /\ host.request.to = u /\ p.ran > 0
  BY <1>1, AnswerWhole
<1>3. WordAt(p, u, host, still) /\ u # None
  BY <1>2, CleanFacts, NoBroadcastUnit
<1> HIDE DEF p
<1>4. ~ Hearing(p, host.request, host.sent, still)
  BY <1>2 DEF Hearing
<1> QED
  BY <1>2, <1>3, <1>4 DEF WordAt, IsFor, Over, p

\* The host has waited for as long as a node can have had something left.
LEMMA CalmWait ==
    ASSUME NEW Passes, Timely(Passes), CleanInv(Passes), host.pc = "wait", Waited,
           NEW u \in Units
    PROVE  Rests(port[u])
<1> DEFINE p == port[u]
<1>1. Passes \in Nat \ {0} /\ Ring <= Passes * Take /\ (Passes - 1) * Late < T35
  BY TimelyIs
<1>2. Calm <= Quiet /\ Calm <= Timeout
  BY TimelyIs
<1>3. /\ QuietInv(Passes) /\ HostOwn(host, still) /\ still \in 0..Calm /\ host.quiet \in Nat
      /\ OwnAt(p, u, host.pc, host.request, still)
  BY ConstantsAre DEF CleanInv, OwnInv, OnceInv, BusTypes, HostFits, HostState
<1>4. host.quiet <= still \/ still = Calm
  BY <1>3 DEF HostOwn
<1>5. host.quiet >= Timeout \/ host.quiet >= Quiet
  BY DEF Waited
<1>6. Timeout \in Nat /\ Quiet \in Nat /\ Calm \in Nat /\ host.quiet \in Nat /\ still \in 0..Calm
  BY <1>3, ConstantsAre
<1>7. still = Calm
  BY <1>2, <1>4, <1>5, <1>6
<1>8. /\ p.out = None => p.ring = <<>> /\ ~ p.rtu.receiving
      /\ p.out # None => p.sent < Size
  BY <1>1, <1>3, <1>7, CalmRests
<1> HIDE DEF p
<1>9. p.out = None
  BY <1>3, <1>6, <1>7, <1>8 DEF OwnAt
<1> QED
  BY <1>8, <1>9 DEF Rests, p

LEMMA CleanHost ==
    ASSUME NEW Passes, Timely(Passes), CleanInv(Passes), Left \/ Settled \/ Accept \/ GiveUp
    PROVE  /\ Paced(host', still', hit')
           /\ \A u \in Units : CleanAt(port'[u], u, host', still', hit')
<1>1. /\ BusTypes /\ Paced(host, still, hit) /\ HostOwn(host, still) /\ still \in Nat
      /\ host \in HostState
  BY ConstantsAre DEF CleanInv, OwnInv, OnceInv, BusTypes, HostFits
<1>2. /\ port' = port /\ still' = still /\ hit' = hit
      /\ host'.request = host.request /\ host'.sent = host.sent /\ host'.unit = host.unit
      /\ host'.harmed = host.harmed
  BY <1>1, HostKeeps, HostIs DEF Steady
<1>3. /\ host'.proven = host.proven
      /\ \/ /\ host.pc = "send" /\ host.sent = Size /\ host'.pc \in {"settle", "wait"}
            /\ host'.quiet = 0 /\ host'.got = host.got
         \/ /\ host.pc = "settle" /\ host'.pc = "idle" /\ host'.quiet = host.quiet
            /\ host.quiet >= Settle
         \/ /\ host.pc = "wait" /\ (Accepts \/ Waited) /\ host'.pc = "idle" /\ host'.quiet = 0
  <2>1. CASE Left
    BY <1>1, <2>1 DEF Left, HostState
  <2>2. CASE Settled
    BY <1>1, <2>2 DEF Settled, HostState
  <2>3. CASE Accept
    BY <1>1, <2>3 DEF Accept, HostState
  <2>4. CASE GiveUp
    BY <1>1, <2>4 DEF GiveUp, HostState
  <2> QED
    BY <2>1, <2>2, <2>3, <2>4
<1>4. Paced(host', still', hit')
  <2>1. host.pc # "idle" => host.unit # None
    BY <1>1 DEF Paced
  <2>2. host.pc = "wait" => host.unit # Broadcast
    BY <1>1, NoBroadcastUnit DEF HostOwn
  <2>3. ~ hit /\ host.pc = "settle" => still >= T35 \/ host.quiet <= still
    BY <1>1 DEF Paced
  <2>4. 0 <= still
    BY <1>1
  <2>5. host.unit # None => /\ host.unit = host.request.to /\ host.proven = host.request.hinted
                            /\ host.pc # "send" => host.sent = Size
    BY <1>1 DEF Paced
  <2>6. hit => host.harmed
    BY <1>1 DEF Paced
  <2>7. CASE /\ host.pc = "send" /\ host.sent = Size /\ host'.pc \in {"settle", "wait"}
             /\ host'.quiet = 0
    BY <1>2, <1>3, <2>1, <2>4, <2>5, <2>6, <2>7 DEF Paced
  <2>8. CASE /\ host.pc = "settle" /\ host'.pc = "idle" /\ host'.quiet = host.quiet
             /\ host.quiet >= Settle
    BY <1>2, <1>3, <2>1, <2>3, <2>5, <2>6, <2>8 DEF Paced
  <2>9. CASE host.pc = "wait" /\ host'.pc = "idle" /\ host'.quiet = 0
    BY <1>2, <1>3, <2>1, <2>2, <2>4, <2>5, <2>6, <2>9 DEF Paced
  <2> QED
    BY <1>3, <2>7, <2>8, <2>9
<1>5. ASSUME NEW u \in Units PROVE CleanAt(port[u], u, host', still, hit)
  <2> DEFINE p == port[u]
  <2>1. /\ Tidy(p) /\ ReadsAt(p, u, host) /\ (~ hit => Clean(p, still))
        /\ (~ hit => WordAt(p, u, host, still))
    BY CleanFacts
  <2>2. ~ hit /\ host'.pc = "idle" /\ host.unit = u => Over(p)
    <3>1. SUFFICES ASSUME ~ hit, host'.pc = "idle", host.unit = u PROVE Over(p)
      OBVIOUS
    <3>2. host.pc # "settle"
      BY <1>1, <3>1, NoBroadcastUnit DEF HostOwn
    <3>3. host.pc = "wait" /\ (Accepts \/ Waited)
      BY <1>3, <3>1, <3>2
    <3>4. CASE Accepts
      BY <3>1, <3>3, <3>4, Answered
    <3>5. CASE Waited
      BY <3>3, <3>5, CalmWait DEF Over
    <3> QED
      BY <3>3, <3>4, <3>5
  <2> HIDE DEF p
  <2>3. IsFor(host', u) = IsFor(host, u) /\ host'.pc # "send"
    BY <1>2, <1>3 DEF IsFor
  <2>4. ~ hit => WordAt(p, u, host', still)
    BY <1>2, <2>1, <2>2, <2>3 DEF WordAt
  <2>5. ReadsAt(p, u, host')
    BY <1>2, <1>3, <2>1 DEF ReadsAt
  <2> QED
    BY <2>1, <2>4, <2>5 DEF CleanAt, p
<1> QED
  BY <1>2, <1>4, <1>5

LEMMA CleanInit ==
    ASSUME NEW Passes, Timely(Passes), Init
    PROVE  CleanInv(Passes)
<1>1. OwnInv(Passes)
  BY OwnInit, TimelyIs
<1>2. /\ host.pc = "idle" /\ host.unit = None /\ ~ host.proven /\ ~ hit /\ still = Calm
      /\ \A u \in Units : port[u].taken = 0
  BY DEF Init, Port
<1>3. Paced(host, still, hit)
  <2>1. Calm >= T35
    BY ConstantsAre
  <2> QED
    BY <1>2, <2>1, NoneAssumption DEF Paced
<1>4. ASSUME NEW u \in Units PROVE CleanAt(port[u], u, host, still, hit)
  <2> DEFINE p == port[u]
  <2>1. /\ p.ring = <<>> /\ ~ p.fault /\ p.held = None /\ p.out = None
        /\ ~ p.rtu.receiving /\ p.since = 0 /\ p.taken = 0
    BY <1>2, InitIs
  <2> HIDE DEF p
  <2>2. Len(p.ring) = 0 /\ DOMAIN p.ring = {}
    BY <2>1
  <2>3. Clean(p, still) /\ Tidy(p)
    BY <2>1, <2>2 DEF Clean, Tidy
  <2>4. ~ IsFor(host, u) /\ host.unit # u
    BY <1>2, NoBroadcastUnit DEF IsFor
  <2>5. WordAt(p, u, host, still) /\ ReadsAt(p, u, host)
    BY <1>2, <2>4 DEF WordAt, ReadsAt
  <2> QED
    BY <2>3, <2>5 DEF CleanAt, p
<1> QED
  BY <1>1, <1>3, <1>4 DEF CleanInv

LEMMA CleanKeeps ==
    ASSUME NEW Passes, Timely(Passes), CleanInv(Passes), [Next]_vars
    PROVE  CleanInv(Passes)'
<1>1. OwnInv(Passes)'
  <2>1. /\ Passes \in Nat \ {0} /\ Ring <= Passes * Take /\ (Passes - 1) * Late < T35
        /\ Calm <= Quiet /\ Calm <= Timeout
    BY TimelyIs
  <2> QED
    BY <2>1, OwnKeeps DEF CleanInv
<1>2. SUFFICES /\ Paced(host', still', hit')
               /\ \A u \in Units : CleanAt(port'[u], u, host', still', hit')
  BY <1>1 DEF CleanInv
<1>3. CASE UNCHANGED vars
  BY <1>3 DEF vars, CleanInv
<1>4. ASSUME NEW v \in Units \cup {Broadcast}, NEW hinted \in BOOLEAN, Transmit(v, hinted)
      PROVE  /\ Paced(host', still', hit')
             /\ \A u \in Units : CleanAt(port'[u], u, host', still', hit')
  BY <1>4, CleanTransmit
<1>5. CASE Left \/ Settled \/ Accept \/ GiveUp
  BY <1>5, CleanHost
<1>6. ASSUME NEW v \in Units, Node(v)
      PROVE  /\ Paced(host', still', hit')
             /\ \A u \in Units : CleanAt(port'[u], u, host', still', hit')
  BY <1>6, CleanNode
<1>7. ASSUME NEW noisy \in BOOLEAN, Tick(noisy)
      PROVE  /\ Paced(host', still', hit')
             /\ \A u \in Units : CleanAt(port'[u], u, host', still', hit')
  BY <1>7, CleanTick
<1> QED
  BY <1>3, <1>4, <1>5, <1>6, <1>7 DEF Next

\* A request that no noise touched has been acted on by every node it is for
\* once their receivers are at rest, with any number of nodes and noise before
\* it (transmit's two gaps, dev_uart.c's ring, link.c's pump and
\* mb_rtu_service), when the code's times and sizes are timely.
THEOREM RequestHeard ==
    ASSUME NEW Passes, Timely(Passes)
    PROVE  Spec => []EveryRequestHeard
<1>1. CleanInv(Passes) => EveryRequestHeard
  <2>1. SUFFICES ASSUME CleanInv(Passes), NEW u \in Units, Addressed(u), AtRest(u),
                        ~ host.harmed, host.unit # None, host.pc = "send" => host.sent = Size
                 PROVE  port[u].ran = 1
    BY DEF EveryRequestHeard
  <2>2. IsFor(host, u) /\ Rests(port[u])
    BY <2>1 DEF Addressed, IsFor, AtRest, Looping, Rests
  <2> QED
    BY <2>1, <2>2, RestHeard
<1>2. Init => CleanInv(Passes)
  BY CleanInit
<1>3. CleanInv(Passes) /\ [Next]_vars => CleanInv(Passes)'
  BY CleanKeeps
<1> QED
  BY <1>1, <1>2, <1>3, PTL DEF Spec

\* The host gives up only an exchange that noise touched (transport.py's
\* read_reply): by the time its wait is over the unit has acted on the request
\* and sent all of its answer, and the host has taken it.
THEOREM GivesUpOnlyHarmed ==
    ASSUME NEW Passes, Timely(Passes)
    PROVE  Spec => []GivesUpHarmed
<1>1. CleanInv(Passes) => GivesUpHarmed
  <2>1. SUFFICES ASSUME CleanInv(Passes), host.pc = "wait", ~ Accepts, Waited, ~ host.harmed
                 PROVE  FALSE
    BY DEF GivesUpHarmed
  <2> DEFINE u == host.unit
             p == port[u]
             answer == Answer(u, TRUE)
  <2>2. u \in Units /\ host.request.to = u /\ host.got \in Seq(Chars)
    BY <2>1 DEF CleanInv, OwnInv, OnceInv, BusTypes, HostFits, HostState, HostOwn
  <2>3. Rests(p)
    BY <2>1, <2>2, CalmWait
  <2>4. IsFor(host, u)
    BY <2>2, NoBroadcastUnit DEF IsFor
  <2>5. p.ran = 1
    BY <2>1, <2>2, <2>3, <2>4, RestHeard
  <2>6. ReadsAt(p, u, host) /\ p.out = None
    BY <2>1, <2>2, <2>3, CleanFacts DEF Rests
  <2>7. answer # None /\ answer.from = u
    BY <2>2, AnswerIs, NoneAssumption DEF Answer
  <2> HIDE DEF p, answer
  <2>8. First(host.got, answer, Size)
    <3>1. p.ran > 0
      BY <2>5
    <3>2. host.pc \in {"send", "wait"}
      BY <2>1
    <3> QED
      BY <2>1, <2>6, <3>1, <3>2, Zenon DEF ReadsAt, answer
  <2>9. Whole(host.got) /\ host.got[1].frame = answer
    BY <2>2, <2>7, <2>8, FirstAll
  <2> QED
    BY <2>1, <2>7, <2>9 DEF Accepts
<1>2. Init => CleanInv(Passes)
  BY CleanInit
<1>3. CleanInv(Passes) /\ [Next]_vars => CleanInv(Passes)'
  BY CleanKeeps
<1> QED
  BY <1>1, <1>2, <1>3, PTL DEF Spec
=============================================================================
