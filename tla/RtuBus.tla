------------------------------- MODULE RtuBus -------------------------------
(***************************************************************************)
(* One RS485 pair: the host's transport (host/coaxial/comm/transport.py)   *)
(* and the nodes' ports (comms/src/dev_uart.c), pumps (comms/src/link.c)   *)
(* and receivers (modbus/src/modbus_rtu.c), character by character.        *)
(*                                                                         *)
(* Time is counted in characters.  A frame is named by what it says and    *)
(* has Size characters; a receiver that holds exactly the characters of    *)
(* one frame, in order, has its CRC, and no other content has.  Noise is a *)
(* character that is no frame's and raises the receivers' error flags.     *)
(***************************************************************************)
EXTENDS Integers, FiniteSets, Sequences, SequencesExt

CONSTANTS
    Units,    \* the nodes, each by its unit id
    Size,     \* the characters of a frame
    T15, T35, \* t1.5 and t3.5
    Take,     \* LINK_TAKE_MAX
    Ring,     \* DEV_RING, less the entry that is never used
    AduMax,   \* MB_RTU_ADU_MAX
    Timeout,  \* the host's wait for an answer's first character
    Quiet,    \* QUIET_TIME: the silence after which an answer is over
    Gap,      \* the host's interframe gap, t3.5
    Settle,   \* the least settling time of a broadcast
    Late,     \* bound: a node's pass ends this long after the last one
    Prompt,   \* whether a sent frame's echo is purged before another arrives
    MaxNoise, \* bound: characters of noise
    None

ASSUME BusAssumption ==
    /\ Units \subseteq 1..246 /\ Units # {} /\ None \notin Units
    /\ {Size, T15, T35, Take, Ring, AduMax, Timeout, Quiet, Gap, Settle, Late} \subseteq Nat \ {0}
    /\ T15 < T35 /\ Size <= AduMax /\ MaxNoise \in Nat /\ Prompt \in BOOLEAN

VARIABLES
    host,   \* the transport; `harmed`: noise may have hit the exchange (history)
    port,   \* the nodes' ports and receivers
    noise,  \* characters of noise so far
    still,  \* how long the line has been quiet, Calm at most (history)
    hit     \* noise since line and nodes were last at rest (history)

vars == <<host, port, noise, still, hit>>

Broadcast == 0
Calm == T35 + 3 * Late

\* A request to a unit: `hinted` when cmd_request_length knows its length.
Request(to, hinted) == [to |-> to, from |-> None, hinted |-> hinted, now |-> TRUE]

\* An answer bears the server's unit.  `now` tells the host's exchange from the
\* earlier ones here (history); on the wire nothing does.
Answer(unit, now) == [to |-> unit, from |-> unit, hinted |-> FALSE, now |-> now]

Char(frame, k) == [frame |-> frame, k |-> k]
Garbage == [frame |-> None, k |-> 0]
CharsOf(frame) == [k \in 1..Size |-> Char(frame, k)]

\* What is left of an exchange once the next begins (history).
Past(frame) == IF frame = None THEN None ELSE [frame EXCEPT !.now = FALSE]
PastChar(char) == [char EXCEPT !.frame = Past(@)]
PastChars(chars) == [k \in DOMAIN chars |-> PastChar(chars[k])]

\* What some characters make: one frame whole, or nothing with a good CRC.
Makes(rx, frame) == rx = CharsOf(frame)
Whole(rx) == Len(rx) = Size /\ Head(rx).frame # None /\ Makes(rx, Head(rx).frame)

Lesser(a, b) == IF a < b THEN a ELSE b

-----------------------------------------------------------------------------
(* The receiver, modbus_rtu.c.                                             *)

\* mb_rtu_init.  `last` is how long ago the last event's stamp is.
Receiver == [receiving |-> FALSE, bad |-> FALSE, rx |-> <<>>, last |-> 0]

\* elapsed: stamps that run backwards are very long apart, the difference
\* being unsigned.
Forever == 1000
Elapsed(at, then) == IF then >= at THEN then - at ELSE Forever

\* frame_proven: a length the oracle knows, a good CRC and our address.
Proven(r, unit) ==
    /\ ~ r.bad /\ Whole(r.rx)
    /\ r.rx[1].frame.hinted /\ r.rx[1].frame.to \in {unit, Broadcast}

\* Mutant: an ADU has no end.
OnByteUnbounded(r, char, at) ==
    [receiving |-> TRUE,
     bad |-> r.receiving /\ (r.bad \/ Elapsed(at, r.last) > T15),
     rx |-> IF r.receiving THEN Append(r.rx, char) ELSE <<char>>,
     last |-> at]

\* mb_rtu_on_byte, of a character stamped `at` ago.
OnByte(r, char, at) ==
    LET room == ~ r.receiving \/ Len(r.rx) < AduMax IN
    [receiving |-> TRUE,
     bad |-> \/ r.receiving /\ (r.bad \/ Elapsed(at, r.last) > T15)
             \/ ~ room,
     rx |-> IF ~ r.receiving THEN <<char>> ELSE IF room THEN Append(r.rx, char) ELSE r.rx,
     last |-> at]

\* mb_rtu_on_error.
OnError(r) == [r EXCEPT !.bad = TRUE, !.receiving = TRUE, !.last = 0]

\* take_frame.
Closed(r) == Receiver

\* Mutant: a spoilt frame is not ended by silence.
EndsGood(r, unit, at) ==
    r.receiving /\ ~ r.bad /\ (Elapsed(at, r.last) >= T35 \/ Proven(r, unit))

\* mb_rtu_service's condition, `at` ago.
Ends(r, unit, at) == r.receiving /\ (Elapsed(at, r.last) >= T35 \/ Proven(r, unit))

\* Mutant: another unit's frame is acted on.
OursAnyUnit(r, unit) ==
    /\ ~ r.bad /\ Whole(r.rx)
    /\ r.rx[1].frame.from = None

\* frame_ours.
Ours(r, unit) ==
    /\ ~ r.bad /\ Whole(r.rx)
    /\ r.rx[1].frame.to \in {unit, Broadcast}

-----------------------------------------------------------------------------
(* A node's port: the ring its interrupt fills and the pump.               *)

\* `taken`: characters of this pass; `held`: the one a pass has out of the
\* ring while the frame before it is answered; `out`: the answer being sent;
\* `ran`: the requests executed of the host's exchange (history).
Port == [ring |-> <<>>, fault |-> FALSE, rtu |-> Receiver, taken |-> 0, since |-> 0,
         held |-> None, out |-> None, sent |-> 0, ran |-> 0]

\* ring_push: a character and its stamp, or dropped.
Pushed(p, char) ==
    IF Len(p.ring) < Ring
    THEN [p EXCEPT !.ring = Append(@, [char |-> char, at |-> 0])]
    ELSE p

Looping(u) == port[u].out = None

\* The frame in the receiver is closed, and executed and answered if it is
\* this unit's; the pass goes on with `p`, or waits in u_put.
Pumped(u, p) ==
    LET rtu == p.rtu
        frame == rtu.rx[1].frame
        closed == [p EXCEPT !.rtu = Closed(rtu)] IN
    IF ~ Ours(rtu, u) THEN closed
    ELSE [closed EXCEPT !.ran = IF frame.now THEN @ + 1 ELSE @,
                        !.out = IF frame.to = Broadcast THEN None ELSE Answer(u, frame.now)]

\* take: one character.  One that came after the frame's silence closes that
\* frame first.
TakeOne(u) ==
    LET p == port[u] IN
    /\ Looping(u) /\ p.taken < Take /\ p.ring # <<>> /\ ~ p.fault
    /\ LET c == Head(p.ring)
           popped == [p EXCEPT !.ring = Tail(@), !.taken = @ + 1]
           late == p.rtu.receiving /\ Elapsed(c.at, p.rtu.last) > T35
           pumped == IF late THEN Pumped(u, popped) ELSE popped IN
       port' = [port EXCEPT ![u] =
                  IF pumped.out # None THEN [pumped EXCEPT !.held = c]
                  ELSE [pumped EXCEPT !.rtu = OnByte(@, c.char, c.at)]]
    /\ UNCHANGED <<host, noise, still, hit>>

\* The pass ends: the fault reported, or a frame the silence or its own bytes
\* end closed and answered.
PassEnds(u) ==
    LET p == port[u]
        over == [p EXCEPT !.taken = 0, !.since = 0] IN
    /\ Looping(u)
    /\ p.fault \/ p.ring = <<>> \/ p.taken = Take
    /\ port' = [port EXCEPT ![u] =
                  IF p.fault /\ p.taken < Take
                  THEN [over EXCEPT !.fault = FALSE, !.rtu = OnError(@)]
                  ELSE IF Ends(p.rtu, u, 0) THEN Pumped(u, over) ELSE over]
    /\ UNCHANGED <<host, noise, still, hit>>

\* u_put is through: the echo is purged, with whatever else has come, and the
\* pass that was in take goes on.
Sent(u) ==
    LET p == port[u]
        purged == [p EXCEPT !.ring = <<>>, !.fault = FALSE, !.out = None, !.sent = 0, !.since = 0] IN
    /\ p.out # None /\ p.sent = Size
    /\ port' = [port EXCEPT ![u] =
                  IF p.held = None THEN purged
                  ELSE [purged EXCEPT !.held = None,
                                      !.rtu = OnByte(@, p.held.char, p.held.at)]]
    /\ UNCHANGED <<host, noise, still, hit>>

-----------------------------------------------------------------------------
(* The host.                                                               *)

\* Mutant: one gap for every unit.
OwesNothingTo(u) == host.proven

\* transmit: t3.5 is owed but to the unit whose proven frame was just answered.
OwesNothing(u) == host.proven /\ u = host.unit

Init ==
    /\ host = [pc |-> "idle", request |-> Request(Broadcast, FALSE), sent |-> 0, got |-> <<>>,
               quiet |-> Gap, unit |-> None, proven |-> FALSE, clean |-> FALSE,
               harmed |-> FALSE]
    /\ port = [u \in Units |-> Port]
    /\ noise = 0 /\ still = Calm /\ hit = FALSE

\* A node as the next exchange finds it (history).
PastStamped(c) == [c EXCEPT !.char = PastChar(@)]
PastPort(p) ==
    [p EXCEPT !.ring = [k \in DOMAIN @ |-> PastStamped(@[k])],
              !.rtu.rx = PastChars(@),
              !.held = IF @ = None THEN None ELSE PastStamped(@),
              !.out = Past(@), !.ran = 0]

\* transmit: the input is thrown away but after an exchange that ended
\* cleanly; what noise left there since harms this one.
Transmit(u, hinted) ==
    /\ host.pc = "idle"
    /\ OwesNothing(u) \/ host.quiet >= Gap
    /\ host' = [host EXCEPT !.pc = "send", !.request = Request(u, hinted),
                            !.sent = 0, !.unit = u, !.proven = hinted,
                            !.got = IF host.clean THEN PastChars(@) ELSE <<>>, !.clean = FALSE,
                            !.harmed = (hit \/ (host.clean /\ host.got # <<>>))]
    /\ port' = [v \in Units |-> PastPort(port[v])]
    /\ UNCHANGED <<noise, still, hit>>

\* Mutant: the wait is counted from before the frame was sent.
LeftCounting ==
    /\ host.pc = "send" /\ host.sent = Size
    /\ host' = [host EXCEPT !.pc = IF host.unit = Broadcast THEN "settle" ELSE "wait"]
    /\ UNCHANGED <<port, noise, still, hit>>

\* The frame has left: an answer is waited for, a broadcast has none.
Left ==
    /\ host.pc = "send" /\ host.sent = Size
    /\ host' = [host EXCEPT !.pc = IF host.unit = Broadcast THEN "settle" ELSE "wait",
                            !.quiet = 0]
    /\ UNCHANGED <<port, noise, still, hit>>

\* broadcast sleeps its settling time from the frame's last bit.
Settled ==
    /\ host.pc = "settle" /\ host.quiet >= Settle
    /\ host' = [host EXCEPT !.pc = "idle"]
    /\ UNCHANGED <<port, noise, still, hit>>

\* validate passes: an answer of the unit's, whole.
Accepts == Whole(host.got) /\ host.got[1].frame.from = host.unit

\* Mutant: the answer is left in the input.
AcceptKeeps ==
    /\ host.pc = "wait" /\ Accepts
    /\ host' = [host EXCEPT !.pc = "idle", !.clean = TRUE, !.quiet = 0]
    /\ UNCHANGED <<port, noise, still, hit>>

\* The read ends with an answer's last byte, or with silence after what came,
\* or with none at all; all but the first raise.
Accept ==
    /\ host.pc = "wait" /\ Accepts
    /\ host' = [host EXCEPT !.pc = "idle", !.got = <<>>, !.clean = TRUE, !.quiet = 0]
    /\ UNCHANGED <<port, noise, still, hit>>

Waited == host.quiet >= IF host.got = <<>> THEN Timeout ELSE Quiet

GiveUp ==
    /\ host.pc = "wait" /\ ~ Accepts /\ Waited
    /\ host' = [host EXCEPT !.pc = "idle", !.quiet = 0]
    /\ UNCHANGED <<port, noise, still, hit>>

-----------------------------------------------------------------------------
(* The line: one character's time.                                         *)

Sending == {u \in Units : port[u].out # None /\ port[u].sent < Size}
HostSends == host.pc = "send" /\ host.sent < Size

\* The character the line carries: one sender's, garbage from two, or none.
Carried ==
    IF HostSends /\ Sending = {} THEN Char(host.request, host.sent + 1)
    ELSE IF ~ HostSends /\ Cardinality(Sending) = 1
    THEN LET u == CHOOSE v \in Sending : TRUE IN Char(port[u].out, port[u].sent + 1)
    ELSE IF HostSends \/ Sending # {} THEN Garbage ELSE None

\* A node that has nothing of the line left to do.
AtRest(u) == port[u].ring = <<>> /\ ~ port[u].rtu.receiving /\ Looping(u)

\* A stamp is one character older.
Older(c) == [c EXCEPT !.at = @ + 1]

Aged(p) ==
    [p EXCEPT !.ring = [k \in DOMAIN @ |-> Older(@[k])],
              !.held = IF @ = None THEN None ELSE Older(@),
              !.rtu.last = IF p.rtu.receiving THEN @ + 1 ELSE 0,
              !.since = IF p.out = None \/ p.sent = Size THEN @ + 1 ELSE 0]

\* What a node's interrupt makes of the character: its own echo included.
Heard(u, char, noisy) ==
    LET p == Aged(port[u])
        q == IF u \in Sending THEN [p EXCEPT !.sent = @ + 1] ELSE p IN
    IF char = None THEN q ELSE [Pushed(q, char) EXCEPT !.fault = (@ \/ noisy)]

\* A pass may be late, by Late characters; a node in u_put sends on.
InTime(u) ==
    /\ port[u].out = None => port[u].since < Late
    /\ port[u].out # None /\ port[u].sent = Size => ~ Prompt /\ port[u].since < Late

Tick(noisy) ==
    LET char == IF noisy THEN Garbage ELSE Carried IN
    /\ \A u \in Units : InTime(u)
    /\ host.pc = "send" => HostSends
    /\ ~ (host.pc = "wait" /\ Accepts)
    /\ noisy => noise < MaxNoise
    /\ noise' = IF noisy THEN noise + 1 ELSE noise
    /\ port' = [u \in Units |-> Heard(u, char, noisy \/ char = Garbage)]
    /\ host' = [host EXCEPT !.sent = IF HostSends THEN @ + 1 ELSE @,
                            !.quiet = IF host.pc = "wait" /\ char # None THEN 0
                                      ELSE Lesser(@ + 1, Timeout + Gap),
                            !.got = IF host.pc \in {"wait", "idle"} /\ char # None
                                       /\ Len(@) <= Size
                                    THEN Append(@, char) ELSE @,
                            !.harmed = (@ \/ noisy)]
    /\ still' = IF char = None THEN Lesser(still + 1, Calm) ELSE 0
    /\ hit' = (noisy \/ (hit /\ ~ (still' >= T35 /\ \A u \in Units : AtRest(u))))

Node(u) == TakeOne(u) \/ PassEnds(u) \/ Sent(u)

Next ==
    \/ \E u \in Units \cup {Broadcast}, hinted \in BOOLEAN : Transmit(u, hinted)
    \/ Left \/ Settled \/ Accept \/ GiveUp
    \/ \E u \in Units : Node(u)
    \/ \E noisy \in BOOLEAN : Tick(noisy)

Spec == Init /\ [][Next]_vars

-----------------------------------------------------------------------------
(* Properties.                                                             *)

Frames == [to : Units \cup {Broadcast}, from : Units \cup {None},
           hinted : BOOLEAN, now : BOOLEAN]
Chars == [frame : Frames \cup {None}, k : 0..Size]
Stamped == [char : Chars, at : Nat]

\* No frame, character or stamped character is none, and no broadcast.
ASSUME NoneAssumption ==
    None \notin Frames /\ None \notin Chars /\ None \notin Stamped /\ None # Broadcast

TypeOK ==
    /\ host.pc \in {"idle", "send", "settle", "wait"} /\ host.sent \in 0..Size
    /\ Len(host.got) <= Size + 1 /\ host.quiet \in 0..(Timeout + Gap)
    /\ host.unit \in Units \cup {Broadcast, None}
    /\ \A u \in Units :
          /\ Len(port[u].ring) <= Ring /\ \A k \in DOMAIN port[u].ring : port[u].ring[k].char \in Chars
          /\ Len(port[u].rtu.rx) <= AduMax /\ \A k \in DOMAIN port[u].rtu.rx : port[u].rtu.rx[k] \in Chars
          /\ port[u].taken \in 0..Take /\ port[u].sent \in 0..Size
          /\ port[u].rtu.last \in Nat
    /\ noise \in 0..MaxNoise /\ still \in 0..Calm /\ hit \in BOOLEAN

Addressed(u) == host.request.to \in {u, Broadcast}

\* A node acts on a request once, and only on one addressed to it that has
\* left the host whole: never on its echo, a neighbour's answer or a frame put
\* together from two (mb_rtu_service over frame_ours and take_frame).
OncePerRequest ==
    \A u \in Units : port[u].ran > 0 =>
        port[u].ran = 1 /\ Addressed(u) /\ (host.pc = "send" => host.sent = Size)

\* A request that no noise touched has been acted on by every node it is for
\* once their receivers are at rest: frames sent back to back to one unit, a
\* change of unit, a broadcast and a late pass all leave it whole.
EveryRequestHeard ==
    \A u \in Units :
        Addressed(u) /\ AtRest(u) /\ ~ host.harmed /\ host.unit # None
        /\ (host.pc = "send" => host.sent = Size) => port[u].ran = 1

\* The host gives up only an exchange that noise touched: the early path, the
\* silence and the loop's lateness stay inside its timeout.
GivesUpHarmed == host.pc = "wait" /\ ~ Accepts /\ Waited => host.harmed

\* What the host takes for its answer answers its request, not the one before
\* it: the wire carries nothing that would tell.
AnswersItsOwn == host.pc = "wait" /\ Accepts => host.got[1].frame.now

\* A line that stays quiet ends every frame, spoilt ones included, in t3.5 and
\* three passes: no receiver is left mid-frame, where main's loop would hold
\* off for ever the polls that wait for link_busy to clear.
QuietEndsFrames == still = Calm => \A u \in Units : ~ port[u].rtu.receiving

=============================================================================
