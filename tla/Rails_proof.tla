---------------------------- MODULE Rails_proof ----------------------------
(***************************************************************************)
(* The rail's users, leases and the host's silence for every tick width,   *)
(* lease, silence and lateness RailsAssumption allows.  The two clocks are *)
(* carried as what a stamp says of how long it is since: Stamped for the   *)
(* host's silence, Leased for the observer's hold.                         *)
(***************************************************************************)
EXTENDS Rails, TLAPS

-----------------------------------------------------------------------------
(* The ticks' arithmetic.                                                  *)

LEMMA Wrap ==
    ASSUME NEW S \in Nat \ {0}
    PROVE  /\ \A x \in 0..(S - 1) : x % S = x
           /\ \A x \in S..(2 * S - 1) : x % S = x - S
           /\ \A x \in (-S)..(-1) : x % S = x + S
OBVIOUS

LEMMA SpanIs ==
    /\ Span \in Nat \ {0} /\ Lease \in Nat \ {0} /\ Silence \in Nat \ {0}
    /\ Every \in Nat \ {0} /\ Settle \in Nat \ {0} /\ Late \in Nat \ {0}
    /\ 2 * (Lease + Late + 1) < Span /\ Silence + Late < Span
BY RailsAssumption

LEMMA Within == \A x \in 0..(Span - 1) : x % Span = x
BY SpanIs, Wrap

LEMMA Above == \A x \in Span..(2 * Span - 1) : x % Span = x - Span
BY SpanIs, Wrap

LEMMA Below == \A x \in (-Span)..(-1) : x % Span = x + Span
BY SpanIs, Wrap

\* Stamps are ticks, and two of them apart by less than a span.
LEMMA SinceIs ==
    ASSUME NEW now \in 0..(Span - 1), NEW at \in 0..(Span - 1)
    PROVE  /\ Since(now, at) = IF now >= at THEN now - at ELSE now - at + Span
           /\ Since(now, at) \in 0..(Span - 1)
<1> DEFINE x == now - at
<1>1. Since(now, at) = x % Span
  BY DEF Since
<1>2. CASE now >= at
  <2>1. x \in 0..(Span - 1)
    BY <1>2, SpanIs
  <2>2. x % Span = x
    BY <2>1, Within
  <2> QED
    BY <1>1, <1>2, <2>1, <2>2
<1>3. CASE ~(now >= at)
  <2>1. x \in (-Span)..(-1) /\ x + Span \in 0..(Span - 1)
    BY <1>3, SpanIs
  <2>2. x % Span = x + Span
    BY <2>1, Below
  <2> QED
    BY <1>1, <1>3, <2>1, <2>2
<1> QED
  BY <1>2, <1>3

LEMMA SinceSame ==
    ASSUME NEW now \in 0..(Span - 1)
    PROVE  Since(now, now) = 0
<1>1. now - now = 0 /\ 0 \in 0..(Span - 1)
  BY SpanIs
<1>2. 0 % Span = 0
  BY <1>1, Within
<1> QED
  BY <1>1, <1>2 DEF Since

LEMMA NextTick ==
    ASSUME NEW now \in 0..(Span - 1)
    PROVE  /\ (now + 1) % Span = IF now + 1 = Span THEN 0 ELSE now + 1
           /\ (now + 1) % Span \in 0..(Span - 1)
<1> DEFINE x == now + 1
<1>1. CASE x = Span
  <2>1. x \in Span..(2 * Span - 1)
    BY <1>1, SpanIs
  <2>2. x % Span = x - Span
    BY <2>1, Above
  <2> QED
    BY <1>1, <2>2, SpanIs
<1>2. CASE x # Span
  <2>1. x \in 0..(Span - 1)
    BY <1>2, SpanIs
  <2>2. x % Span = x
    BY <2>1, Within
  <2> QED
    BY <1>2, <2>1, <2>2, SpanIs
<1> QED
  BY <1>1, <1>2

\* A tick later every stamp is a tick further back, until the span is through.
LEMMA OneTickOn ==
    ASSUME NEW now \in 0..(Span - 1), NEW at \in 0..(Span - 1)
    PROVE  Since((now + 1) % Span, at)
             = IF Since(now, at) = Span - 1 THEN 0 ELSE Since(now, at) + 1
<1> DEFINE next == (now + 1) % Span
<1>1. next \in 0..(Span - 1) /\ next = IF now + 1 = Span THEN 0 ELSE now + 1
  BY NextTick
<1>2. Since(next, at) = IF next >= at THEN next - at ELSE next - at + Span
  BY <1>1, SinceIs
<1>3. Since(now, at) = IF now >= at THEN now - at ELSE now - at + Span
  BY SinceIs
<1> HIDE DEF next
<1>4. Since(next, at) = IF Since(now, at) = Span - 1 THEN 0 ELSE Since(now, at) + 1
  BY <1>1, <1>2, <1>3, SpanIs
<1> QED
  BY <1>4 DEF next

\* A lease ends when it is over or a tick later, and never at the sentinel.
LEMMA LeaseEndIs ==
    ASSUME NEW now \in 0..(Span - 1)
    PROVE  /\ LeaseEnd(now) \in 1..(Span - 1)
           /\ Since(now, LeaseEnd(now)) \in {Span - Lease, Span - Lease - 1}
<1> DEFINE x == now + Lease
           at == IF x < Span THEN x ELSE x - Span
<1>1. x % Span = at /\ at \in 0..(Span - 1)
  <2>1. CASE x < Span
    <3>1. x \in 0..(Span - 1)
      BY <2>1, SpanIs
    <3>2. x % Span = x
      BY <3>1, Within
    <3> QED
      BY <2>1, <3>1, <3>2
  <2>2. CASE ~(x < Span)
    <3>1. x \in Span..(2 * Span - 1) /\ x - Span \in 0..(Span - 1)
      BY <2>2, SpanIs
    <3>2. x % Span = x - Span
      BY <3>1, Above
    <3> QED
      BY <2>2, <3>1, <3>2
  <2> QED
    BY <2>1, <2>2
<1>2. LeaseEnd(now) = IF at = 0 THEN 1 ELSE at
  BY <1>1 DEF LeaseEnd
<1>3. LeaseEnd(now) \in 1..(Span - 1)
  BY <1>1, <1>2, SpanIs
<1>4. Since(now, LeaseEnd(now)) = IF now >= LeaseEnd(now) THEN now - LeaseEnd(now)
                                  ELSE now - LeaseEnd(now) + Span
  <2>1. LeaseEnd(now) \in 0..(Span - 1)
    BY <1>3, SpanIs
  <2> QED
    BY <2>1, SinceIs
<1> QED
  BY <1>2, <1>3, <1>4, SpanIs

\* A stamp just gone by is past; one a lease ahead is not.
LEMMA PastIs ==
    ASSUME NEW now, NEW at, Since(now, at) \in 0..Late
    PROVE  Past(now, at)
<1> QED
  BY SpanIs DEF Past

-----------------------------------------------------------------------------
(* The inductive invariant.                                                *)

\* apply() has run after every change of the users.
Follows == rail.on = (rail.users # {})

\* The observer's lease ends Lease ticks after it was taken, or one more.
Leased ==
    /\ seen.leased <= Lease + Late
    /\ THERMAL \in rail.users =>
          /\ seen.leased <= Lease + tick.late
          /\ rail.expires[THERMAL] # 0
          /\ \E x \in {0, 1} :
                Since(tick.now, rail.expires[THERMAL])
                  = IF seen.leased >= Lease + x THEN seen.leased - Lease - x
                    ELSE seen.leased - Lease - x + Span

\* The poll's stamp is at most a pass younger than the host's last frame, and
\* what it found silent has let go.
Stamped ==
    /\ host.heard => seen.silent <= tick.late
    /\ ~ host.heard /\ ~ host.told =>
          /\ Since(tick.now, host.seenAt) <= Silence + tick.late
          /\ seen.silent - Since(tick.now, host.seenAt) \in 0..Late
    /\ ~ host.heard /\ host.told => HOST \notin rail.users /\ ~ armed

RailsInv == TypeOK /\ Follows /\ Leased /\ Stamped

LEMMA InitHolds == Init => RailsInv
<1> SUFFICES ASSUME Init PROVE RailsInv
  OBVIOUS
<1>0. 0 \in 0..(Span - 1) /\ 0 \in 0..Late /\ 0 \in 0..Settle /\ 0 \in 0..Every
      /\ 0 \in 0..(Silence + 3 * Late) /\ 0 \in 0..(Lease + 3 * Late) /\ 0 <= Lease + Late
  BY SpanIs
<1>1. TypeOK
  <2>1. rail \in [users : SUBSET Users, expires : [Users -> 0..(Span - 1)], on : BOOLEAN]
    BY <1>0 DEF Init
  <2> QED
    BY <1>0, <2>1 DEF Init, TypeOK
<1>2. Follows /\ Leased
  <2>1. rail.users = {} /\ rail.on = FALSE /\ seen.leased = 0
    BY DEF Init
  <2> QED
    BY <1>0, <2>1 DEF Follows, Leased
<1>3. Stamped
  <2>1. Since(0, 0) = 0
    BY SpanIs, SinceIs
  <2> QED
    BY <2>1, SpanIs DEF Init, Stamped
<1> QED
  BY <1>1, <1>2, <1>3 DEF RailsInv

\* What the helpers leave of the rail.
RailState == [users : SUBSET Users, expires : [Users -> 0..(Span - 1)], on : BOOLEAN]

LEMMA ReleasedIs ==
    ASSUME NEW r \in RailState, NEW u \in Users
    PROVE  /\ Released(r, u) \in RailState
           /\ Released(r, u).users = r.users \ {u}
           /\ \A v \in Users \ {u} : Released(r, u).expires[v] = r.expires[v]
           /\ Released(r, u).on = (Released(r, u).users # {})
<1> DEFINE n == [r EXCEPT !.users = @ \ {u}, !.expires[u] = 0]
<1>1. Released(r, u) = [n EXCEPT !.on = n.users # {}]
  BY DEF Released, Apply
<1>2. 0 \in 0..(Span - 1)
  BY SpanIs
<1>3. /\ n \in RailState /\ n.users = r.users \ {u}
      /\ n.expires = [r.expires EXCEPT ![u] = 0]
      /\ r.expires \in [Users -> 0..(Span - 1)]
  BY <1>2 DEF RailState
<1> HIDE DEF n
<1>4. /\ Released(r, u) \in RailState /\ Released(r, u).users = n.users
      /\ Released(r, u).expires = n.expires /\ Released(r, u).on = (n.users # {})
  BY <1>1, <1>3 DEF RailState
<1> QED
  BY <1>3, <1>4

LEMMA ExpiredIs ==
    ASSUME NEW r \in RailState
    PROVE  /\ Expired(r) \in RailState
           /\ Expired(r).users \subseteq r.users
           /\ r.on = (r.users # {}) => Expired(r).on = (Expired(r).users # {})
           /\ \A u \in Expired(r).users :
                 /\ Expired(r).expires[u] = r.expires[u]
                 /\ r.expires[u] # 0 => ~ Past(tick.now, r.expires[u])
<1> DEFINE out == {u \in Users : r.expires[u] # 0 /\ Past(tick.now, r.expires[u])}
<1>1. CASE out = {}
  <2>1. Expired(r) = r
    BY <1>1 DEF Expired
  <2> QED
    BY <1>1, <2>1 DEF RailState
<1>2. CASE out # {}
  <2> DEFINE kept == [r EXCEPT !.users = @ \ out,
                               !.expires = [u \in Users |-> IF u \in out THEN 0 ELSE @[u]]]
  <2>1. Expired(r) = Apply(kept)
    BY <1>2 DEF Expired
  <2>2. /\ kept \in RailState /\ kept.users = r.users \ out
        /\ \A u \in kept.users : kept.expires[u] = r.expires[u]
    <3>1. 0 \in 0..(Span - 1)
      BY SpanIs
    <3>2. /\ kept.users = r.users \ out
          /\ kept.expires = [u \in Users |-> IF u \in out THEN 0 ELSE r.expires[u]]
      BY DEF RailState
    <3>3. kept \in RailState
      BY <3>1 DEF RailState
    <3>4. kept.users \subseteq Users
      BY <3>2 DEF RailState
    <3> QED
      BY <3>2, <3>3, <3>4
  <2> HIDE DEF kept
  <2>3. /\ Apply(kept) \in RailState /\ Apply(kept).users = kept.users
        /\ Apply(kept).expires = kept.expires /\ Apply(kept).on = (kept.users # {})
    BY <2>2 DEF Apply, RailState
  <2>4. kept.users \subseteq Users
    BY <2>2 DEF RailState
  <2> QED
    BY <2>1, <2>2, <2>3, <2>4
<1> QED
  BY <1>1, <1>2

LEMMA AcquiredIs ==
    ASSUME TypeOK, NEW u \in Users
    PROVE  /\ Acquired(u) \in RailState
           /\ Acquired(u).users = rail.users \cup {u} /\ Acquired(u).on
           /\ Acquired(u).expires = [rail.expires EXCEPT
                                       ![u] = IF u = HOST THEN 0 ELSE LeaseEnd(tick.now)]
<1>1. LeaseEnd(tick.now) \in 0..(Span - 1)
  BY LeaseEndIs, SpanIs DEF TypeOK
<1>2. 0 \in 0..(Span - 1) /\ rail \in RailState
  BY SpanIs DEF TypeOK, RailState
<1> DEFINE at == IF u = HOST THEN 0 ELSE LeaseEnd(tick.now)
           n == [rail EXCEPT !.users = @ \cup {u}, !.expires[u] = at]
<1>3. Acquired(u) = [n EXCEPT !.on = n.users # {}]
  BY DEF Acquired, Apply
<1>4. at \in 0..(Span - 1)
  BY <1>1, <1>2
<1> HIDE DEF at
<1>5. /\ n \in RailState /\ n.users = rail.users \cup {u}
      /\ n.expires = [rail.expires EXCEPT ![u] = at]
  BY <1>2, <1>4 DEF RailState
<1> HIDE DEF n
<1>6. /\ Acquired(u) \in RailState /\ Acquired(u).users = n.users
      /\ Acquired(u).expires = n.expires /\ Acquired(u).on = (n.users # {})
  BY <1>3, <1>5 DEF RailState
<1> QED
  BY <1>5, <1>6 DEF at

-----------------------------------------------------------------------------
(* What leaves the two clocks be.                                          *)

LEMMA LeasedKept ==
    ASSUME Leased, tick' = tick, seen'.leased = seen.leased,
           THERMAL \in rail'.users =>
              THERMAL \in rail.users /\ rail'.expires[THERMAL] = rail.expires[THERMAL]
    PROVE  Leased'
BY DEF Leased

LEMMA StampedKept ==
    ASSUME Stamped, tick' = tick, seen'.silent = seen.silent,
           host'.heard = host.heard, host'.seenAt = host.seenAt,
           host'.told = host.told,
           HOST \in rail'.users => HOST \in rail.users, armed' => armed
    PROVE  Stamped'
BY DEF Stamped

LEMMA StampedHeard ==
    ASSUME TypeOK, TypeOK', host'.heard, seen'.silent = 0
    PROVE  Stamped'
<1>1. tick'.late >= 0
  BY SpanIs DEF TypeOK
<1> QED
  BY <1>1 DEF Stamped

-----------------------------------------------------------------------------
(* The steps.                                                              *)

LEMMA PowerPollKeeps ==
    ASSUME RailsInv, PowerPoll
    PROVE  RailsInv'
<1> DEFINE silent == ~ Looked.told /\ Since(tick.now, Looked.seenAt) > Silence
           r == IF silent /\ HOST \in rail.users THEN Released(rail, HOST) ELSE rail
<1>1. /\ host' = [Looked EXCEPT !.told = @ \/ silent] /\ rail' = Expired(r)
      /\ armed' = (armed /\ ~ silent) /\ tick' = [tick EXCEPT !.late = 0]
      /\ pc' = "observe" /\ sense' = sense /\ seen' = seen
  BY DEF PowerPoll
<1>2. /\ rail \in RailState /\ tick.now \in 0..(Span - 1) /\ TypeOK
      /\ rail.on = (rail.users # {})
  BY DEF RailsInv, TypeOK, RailState, Follows
<1>3. /\ r \in RailState /\ r.users \subseteq rail.users
      /\ silent => HOST \notin r.users
      /\ THERMAL \in r.users => r.expires[THERMAL] = rail.expires[THERMAL]
      /\ r.on = (r.users # {})
  <2>1. CASE silent /\ HOST \in rail.users
    <3>1. r = Released(rail, HOST) /\ HOST \in Users /\ THERMAL \in Users \ {HOST}
      BY <2>1 DEF Users, HOST, THERMAL
    <3> QED
      BY <3>1, <1>2, ReleasedIs
  <2>2. CASE ~(silent /\ HOST \in rail.users)
    BY <1>2, <2>2
  <2> QED
    BY <2>1, <2>2
<1> HIDE DEF r
<1>4. /\ rail' \in RailState /\ rail'.users \subseteq r.users
      /\ rail'.on = (rail'.users # {})
      /\ \A u \in rail'.users : /\ rail'.expires[u] = r.expires[u]
                                /\ r.expires[u] # 0 => ~ Past(tick.now, r.expires[u])
  BY <1>1, <1>3, ExpiredIs
<1>5. /\ Looked.heard = FALSE
      /\ Looked.seenAt = IF host.heard THEN tick.now ELSE host.seenAt
      /\ Looked.told = IF host.heard THEN FALSE ELSE host.told
      /\ Looked \in [heard : BOOLEAN, seenAt : 0..(Span - 1), told : BOOLEAN, busy : BOOLEAN]
  BY <1>2 DEF Looked, TypeOK
<1>6. silent \in BOOLEAN
  OBVIOUS
<1> HIDE DEF silent
<1>7. /\ host'.heard = FALSE /\ host'.seenAt = Looked.seenAt
      /\ host'.told = (Looked.told \/ silent)
      /\ host' \in [heard : BOOLEAN, seenAt : 0..(Span - 1), told : BOOLEAN, busy : BOOLEAN]
  BY <1>1, <1>5, <1>6
<1>8. tick'.now = tick.now /\ tick'.late = 0 /\ tick' \in [now : 0..(Span - 1), late : 0..Late]
  BY <1>1, <1>2, SpanIs DEF TypeOK
<1>9. TypeOK'
  BY <1>1, <1>2, <1>4, <1>6, <1>7, <1>8 DEF TypeOK, RailState
<1>10. Follows'
  BY <1>4 DEF Follows
<1>11. Leased'
  <2>1. /\ seen.leased \in 0..(Lease + Late) /\ tick.late \in 0..Late
    BY <1>2 DEF RailsInv, Leased, TypeOK
  <2>2. ASSUME THERMAL \in rail'.users
        PROVE  /\ seen.leased <= Lease /\ rail'.expires[THERMAL] # 0
               /\ \E x \in {0, 1} :
                     Since(tick.now, rail'.expires[THERMAL])
                       = IF seen.leased >= Lease + x THEN seen.leased - Lease - x
                         ELSE seen.leased - Lease - x + Span
    <3>1. /\ THERMAL \in rail.users /\ rail'.expires[THERMAL] = rail.expires[THERMAL]
          /\ rail'.expires[THERMAL] # 0 => ~ Past(tick.now, rail'.expires[THERMAL])
      BY <1>3, <1>4, <2>2
    <3>2. PICK x \in {0, 1} :
             Since(tick.now, rail'.expires[THERMAL])
               = IF seen.leased >= Lease + x THEN seen.leased - Lease - x
                 ELSE seen.leased - Lease - x + Span
      BY <3>1 DEF RailsInv, Leased
    <3>3. rail'.expires[THERMAL] # 0
      BY <3>1 DEF RailsInv, Leased
    <3>4. ~ (Since(tick.now, rail'.expires[THERMAL]) \in 0..Late)
      BY <3>1, <3>3, PastIs
    <3>5. seen.leased <= Lease
      BY <2>1, <3>2, <3>4, SpanIs
    <3> QED
      BY <3>2, <3>3, <3>5
  <2>3. seen.leased <= Lease => seen.leased <= Lease + 0
    BY <2>1, SpanIs
  <2> QED
    BY <1>1, <1>8, <2>1, <2>2, <2>3 DEF Leased
<1>12. Stamped'
  <2>1. host'.told /\ ~ host.heard => HOST \notin rail'.users /\ ~ armed'
    BY <1>1, <1>3, <1>4, <1>5, <1>7 DEF RailsInv, Stamped
  <2>2. CASE host.heard
    <3>1. Since(tick.now, tick.now) = 0
      BY <1>2, SinceSame
    <3>2. ~ silent
      <4>1. Looked.seenAt = tick.now /\ ~(0 > Silence)
        BY <2>2, <1>5, SpanIs
      <4> QED
        BY <3>1, <4>1 DEF silent
    <3>3. seen.silent - 0 \in 0..Late
      BY <1>2, <2>2, SpanIs DEF RailsInv, Stamped, TypeOK
    <3>4. 0 <= Silence + 0
      BY SpanIs
    <3> QED
      BY <1>1, <1>5, <1>7, <1>8, <2>2, <3>1, <3>2, <3>3, <3>4 DEF Stamped
  <2>3. CASE ~ host.heard /\ ~ host'.told
    <3>1. ~ host.told /\ ~ silent
      BY <1>5, <1>7, <2>3
    <3>2. ~(Since(tick.now, host.seenAt) > Silence)
      BY <1>5, <2>3, <3>1 DEF silent
    <3>3. Since(tick.now, host.seenAt) \in 0..(Span - 1)
      BY <1>2, SinceIs DEF TypeOK
    <3>4. Since(tick.now, host.seenAt) <= Silence + 0
      BY <3>2, <3>3, SpanIs
    <3>5. seen.silent - Since(tick.now, host.seenAt) \in 0..Late
      BY <2>3, <3>1 DEF RailsInv, Stamped
    <3> QED
      BY <1>1, <1>5, <1>7, <1>8, <2>3, <3>4, <3>5 DEF Stamped
  <2>4. CASE ~ host.heard /\ host'.told
    BY <1>7, <2>1, <2>4 DEF Stamped
  <2> QED
    BY <2>2, <2>3, <2>4
<1> QED
  BY <1>9, <1>10, <1>11, <1>12 DEF RailsInv

\* The observer's part of the loop: it adds and gives back its own hold only.
LEMMA ObserveKeeps ==
    ASSUME RailsInv, Observe
    PROVE  RailsInv'
<1>1. /\ tick' = tick /\ host' = host /\ armed' \in {armed, FALSE} /\ pc' = "link"
      /\ rail \in RailState /\ TypeOK
  BY DEF Observe, RailsInv, TypeOK, RailState
<1>0. armed' => armed
  BY Zenon DEF Observe
<1>2. /\ Watching \in [holding : BOOLEAN, held : 0..Settle, sampled : 0..Every,
                       up : 0..Settle, afeWas : BOOLEAN, ran : BOOLEAN]
      /\ 0 \in 0..Every /\ 0 \in 0..Settle /\ 0 \in 0..(Lease + 3 * Late)
      /\ 0 \in 0..(Lease + Late)
  <2>1. 0 \in 0..Every /\ 0 \in 0..Settle /\ 0 \in 0..(Lease + 3 * Late)
        /\ 0 \in 0..(Lease + Late)
    BY SpanIs
  <2> QED
    BY <1>1, <2>1 DEF Watching, TypeOK
<1>3. /\ sense' \in [holding : BOOLEAN, held : 0..Settle, sampled : 0..Every,
                     up : 0..Settle, afeWas : BOOLEAN, ran : BOOLEAN]
  <2>1. CASE Idles \/ Settles
    BY <1>2, <2>1 DEF Idles, Settles
  <2>2. CASE ReadsAnothers
    BY <1>2, <2>2 DEF ReadsAnothers
  <2>3. CASE Borrows
    BY <1>2, <2>3 DEF Borrows
  <2>4. CASE GivesBack
    BY <1>2, <2>4 DEF GivesBack
  <2> QED
    BY <2>1, <2>2, <2>3, <2>4 DEF Observe
<1>4. CASE /\ rail' \in RailState /\ rail'.users \subseteq rail.users
           /\ rail'.on = (rail'.users # {})
           /\ THERMAL \in rail'.users => rail'.expires[THERMAL] = rail.expires[THERMAL]
           /\ seen'.leased = seen.leased /\ seen'.silent = seen.silent
           /\ seen'.read \in BOOLEAN
           /\ seen' \in [silent : 0..(Silence + 3 * Late),
                         leased : 0..(Lease + 3 * Late), read : BOOLEAN]
  <2>1. TypeOK' /\ Follows'
    BY <1>1, <1>3, <1>4 DEF TypeOK, Follows, RailState
  <2>2. Leased'
    BY <1>1, <1>4, LeasedKept DEF RailsInv
  <2>3. HOST \in rail'.users => HOST \in rail.users
    BY <1>4
  <2>4. Stamped'
    <3>1. /\ tick' = tick /\ seen'.silent = seen.silent /\ host'.heard = host.heard
          /\ host'.seenAt = host.seenAt /\ host'.told = host.told
      BY <1>1, <1>4
    <3>2. Stamped
      BY DEF RailsInv
    <3> QED
      BY <1>0, <2>3, <3>1, <3>2, StampedKept
  <2> QED
    BY <2>1, <2>2, <2>4 DEF RailsInv
<1>5. ASSUME NEW v \in BOOLEAN, seen' = [seen EXCEPT !.read = v]
      PROVE  /\ seen'.leased = seen.leased /\ seen'.silent = seen.silent
             /\ seen'.read \in BOOLEAN
             /\ seen' \in [silent : 0..(Silence + 3 * Late),
                           leased : 0..(Lease + 3 * Late), read : BOOLEAN]
  BY <1>1, <1>5 DEF TypeOK
<1>6. CASE Idles \/ Settles
  <2>1. seen' = [seen EXCEPT !.read = FALSE] /\ rail' = rail
    BY <1>6 DEF Idles, Settles
  <2> QED
    BY <1>1, <1>4, <1>5, <2>1 DEF RailsInv, Follows
<1>7. CASE ReadsAnothers
  <2>1. /\ seen' = [seen EXCEPT !.read = Watching.up >= Settle] /\ rail' = rail
        /\ (Watching.up >= Settle) \in BOOLEAN
    BY <1>7 DEF ReadsAnothers
  <2> QED
    BY <1>1, <1>4, <1>5, <2>1 DEF RailsInv, Follows
<1>8. CASE GivesBack
  <2>1. seen' = [seen EXCEPT !.read = rail.on] /\ rail' = Released(rail, THERMAL)
        /\ rail.on \in BOOLEAN /\ THERMAL \in Users
    BY <1>1, <1>8 DEF GivesBack, RailState, Users
  <2>2. /\ rail' \in RailState /\ rail'.users = rail.users \ {THERMAL}
        /\ rail'.on = (rail'.users # {})
    BY <1>1, <2>1, ReleasedIs
  <2> QED
    BY <1>4, <1>5, <2>1, <2>2
<1>9. CASE Borrows
  <2>1. CASE ~ Takes(THERMAL)
    <3>1. seen' = [seen EXCEPT !.read = FALSE] /\ rail' = rail
      BY <1>9, <2>1 DEF Borrows
    <3> QED
      BY <1>1, <1>4, <1>5, <3>1 DEF RailsInv, Follows
  <2>2. CASE Takes(THERMAL)
    <3>1. /\ rail' = Acquired(THERMAL) /\ THERMAL \in Users /\ THERMAL # HOST
          /\ seen' = [seen EXCEPT !.leased = 0, !.read = FALSE]
      BY <1>9, <2>2 DEF Borrows, Users, THERMAL, HOST
    <3>2. /\ rail' \in RailState /\ rail'.users = rail.users \cup {THERMAL} /\ rail'.on
          /\ rail'.expires = [rail.expires EXCEPT ![THERMAL] = LeaseEnd(tick.now)]
          /\ rail'.on = TRUE
      BY <1>1, <3>1, AcquiredIs DEF RailState
    <3>3. rail'.expires[THERMAL] = LeaseEnd(tick.now)
      BY <1>1, <3>1, <3>2 DEF RailState
    <3>4. /\ seen'.leased = 0 /\ seen'.silent = seen.silent
          /\ seen' \in [silent : 0..(Silence + 3 * Late),
                        leased : 0..(Lease + 3 * Late), read : BOOLEAN]
      BY <1>1, <1>2, <3>1 DEF TypeOK
    <3>5. TypeOK' /\ Follows'
      BY <1>1, <1>3, <3>1, <3>2, <3>4 DEF TypeOK, Follows, RailState
    <3>6. Leased'
      <4>1. /\ LeaseEnd(tick.now) # 0
            /\ Since(tick.now, LeaseEnd(tick.now)) \in {Span - Lease, Span - Lease - 1}
        BY <1>1, LeaseEndIs, SpanIs DEF TypeOK
      <4>2. \E x \in {0, 1} : Since(tick.now, LeaseEnd(tick.now))
               = IF 0 >= Lease + x THEN 0 - Lease - x ELSE 0 - Lease - x + Span
        BY <4>1, SpanIs
      <4>3. 0 <= Lease + Late /\ 0 <= Lease + tick.late
        BY <1>1, SpanIs DEF TypeOK
      <4> QED
        BY <1>1, <3>3, <3>4, <4>1, <4>2, <4>3 DEF Leased
    <3>7. HOST \in rail'.users => HOST \in rail.users
      BY <3>1, <3>2
    <3>8. Stamped'
      <4>1. /\ tick' = tick /\ seen'.silent = seen.silent /\ host'.heard = host.heard
            /\ host'.seenAt = host.seenAt /\ host'.told = host.told
        BY <1>1, <3>4
      <4>2. Stamped
        BY DEF RailsInv
      <4> QED
        BY <1>0, <3>7, <4>1, <4>2, StampedKept
    <3> QED
      BY <3>5, <3>6, <3>8 DEF RailsInv
  <2> QED
    BY <2>1, <2>2
<1> QED
  BY <1>6, <1>7, <1>8, <1>9 DEF Observe

\* A frame, whatever it asks for.
LEMMA HearsKeeps ==
    ASSUME RailsInv, NEW busy \in BOOLEAN, Hears(busy), armed' \in BOOLEAN,
           \/ rail' = rail \/ rail' = Acquired(HOST) \/ rail' = Released(rail, HOST)
           \/ rail' = ReleasedAll
    PROVE  RailsInv'
<1>1. /\ tick' = tick /\ sense' = sense /\ pc' = "power" /\ rail \in RailState /\ TypeOK
      /\ host' \in [heard : BOOLEAN, seenAt : 0..(Span - 1), told : BOOLEAN, busy : BOOLEAN]
      /\ host'.heard /\ seen'.silent = 0 /\ seen'.leased = seen.leased
      /\ seen' \in [silent : 0..(Silence + 3 * Late),
                    leased : 0..(Lease + 3 * Late), read : BOOLEAN]
  <2>1. 0 \in 0..(Silence + 3 * Late)
    BY SpanIs
  <2> QED
    BY <2>1 DEF Hears, RailsInv, TypeOK, RailState
<1>2. /\ rail' \in RailState /\ rail'.on = (rail'.users # {})
      /\ THERMAL \in rail'.users => THERMAL \in rail.users
                                    /\ rail'.expires[THERMAL] = rail.expires[THERMAL]
  <2>0. HOST \in Users /\ THERMAL \in Users \ {HOST} /\ 0 \in 0..(Span - 1)
    BY SpanIs DEF Users, HOST, THERMAL
  <2>1. CASE rail' = rail
    BY <1>1, <2>1 DEF RailsInv, Follows
  <2>2. CASE rail' = Released(rail, HOST)
    BY <1>1, <2>0, <2>2, ReleasedIs
  <2>3. CASE rail' = Acquired(HOST)
    <3>1. /\ rail' \in RailState /\ rail'.users = rail.users \cup {HOST} /\ rail'.on
          /\ rail'.expires = [rail.expires EXCEPT ![HOST] = 0]
      BY <1>1, <2>0, <2>3, AcquiredIs
    <3>2. rail'.on = TRUE /\ rail.expires \in [Users -> 0..(Span - 1)]
      BY <1>1, <3>1 DEF RailState
    <3> QED
      BY <2>0, <3>1, <3>2
  <2>4. CASE rail' = ReleasedAll
    <3> DEFINE n == [rail EXCEPT !.users = {}, !.expires = [u \in Users |-> 0]]
    <3>1. n \in RailState /\ n.users = {}
      BY <1>1, <2>0 DEF RailState
    <3>2. rail' = [n EXCEPT !.on = n.users # {}]
      BY <2>4 DEF ReleasedAll, Apply
    <3> HIDE DEF n
    <3>3. rail' \in RailState /\ rail'.users = {} /\ rail'.on = (n.users # {})
      BY <3>1, <3>2 DEF RailState
    <3> QED
      BY <3>1, <3>3
  <2> QED
    BY <2>1, <2>2, <2>3, <2>4
<1>3. TypeOK' /\ Follows'
  BY <1>1, <1>2 DEF TypeOK, Follows, RailState
<1>4. Leased'
  BY <1>1, <1>2, LeasedKept DEF RailsInv
<1>5. Stamped'
  BY <1>1, <1>3, StampedHeard
<1> QED
  BY <1>3, <1>4, <1>5 DEF RailsInv

\* A tick ages the lease and the silence, and the pass with them.
LEMMA TickKeeps ==
    ASSUME RailsInv, Tick
    PROVE  RailsInv'
<1>1. /\ TypeOK /\ tick.late < Late /\ tick.late \in 0..Late
      /\ tick' = [now |-> (tick.now + 1) % Span, late |-> tick.late + 1]
      /\ rail' = rail /\ host' = host /\ armed' = armed /\ pc' = pc
      /\ tick.now \in 0..(Span - 1)
  BY DEF Tick, RailsInv, TypeOK
<1>2. tick'.now = (tick.now + 1) % Span /\ tick'.now \in 0..(Span - 1)
      /\ tick'.late = tick.late + 1 /\ tick'.late \in 0..Late
      /\ tick' \in [now : 0..(Span - 1), late : 0..Late]
  <2>1. (tick.now + 1) % Span \in 0..(Span - 1)
    BY <1>1, NextTick
  <2>2. tick.late + 1 \in 0..Late
    BY <1>1, SpanIs
  <2> QED
    BY <1>1, <2>1, <2>2
<1>3. sense' \in [holding : BOOLEAN, held : 0..Settle, sampled : 0..Every,
                  up : 0..Settle, afeWas : BOOLEAN, ran : BOOLEAN]
  <2>1. /\ Lesser(sense.held + 1, Settle) \in 0..Settle
        /\ Lesser(sense.sampled + 1, Every) \in 0..Every
        /\ Lesser(sense.up + 1, Settle) \in 0..Settle
    BY <1>1, SpanIs DEF TypeOK, Lesser
  <2> QED
    BY <1>1, <2>1 DEF Tick, TypeOK
<1>4. /\ seen'.silent = Lesser(seen.silent + 1, Silence + 3 * Late)
      /\ seen'.leased = IF THERMAL \in rail.users
                        THEN Lesser(seen.leased + 1, Lease + 3 * Late) ELSE 0
      /\ seen'.read = seen.read /\ seen.silent \in 0..(Silence + 3 * Late)
      /\ seen.leased \in 0..(Lease + 3 * Late)
  BY <1>1 DEF Tick, TypeOK
<1>5. seen' \in [silent : 0..(Silence + 3 * Late),
                 leased : 0..(Lease + 3 * Late), read : BOOLEAN]
  <2> DEFINE a == Lesser(seen.silent + 1, Silence + 3 * Late)
             b == IF THERMAL \in rail.users
                  THEN Lesser(seen.leased + 1, Lease + 3 * Late) ELSE 0
  <2>1. a \in 0..(Silence + 3 * Late) /\ b \in 0..(Lease + 3 * Late)
    BY <1>4, SpanIs DEF Lesser
  <2>2. seen' = [seen EXCEPT !.silent = a, !.leased = b]
    BY <1>1 DEF Tick, TypeOK
  <2> HIDE DEF a, b
  <2> QED
    BY <1>1, <2>1, <2>2 DEF TypeOK
<1>6. TypeOK' /\ Follows'
  BY <1>1, <1>2, <1>3, <1>5 DEF TypeOK, Follows, RailsInv
<1>7. Leased'
  <2>1. CASE THERMAL \notin rail.users
    <3>1. seen'.leased = 0 /\ 0 <= Lease + Late
      BY <1>4, <2>1, SpanIs
    <3> QED
      BY <1>1, <2>1, <3>1 DEF Leased
  <2>2. CASE THERMAL \in rail.users
    <3> DEFINE at == rail.expires[THERMAL]
    <3>1. at \in 0..(Span - 1) /\ at # 0 /\ seen.leased <= Lease + tick.late
      BY <1>1, <2>2 DEF RailsInv, Leased, TypeOK, Users
    <3>2. PICK x \in {0, 1} :
             Since(tick.now, at) = IF seen.leased >= Lease + x THEN seen.leased - Lease - x
                                   ELSE seen.leased - Lease - x + Span
      BY <2>2 DEF RailsInv, Leased
    <3>3. Since(tick'.now, at)
            = IF Since(tick.now, at) = Span - 1 THEN 0 ELSE Since(tick.now, at) + 1
      BY <1>1, <1>2, <3>1, OneTickOn
    <3> HIDE DEF at
    <3>4. seen'.leased = seen.leased + 1 /\ seen'.leased <= Lease + tick'.late
          /\ seen'.leased <= Lease + Late
      BY <1>1, <1>2, <1>4, <2>2, <3>1, SpanIs DEF Lesser
    <3>5. Since(tick'.now, at)
            = IF seen'.leased >= Lease + x THEN seen'.leased - Lease - x
              ELSE seen'.leased - Lease - x + Span
      BY <1>1, <1>4, <3>1, <3>2, <3>3, <3>4, SpanIs
    <3> QED
      BY <1>1, <3>1, <3>4, <3>5 DEF Leased, at
  <2> QED
    BY <2>1, <2>2
<1>8. Stamped'
  <2>1. CASE host.heard
    <3>1. seen'.silent <= tick'.late
      BY <1>1, <1>2, <1>4, <2>1, SpanIs DEF RailsInv, Stamped, Lesser
    <3> QED
      BY <1>1, <2>1, <3>1 DEF Stamped
  <2>2. CASE ~ host.heard /\ ~ host.told
    <3> DEFINE g == Since(tick.now, host.seenAt)
    <3>1. /\ g <= Silence + tick.late /\ seen.silent - g \in 0..Late /\ g \in 0..(Span - 1)
      BY <1>1, <2>2, SinceIs DEF RailsInv, Stamped, TypeOK
    <3>2. Since(tick'.now, host.seenAt) = IF g = Span - 1 THEN 0 ELSE g + 1
      BY <1>1, <1>2, OneTickOn DEF TypeOK
    <3> HIDE DEF g
    <3>3. Since(tick'.now, host.seenAt) = g + 1 /\ g + 1 <= Silence + tick'.late
      BY <1>1, <1>2, <3>1, <3>2, SpanIs
    <3>4. seen'.silent = seen.silent + 1
      BY <1>1, <1>4, <3>1, SpanIs DEF Lesser
    <3>5. seen'.silent - (g + 1) \in 0..Late
      BY <1>4, <3>1, <3>4
    <3> QED
      BY <1>1, <2>2, <3>3, <3>5 DEF Stamped
  <2>3. CASE ~ host.heard /\ host.told
    BY <1>1, <2>3 DEF RailsInv, Stamped
  <2> QED
    BY <2>1, <2>2, <2>3
<1> QED
  BY <1>6, <1>7, <1>8 DEF RailsInv

\* What touches neither rail nor clock.
LEMMA OthersKeep ==
    ASSUME RailsInv, PassesOver \/ Quiet \/ StageFalls \/ UNCHANGED vars
    PROVE  RailsInv'
<1>0. TypeOK
  BY DEF RailsInv
<1>1. /\ tick' = tick /\ rail' = rail /\ sense' = sense /\ seen' = seen
      /\ host'.heard = host.heard /\ host'.seenAt = host.seenAt
      /\ host'.told = host.told /\ (armed' => armed)
      /\ TypeOK'
  <2>1. CASE PassesOver
    BY <1>0, <2>1 DEF PassesOver, TypeOK
  <2>2. CASE Quiet
    BY <1>0, <2>2 DEF Quiet, TypeOK
  <2>3. CASE StageFalls
    BY <1>0, <2>3 DEF StageFalls, TypeOK
  <2>4. CASE UNCHANGED vars
    BY <1>0, <2>4 DEF vars, TypeOK
  <2> QED
    BY <2>1, <2>2, <2>3, <2>4
<1>2. Follows' /\ Leased'
  BY <1>1, LeasedKept DEF RailsInv, Follows
<1>3. Stamped'
  BY <1>1, StampedKept DEF RailsInv
<1> QED
  BY <1>1, <1>2, <1>3 DEF RailsInv

LEMMA StepHolds ==
    ASSUME RailsInv, [Next]_vars
    PROVE  RailsInv'
<1>1. CASE PowerPoll
  BY <1>1, PowerPollKeeps
<1>2. CASE Observe
  BY <1>2, ObserveKeeps
<1>3. CASE Chatter \/ AfeOn \/ AfeOff \/ ReleaseAll \/ Arm \/ Disarm
  <2>1. /\ \E busy \in BOOLEAN : Hears(busy)
        /\ \/ rail' = rail \/ rail' = Acquired(HOST) \/ rail' = Released(rail, HOST)
           \/ rail' = ReleasedAll
        /\ armed' \in BOOLEAN
    BY <1>3 DEF Chatter, AfeOn, AfeOff, ReleaseAll, Arm, Disarm, RailsInv, TypeOK
  <2> QED
    BY <2>1, HearsKeeps
<1>4. CASE Tick
  BY <1>4, TickKeeps
<1>5. CASE PassesOver \/ Quiet \/ StageFalls \/ UNCHANGED vars
  BY <1>5, OthersKeep
<1> QED
  BY <1>1, <1>2, <1>3, <1>4, <1>5 DEF Next, Loop

-----------------------------------------------------------------------------
(* The theorems.                                                           *)

\* board_power.c and the observer, whatever the ticks' width: users, stamps and
\* ages stay what they are said to be, the pin follows the users.
THEOREM RailsInvariant == Spec => []RailsInv
BY InitHolds, StepHolds, PTL DEF Spec

THEOREM TypeCorrect == Spec => []TypeOK
<1>1. RailsInv => TypeOK
  BY DEF RailsInv
<1> QED
  BY <1>1, RailsInvariant, PTL

\* expire_leases: however the observer is starved and wherever the tick wraps, its
\* hold is gone with its lease and the pass under way.
THEOREM LeaseEnds == Spec => []LeasesEnd
<1>1. RailsInv => LeasesEnd
  BY DEF RailsInv, Leased, LeasesEnd
<1> QED
  BY <1>1, RailsInvariant, PTL

\* drop_host_claims: a host silent for long holds no rail and arms no stage.
THEOREM SilenceIsDropped == Spec => []SilenceDrops
<1>1. ASSUME RailsInv, seen.silent > Silence + 2 * Late
      PROVE  HOST \notin rail.users /\ ~ armed
  <2>1. seen.silent \in Nat /\ tick.late \in 0..Late
    BY <1>1 DEF RailsInv, TypeOK
  <2>2. ~ host.heard
    BY <1>1, <2>1, SpanIs DEF RailsInv, Stamped
  <2>3. Since(tick.now, host.seenAt) \in 0..(Span - 1)
    BY <1>1, SinceIs DEF RailsInv, TypeOK
  <2>4. host.told
    BY <1>1, <2>1, <2>2, <2>3, SpanIs DEF RailsInv, Stamped
  <2> QED
    BY <1>1, <2>2, <2>4 DEF RailsInv, Stamped
<1>2. RailsInv => SilenceDrops
  BY <1>1 DEF SilenceDrops
<1> QED
  BY <1>2, RailsInvariant, PTL

\* blocked(): the switched rail is never brought up under armed gates.
THEOREM RailStaysDown == Spec => NeverUpUnderArmed
<1>1. ASSUME RailsInv, Next, armed, ~ rail.on, rail'.on
      PROVE  ~ armed'
  <2>0. rail.users = {} /\ rail \in RailState /\ THERMAL \in Users /\ HOST \in Users
    BY <1>1 DEF RailsInv, Follows, TypeOK, RailState, Users
  <2>1. ~ Takes(THERMAL) /\ ~ Takes(HOST)
    BY <1>1, <2>0 DEF Takes
  <2>2. CASE PowerPoll
    <3>1. rail'.users \subseteq rail.users
      <4> DEFINE r == IF (~ Looked.told /\ Since(tick.now, Looked.seenAt) > Silence)
                         /\ HOST \in rail.users THEN Released(rail, HOST) ELSE rail
      <4>1. rail' = Expired(r) /\ r = rail
        BY <2>0, <2>2 DEF PowerPoll
      <4> QED
        BY <2>0, <4>1, ExpiredIs
    <3>2. Follows'
      BY <1>1, <2>2, PowerPollKeeps DEF RailsInv
    <3> QED
      BY <1>1, <2>0, <3>1, <3>2 DEF Follows
  <2>3. CASE Observe
    <3>1. rail' = rail \/ rail' = Released(rail, THERMAL)
      BY <2>1, <2>3 DEF Observe, Idles, ReadsAnothers, Borrows, Settles, GivesBack
    <3> QED
      BY <1>1, <2>0, <3>1, ReleasedIs, ZenonT(40)
  <2>4. CASE AfeOn \/ AfeOff
    <3>1. rail' = rail \/ rail' = Released(rail, HOST)
      BY <2>1, <2>4 DEF AfeOn, AfeOff
    <3> QED
      BY <1>1, <2>0, <3>1, ReleasedIs, ZenonT(40)
  <2>5. CASE ReleaseAll
    <3> DEFINE n == [rail EXCEPT !.users = {}, !.expires = [u \in Users |-> 0]]
    <3>1. rail' = [n EXCEPT !.on = n.users # {}] /\ n.users = {} /\ "on" \in DOMAIN n
      BY <2>0, <2>5 DEF ReleaseAll, ReleasedAll, Apply, RailState
    <3> HIDE DEF n
    <3> QED
      BY <1>1, <3>1
  <2>6. CASE PassesOver \/ Quiet \/ Chatter \/ Arm \/ Disarm \/ StageFalls \/ Tick
    BY <1>1, <2>6 DEF PassesOver, Quiet, Chatter, Arm, Disarm, StageFalls, Tick
  <2> QED
    BY <1>1, <2>2, <2>3, <2>4, <2>5, <2>6 DEF Next, Loop
<1>2. RailsInv /\ [Next]_vars => [armed /\ ~ rail.on /\ rail'.on => ~ armed']_vars
  BY <1>1
<1> QED
  BY <1>2, RailsInvariant, PTL DEF Spec, NeverUpUnderArmed

=============================================================================
