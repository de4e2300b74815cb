--------------------------- MODULE PwmStage_proof ---------------------------
(***************************************************************************)
(* The gate stage for any legs, triples, periods and ops, with a break or  *)
(* without, where a frame of the host's takes two periods or more: who     *)
(* writes the compares, and how the drive's triples get there; then how    *)
(* long a counted hold runs, what the bridge closes on and what an arming  *)
(* puts on it.                                                             *)
(***************************************************************************)
EXTENDS PwmStage, TLAPS

-----------------------------------------------------------------------------
(* The inductive invariant.                                                *)

DutyOps == {"all", "fine", "alternate"}

SkewOps == {"unskew", "skew"}

\* A disable between its two stores: the struct forgotten, the timer not yet.
Mid == main.op \in {"disable", "drop"} /\ main.at = 2

\* What the op under way was asked.
Asks ==
    main.op \in DutyOps =>
        main.a \in Duties /\ main.b \in Duties /\ main.n \in 0..MaxPeriods

\* Board_PwmSetNext's owner is the drive, which shares the update interrupt
\* with nobody.
Owners ==
    /\ pwm.owns => drv.owned /\ ~pwm.dither /\ ~pwm.alternate /\ pwm.countdown = 0
    /\ drv.due => drv.sync
    /\ Mid => ~pwm.armed /\ ~pwm.owns

\* A drive that is on and owns nothing yet has its sample within three half
\* periods of the op that turned it on or armed its sync.
Waits == drv.on /\ ~drv.owned /\ drv.sync

Sampled ==
    Waits => /\ drv.due => calm <= 3 /\ (tim.down => calm <= 2)
             /\ ~drv.due => calm <= 1 /\ (tim.down => calm <= 0)

\* No sample takes the compares while an op of the host's writes them.
NoTaker == main.op \in DutyOps => ~pwm.owns /\ ~Waits

\* The straight way into the compares and the other way, with what the skew's
\* stores leave open between two of them.
Ways ==
    /\ pwm.direct /\ ~Mid => /\ pwm.owns /\ ~pwm.pending
                             /\ tim.rcr = 1 \/ (Wanted /\ main.at = 3)
    /\ pwm.owns /\ ~pwm.direct => tim.uie \/ (Wanted /\ main.at \in {4, 5, 6})

\* A skew under way: no drive takes the compares beside it, and the interrupt
\* stands down for nobody that needs it.
Skewing ==
    main.op \in SkewOps =>
        /\ ~Waits
        /\ main.at > 1 => (pwm.skew <=> Wanted)
        /\ main.at = 7 => ~(pwm.owns /\ ~pwm.direct)

StageInv == TypeOK /\ Asks /\ Owners /\ Sampled /\ NoTaker /\ Ways /\ Skewing

-----------------------------------------------------------------------------
(* Types, record by record.                                                *)

LEMMA Numbers ==
    /\ Legs \in Nat \ {0} /\ MaxPeriods \in Nat /\ Pace \in Nat
    /\ 0 \in 0..1 /\ 1 \in 0..1 /\ 0 \in 0..MaxPeriods /\ 0 \in 0..Pace
    /\ 0..7 \subseteq 0..(Legs + 7)
BY StageAssumption

LEMMA AllTriples == ASSUME NEW t \in Tags PROVE All(t) \in Triples
BY DEF All, Triples

LEMMA TagsAre == Drive \in Tags /\ Zero \in Tags /\ Duties \cup {Zero} \subseteq Tags
BY DEF Tags

LEMMA NoHoldIs == NoHold \in HoldState
BY DEF NoHold, HoldState

LEMMA QuietIs == Quiet \in MainState
BY Numbers DEF Quiet, MainState

LEMMA DownIs == ASSUME NEW p \in PwmState PROVE Down(p) \in PwmState
BY Numbers DEF Down, PwmState

LEMMA OffIs == ASSUME NEW t \in TimState PROVE Off(t) \in TimState
BY Numbers DEF Off, TimState

LEMMA PwmFields ==
    ASSUME NEW p \in PwmState
    PROVE  /\ \A v \in BOOLEAN : [p EXCEPT !.armed = v] \in PwmState
           /\ \A v \in BOOLEAN : [p EXCEPT !.dither = v] \in PwmState
           /\ \A v \in BOOLEAN : [p EXCEPT !.alternate = v] \in PwmState
           /\ \A v \in 0..1 : [p EXCEPT !.to = v] \in PwmState
           /\ \A v \in Duties \cup {Zero} : [p EXCEPT !.a = v] \in PwmState
           /\ \A v \in Duties \cup {Zero} : [p EXCEPT !.b = v] \in PwmState
           /\ \A v \in BOOLEAN : [p EXCEPT !.skew = v] \in PwmState
           /\ \A v \in 0..MaxPeriods : [p EXCEPT !.countdown = v] \in PwmState
           /\ \A v \in BOOLEAN : [p EXCEPT !.owns = v] \in PwmState
           /\ \A v \in BOOLEAN : [p EXCEPT !.pending = v] \in PwmState
           /\ \A v \in BOOLEAN : [p EXCEPT !.landed = v] \in PwmState
           /\ \A v \in BOOLEAN : [p EXCEPT !.direct = v] \in PwmState
           /\ \A v \in BOOLEAN : [p EXCEPT !.toDirect = v] \in PwmState
BY DEF PwmState

\* A step of another's leaves a skew under way as it is.
LEMMA SkewRests ==
    ASSUME StageInv, main' = main, pwm'.skew = pwm.skew, Waits' => Waits,
           pwm'.owns /\ ~pwm'.direct => pwm.owns /\ ~pwm.direct
    PROVE  Skewing'
BY DEF StageInv, Skewing, Wanted

-----------------------------------------------------------------------------
(* The timer and its interrupts.                                           *)

LEMMA EventKeeps ==
    ASSUME StageInv, Pace >= 4, Event
    PROVE  StageInv'
<1> DEFINE update == tim.rep = 0
<1>1. /\ tim \in TimState /\ drv \in DrvState /\ ccr \in Triples /\ act \in Triples
      /\ hold \in HoldState /\ calm \in 0..Pace
      /\ ~tim.down => ~drv.due
      /\ tim' = [tim EXCEPT !.down = ~@, !.uif = @ \/ update,
                            !.rep = IF update THEN tim.rcr ELSE @ - 1]
      /\ act' = IF update THEN ccr ELSE act
      /\ drv' = [drv EXCEPT !.due = IF tim.down THEN @ ELSE drv.sync]
      /\ calm' = IF calm < Pace THEN calm + 1 ELSE calm
      /\ pwm' = pwm /\ main' = main /\ ccr' = ccr /\ bdtr' = bdtr /\ asked' = asked
  BY DEF TypeOK, Event, StageInv
<1>2. tim' \in TimState /\ tim'.down = ~tim.down /\ tim'.rcr = tim.rcr /\ tim'.uie = tim.uie
  <2>1. (IF update THEN tim.rcr ELSE tim.rep - 1) \in 0..1
    BY <1>1 DEF TimState
  <2> HIDE DEF update
  <2> QED
    BY <1>1, <2>1 DEF TimState
<1>3. /\ drv' \in DrvState /\ drv'.on = drv.on /\ drv'.owned = drv.owned
      /\ drv'.sync = drv.sync /\ drv'.due = IF tim.down THEN drv.due ELSE drv.sync
  BY <1>1 DEF DrvState
<1>4. calm' \in 0..Pace
  BY <1>1, Numbers
<1>5. hold' \in HoldState
  <2>1. PICK now : hold' = Watched(now)
    BY DEF Event
  <2> QED
    BY <1>1, <2>1 DEF Watched, HoldState
<1>6. TypeOK'
  BY <1>1, <1>2, <1>3, <1>4, <1>5 DEF StageInv, TypeOK
<1>7. Sampled'
  <2>1. SUFFICES ASSUME Waits
                 PROVE  /\ drv'.due => calm' <= 3 /\ (tim'.down => calm' <= 2)
                        /\ ~drv'.due => calm' <= 1 /\ (tim'.down => calm' <= 0)
    BY <1>3 DEF Sampled, Waits
  <2>2. calm' <= calm + 1 /\ calm \in Nat /\ calm' \in Nat
    BY <1>1, <1>4, Numbers
  <2>3. CASE tim.down
    <3>1. ~tim'.down
      BY <1>2, <2>3
    <3>2. drv'.due = drv.due
      BY <1>3, <2>3
    <3>3. (drv.due => calm <= 2) /\ (~drv.due => calm <= 0)
      BY <2>1, <2>3 DEF StageInv, Sampled
    <3> QED
      BY <2>2, <3>1, <3>2, <3>3
  <2>4. CASE ~tim.down
    <3>1. ~drv.due /\ calm <= 1
      BY <1>1, <2>1, <2>4 DEF StageInv, Sampled
    <3>2. drv'.due
      BY <1>3, <2>1, <2>4 DEF Waits
    <3> QED
      BY <1>2, <2>2, <3>1, <3>2
  <2> QED
    BY <2>3, <2>4
<1>8. Asks' /\ NoTaker' /\ Ways' /\ Skewing'
  <2>1. Asks' /\ NoTaker' /\ Ways'
    BY <1>1, <1>2, <1>3 DEF StageInv, Asks, NoTaker, Waits, Ways, Wanted, Mid
  <2>2. Skewing'
    BY <1>1, <1>3, SkewRests DEF Waits
  <2> QED
    BY <2>1, <2>2
<1>9. Owners'
  <2>1. drv'.due => drv'.sync
    BY <1>1, <1>3 DEF StageInv, Owners
  <2> QED
    BY <1>1, <1>3, <2>1 DEF StageInv, Owners, Mid
<1> QED
  BY <1>6, <1>7, <1>8, <1>9 DEF StageInv

LEMMA BreakKeeps ==
    ASSUME StageInv, Break
    PROVE  StageInv'
<1>1. /\ tim \in TimState /\ tim' = [tim EXCEPT !.moe = FALSE, !.bif = TRUE]
      /\ ccr' = ccr /\ act' = act /\ pwm' = pwm /\ drv' = drv /\ main' = main
      /\ bdtr' = bdtr /\ calm' = calm /\ hold' = hold /\ asked' = asked
  BY DEF TypeOK, Break, StageInv
<1>2. tim' \in TimState /\ tim'.down = tim.down /\ tim'.rcr = tim.rcr /\ tim'.uie = tim.uie
  BY <1>1 DEF TimState
<1>3. TypeOK'
  BY <1>1, <1>2 DEF StageInv, TypeOK
<1>4. Asks' /\ Owners' /\ NoTaker' /\ Ways'
  BY <1>1, <1>2 DEF StageInv, Asks, Owners, NoTaker, Waits, Ways, Wanted, Mid
<1>5. Sampled' /\ Skewing'
  BY <1>1, <1>2, SkewRests DEF StageInv, Sampled, Waits
<1> QED
  BY <1>3, <1>4, <1>5 DEF StageInv

LEMMA WritesBackKeeps ==
    ASSUME StageInv, WritesBack
    PROVE  StageInv'
<1>1. /\ tim \in TimState /\ bdtr \in BOOLEAN
      /\ tim' = [tim EXCEPT !.moe = bdtr /\ ~tim.bif]
      /\ ccr' = ccr /\ act' = act /\ pwm' = pwm /\ drv' = drv /\ main' = main
      /\ bdtr' = None /\ calm' = calm /\ hold' = hold /\ asked' = asked
  BY DEF TypeOK, WritesBack, StageInv
<1>2. tim' \in TimState /\ tim'.down = tim.down /\ tim'.rcr = tim.rcr /\ tim'.uie = tim.uie
  BY <1>1 DEF TimState
<1>3. TypeOK'
  BY <1>1, <1>2 DEF StageInv, TypeOK
<1>4. Asks' /\ Owners' /\ NoTaker' /\ Ways'
  BY <1>1, <1>2 DEF StageInv, Asks, Owners, NoTaker, Waits, Ways, Wanted, Mid
<1>5. Sampled' /\ Skewing'
  BY <1>1, <1>2, SkewRests DEF StageInv, Sampled, Waits
<1> QED
  BY <1>3, <1>4, <1>5 DEF StageInv

LEMMA UpdateKeeps ==
    ASSUME StageInv, Update
    PROVE  StageInv'
<1>1. /\ tim \in TimState /\ pwm \in PwmState /\ drv \in DrvState /\ ccr \in Triples
      /\ tim.uie /\ act' = act /\ drv' = drv /\ main' = main /\ calm' = calm
      /\ hold' = hold /\ asked' = asked
      /\ bdtr' = (IF pwm.skew THEN tim.moe ELSE None)
  BY DEF Update, Pended, StageInv, TypeOK
<1>2. bdtr' \in BOOLEAN \cup {None}
  BY <1>1 DEF TimState
<1>3. /\ Stood \in PwmState
      /\ Stood.owns = pwm.owns /\ Stood.direct = pwm.direct
      /\ Stood.toDirect = pwm.toDirect /\ Stood.pending = pwm.pending
      /\ Stood.skew = pwm.skew /\ Stood.armed = pwm.armed /\ Stood.landed = pwm.landed
      /\ Stood.a = pwm.a /\ Stood.b = pwm.b /\ Stood.to = pwm.to
      /\ pwm.owns => ~Stood.dither /\ ~Stood.alternate /\ Stood.countdown = 0 /\ ~Expires
  <2> DEFINE n == IF Counted THEN pwm.countdown - 1 ELSE pwm.countdown
             h == 1 - pwm.half
             c == [pwm EXCEPT !.half = h, !.countdown = n]
  <2>1. n \in 0..MaxPeriods /\ h \in 0..1
    BY <1>1, Numbers DEF Counted, PwmState
  <2>2. pwm.owns => n = 0 /\ ~Counted /\ ~Expires
    BY <1>1 DEF StageInv, Owners, Counted, Expires
  <2>3. Stood = IF Expires THEN [c EXCEPT !.alternate = FALSE, !.dither = FALSE] ELSE c
    BY <1>1 DEF Stood, PwmState
  <2> HIDE DEF n, h
  <2>4. /\ c \in PwmState /\ c.owns = pwm.owns /\ c.direct = pwm.direct
        /\ c.toDirect = pwm.toDirect /\ c.pending = pwm.pending
        /\ c.skew = pwm.skew /\ c.armed = pwm.armed /\ c.landed = pwm.landed
        /\ c.a = pwm.a /\ c.b = pwm.b /\ c.to = pwm.to /\ c.countdown = n
        /\ c.dither = pwm.dither /\ c.alternate = pwm.alternate
    BY <1>1, <2>1 DEF PwmState
  <2> HIDE DEF c
  <2>5. CASE Expires
    BY <2>2, <2>3, <2>4, <2>5 DEF PwmState
  <2>6. CASE ~Expires
    BY <2>2, <2>3, <2>4, <2>6 DEF StageInv, Owners
  <2> QED
    BY <2>5, <2>6
<1>4. /\ Cleared \in TimState /\ Cleared.down = tim.down /\ Cleared.rcr = tim.rcr
      /\ ~Expires => Cleared.uie
  <2> DEFINE u == tim.uie /\ (Expires => pwm.skew)
  <2>1. u \in BOOLEAN /\ (~Expires => u)
    BY <1>1
  <2>2. Cleared = [tim EXCEPT !.uif = FALSE, !.uie = u]
    BY <1>1 DEF Cleared, TimState
  <2> HIDE DEF u
  <2> QED
    BY <1>1, <2>1, <2>2 DEF TimState
<1>5. CASE Alternates
  <2>1. /\ Stood.alternate /\ pwm' = [Stood EXCEPT !.to = 1 - @] /\ tim' = Cleared
        /\ ccr' = All(IF pwm.to = 1 THEN pwm.b ELSE pwm.a)
    BY <1>5 DEF Alternates
  <2>2. ccr' \in Triples
    BY <1>1, <2>1, AllTriples, TagsAre DEF PwmState
  <2>3. /\ pwm' \in PwmState /\ pwm'.owns = pwm.owns /\ pwm'.direct = pwm.direct
        /\ pwm'.toDirect = pwm.toDirect /\ pwm'.pending = pwm.pending
        /\ pwm'.skew = pwm.skew /\ pwm'.armed = pwm.armed /\ ~pwm.owns
    BY <1>1, <1>3, <2>1 DEF PwmState
  <2>4. TypeOK'
    BY <1>1, <1>2, <1>4, <2>1, <2>2, <2>3 DEF TypeOK, StageInv
  <2>5. Asks' /\ Owners' /\ Sampled' /\ NoTaker'
    BY <1>1, <1>4, <2>1, <2>3 DEF StageInv, Asks, Owners, Sampled, NoTaker, Waits, Mid
  <2>6. Ways' /\ Skewing'
    BY <1>1, <1>4, <2>1, <2>3, SkewRests DEF StageInv, Ways, Wanted, Waits, Mid
  <2> QED
    BY <2>4, <2>5, <2>6 DEF StageInv
<1>6. CASE Dithers
  <2>1. /\ ~pwm.owns /\ pwm' = Stood /\ tim' = Cleared
        /\ ccr' = IF Stood.dither /\ Stood.half = 0 THEN All(pwm.a)
                  ELSE IF Expires THEN All(Zero) ELSE ccr
    BY <1>6 DEF Dithers
  <2>2. ccr' \in Triples
    BY <1>1, <2>1, AllTriples, TagsAre DEF PwmState
  <2>4. TypeOK'
    BY <1>1, <1>2, <1>3, <1>4, <2>1, <2>2 DEF TypeOK, StageInv
  <2>5. Asks' /\ Owners' /\ Sampled' /\ NoTaker'
    BY <1>1, <1>3, <1>4, <2>1 DEF StageInv, Asks, Owners, Sampled, NoTaker, Waits, Mid
  <2>6. Ways' /\ Skewing'
    BY <1>1, <1>3, <1>4, <2>1, SkewRests DEF StageInv, Ways, Wanted, Waits, Mid
  <2> QED
    BY <2>4, <2>5, <2>6 DEF StageInv
<1>7. CASE Lands
  <2> DEFINE land == pwm.pending /\ ~tim.down
             enter == pwm.toDirect /\ ~tim.down
  <2>1. /\ pwm.owns
        /\ ccr' = IF land THEN All(Drive) ELSE IF Expires THEN All(Zero) ELSE ccr
        /\ pwm' = [Stood EXCEPT !.pending = @ /\ ~land, !.landed = @ \/ land,
                                !.direct = @ \/ enter, !.toDirect = @ /\ ~enter]
        /\ tim' = [Cleared EXCEPT !.rcr = IF enter THEN 1 ELSE @, !.uie = @ /\ ~enter]
    BY <1>7 DEF Lands
  <2>2. ccr' \in Triples
    BY <1>1, <2>1, AllTriples, TagsAre
  <2>3. /\ land \in BOOLEAN /\ enter \in BOOLEAN /\ (enter => ~(pwm.pending /\ ~land))
        /\ enter => pwm.toDirect
    BY <1>1 DEF PwmState, TimState
  <2> HIDE DEF land, enter
  <2>4. /\ pwm' \in PwmState /\ pwm'.owns /\ pwm'.direct = (pwm.direct \/ enter)
        /\ pwm'.toDirect = (pwm.toDirect /\ ~enter)
        /\ pwm'.pending = (pwm.pending /\ ~land)
        /\ pwm'.skew = pwm.skew /\ pwm'.armed = pwm.armed
        /\ pwm'.dither = Stood.dither /\ pwm'.alternate = Stood.alternate
        /\ pwm'.countdown = Stood.countdown
    <3> DEFINE n1 == pwm.pending /\ ~land
               n2 == pwm.landed \/ land
               n3 == pwm.direct \/ enter
               n4 == pwm.toDirect /\ ~enter
    <3>1. n1 \in BOOLEAN /\ n2 \in BOOLEAN /\ n3 \in BOOLEAN /\ n4 \in BOOLEAN
      OBVIOUS
    <3>2. pwm' = [Stood EXCEPT !.pending = n1, !.landed = n2, !.direct = n3, !.toDirect = n4]
      BY <1>3, <2>1 DEF PwmState
    <3> HIDE DEF n1, n2, n3, n4
    <3>3. /\ pwm' \in PwmState /\ pwm'.owns = Stood.owns /\ pwm'.direct = n3
          /\ pwm'.toDirect = n4 /\ pwm'.pending = n1
          /\ pwm'.skew = Stood.skew /\ pwm'.armed = Stood.armed
          /\ pwm'.dither = Stood.dither /\ pwm'.alternate = Stood.alternate
          /\ pwm'.countdown = Stood.countdown
      <4>1. Stood \in PwmState
        BY <1>3
      <4>2. pwm' \in PwmState
        BY <3>1, <3>2, <4>1, PwmFields
      <4>3. /\ pwm'.owns = Stood.owns /\ pwm'.direct = n3
            /\ pwm'.toDirect = n4 /\ pwm'.pending = n1
        BY <3>1, <3>2, <4>1 DEF PwmState
      <4>4. /\ pwm'.skew = Stood.skew /\ pwm'.armed = Stood.armed
            /\ pwm'.dither = Stood.dither /\ pwm'.alternate = Stood.alternate
            /\ pwm'.countdown = Stood.countdown
        BY <3>1, <3>2, <4>1 DEF PwmState
      <4> QED
        BY <4>2, <4>3, <4>4
    <3>4. /\ pwm'.direct = (pwm.direct \/ enter) /\ pwm'.toDirect = (pwm.toDirect /\ ~enter)
          /\ pwm'.pending = (pwm.pending /\ ~land)
      BY <3>3 DEF n1, n3, n4
    <3>5. pwm'.owns /\ pwm'.skew = pwm.skew /\ pwm'.armed = pwm.armed
      BY <1>3, <2>1, <3>3
    <3> QED
      BY <3>3, <3>4, <3>5
  <2>5. /\ tim' \in TimState /\ tim'.down = tim.down
        /\ tim'.rcr = (IF enter THEN 1 ELSE tim.rcr) /\ tim'.uie = (Cleared.uie /\ ~enter)
    BY <1>4, <2>1, <2>3, Numbers DEF TimState
  <2>6. TypeOK'
    BY <1>1, <1>2, <2>2, <2>4, <2>5 DEF TypeOK, StageInv
  <2>7. Asks' /\ Owners' /\ Sampled' /\ NoTaker'
    <3>1. Asks' /\ NoTaker'
      BY <1>1, <2>1, <2>4 DEF StageInv, Asks, NoTaker, Waits
    <3>2. Owners'
      BY <1>1, <1>3, <2>1, <2>4 DEF StageInv, Owners, Mid
    <3>3. Sampled'
      BY <1>1, <2>5 DEF StageInv, Sampled, Waits
    <3> QED
      BY <3>1, <3>2, <3>3
  <2>8. ~Mid
    BY <2>1 DEF StageInv, Owners
  <2>9. Ways'
    <3>1. CASE enter
      <4>1. ~pwm'.pending /\ tim'.rcr = 1 /\ pwm'.direct
        BY <2>3, <2>4, <2>5, <3>1
      <4> QED
        BY <2>4, <4>1 DEF Ways
    <3>2. CASE ~enter
      <4>1. /\ pwm'.direct = pwm.direct /\ tim'.rcr = tim.rcr /\ tim'.uie
            /\ pwm'.pending => pwm.pending
        BY <1>3, <1>4, <2>1, <2>4, <2>5, <3>2 DEF PwmState
      <4> QED
        BY <1>1, <2>1, <2>4, <2>8, <4>1 DEF StageInv, Ways, Wanted, Mid
    <3> QED
      BY <3>1, <3>2
  <2>10. Skewing'
    BY <1>1, <2>1, <2>4, SkewRests DEF Waits
  <2> QED
    BY <2>6, <2>7, <2>9, <2>10 DEF StageInv
<1> QED
  BY <1>5, <1>6, <1>7 DEF Update

-----------------------------------------------------------------------------
(* The drive's sample.                                                     *)

LEMMA TripKeeps ==
    ASSUME StageInv, Sample, Trip
    PROVE  StageInv'
<1>1. /\ tim \in TimState /\ pwm \in PwmState /\ drv \in DrvState
      /\ pwm' = Down(pwm) /\ tim' = Off(tim) /\ ccr' = All(Zero) /\ hold' = NoHold
      /\ drv' = [drv EXCEPT !.due = FALSE, !.on = FALSE, !.owned = FALSE]
      /\ act' = act /\ main' = main /\ bdtr' = bdtr /\ calm' = calm /\ asked' = asked
  BY DEF StageInv, TypeOK, Sample, Trip
<1>2. /\ pwm' \in PwmState /\ ~pwm'.armed /\ ~pwm'.owns /\ ~pwm'.direct
      /\ pwm'.skew = pwm.skew
  BY <1>1, DownIs, ZenonT(40) DEF Down, PwmState
<1>3. tim' \in TimState /\ tim'.rcr = 0
  BY <1>1, OffIs DEF Off, TimState
<1>4. drv' \in DrvState /\ ~drv'.on /\ ~drv'.due
  BY <1>1 DEF DrvState
<1>5. TypeOK'
  BY <1>1, <1>2, <1>3, <1>4, AllTriples, TagsAre, NoHoldIs DEF StageInv, TypeOK
<1>6. Asks' /\ Owners' /\ Sampled' /\ NoTaker' /\ Ways'
  BY <1>1, <1>2, <1>3, <1>4
     DEF StageInv, Asks, Owners, Sampled, NoTaker, Waits, Ways, Mid
<1>7. Skewing'
  BY <1>1, <1>2, <1>4, SkewRests DEF Waits
<1> QED
  BY <1>5, <1>6, <1>7 DEF StageInv

LEMMA LetsGoKeepsInv ==
    ASSUME StageInv, Sample, LetsGoOrIdles
    PROVE  StageInv'
<1>1. /\ tim \in TimState /\ pwm \in PwmState /\ drv \in DrvState
      /\ drv' = [drv EXCEPT !.due = FALSE, !.on = FALSE, !.owned = FALSE]
      /\ act' = act /\ main' = main /\ bdtr' = bdtr /\ calm' = calm
      /\ hold' = hold /\ asked' = asked
  BY DEF StageInv, TypeOK, Sample, LetsGoOrIdles
<1>2. drv' \in DrvState /\ ~drv'.on /\ ~drv'.due
  BY <1>1 DEF DrvState
<1>3. CASE drv.owned
  <2> DEFINE u == pwm.skew \/ pwm.dither
  <2>1. /\ pwm' = [pwm EXCEPT !.owns = FALSE, !.pending = FALSE, !.landed = FALSE,
                              !.direct = FALSE, !.toDirect = FALSE]
        /\ tim' = [tim EXCEPT !.open = TRUE, !.rcr = 0, !.uie = u]
        /\ ccr' = All(Zero) /\ u \in BOOLEAN
    BY <1>3 DEF LetsGoOrIdles
  <2>2. /\ pwm' \in PwmState /\ ~pwm'.owns /\ ~pwm'.direct
        /\ pwm'.armed = pwm.armed /\ pwm'.skew = pwm.skew
    BY <1>1, <2>1 DEF PwmState
  <2> HIDE DEF u
  <2>3. tim' \in TimState /\ tim'.rcr = 0
    BY <1>1, <2>1, Numbers DEF TimState
  <2>4. TypeOK'
    BY <1>1, <1>2, <2>1, <2>2, <2>3, AllTriples, TagsAre DEF StageInv, TypeOK
  <2>5. Asks' /\ Owners' /\ Sampled' /\ NoTaker' /\ Ways'
    BY <1>1, <1>2, <2>2, <2>3
       DEF StageInv, Asks, Owners, Sampled, NoTaker, Waits, Ways, Mid
  <2>6. Skewing'
    BY <1>1, <1>2, <2>2, SkewRests DEF Waits
  <2> QED
    BY <2>4, <2>5, <2>6 DEF StageInv
<1>4. CASE ~drv.owned
  <2>1. pwm' = pwm /\ tim' = tim /\ ccr' = ccr /\ ~pwm.owns
    BY <1>4 DEF LetsGoOrIdles, StageInv, Owners
  <2>2. TypeOK'
    BY <1>1, <1>2, <2>1 DEF StageInv, TypeOK
  <2>3. Asks' /\ Owners' /\ Sampled' /\ NoTaker' /\ Ways'
    BY <1>1, <1>2, <2>1
       DEF StageInv, Asks, Owners, Sampled, NoTaker, Waits, Ways, Mid
  <2>4. Skewing'
    BY <1>1, <1>2, <2>1, SkewRests DEF Waits
  <2> QED
    BY <2>2, <2>3, <2>4 DEF StageInv
<1> QED
  BY <1>3, <1>4

LEMMA DrivesKeeps ==
    ASSUME StageInv, Sample, Drives
    PROVE  StageInv'
<1> DEFINE p == Owned(pwm)
           pend == p.pending \/ ~p.direct
           f == tim.uif /\ drv.owned
           u == tim.uie \/ ~drv.owned
           o == tim.open /\ ~p.landed
<1>1. /\ tim \in TimState /\ pwm \in PwmState /\ drv \in DrvState /\ ccr \in Triples
      /\ hold \in HoldState /\ drv.due /\ drv.on /\ pwm.armed
      /\ pwm' = [p EXCEPT !.pending = @ \/ ~p.direct]
      /\ tim' = [tim EXCEPT !.uif = @ /\ drv.owned, !.uie = @ \/ ~drv.owned,
                            !.open = @ /\ ~p.landed]
      /\ ccr' = IF p.direct THEN All(Drive) ELSE ccr
      /\ drv' = [drv EXCEPT !.due = FALSE, !.owned = TRUE]
      /\ asked' = TRUE /\ hold' = IF drv.owned THEN hold ELSE NoHold
      /\ act' = act /\ main' = main /\ bdtr' = bdtr /\ calm' = calm
  BY DEF StageInv, TypeOK, Sample, Drives, Enabled
<1>2. pend \in BOOLEAN /\ f \in BOOLEAN /\ u \in BOOLEAN /\ o \in BOOLEAN
  OBVIOUS
<1>3. drv' \in DrvState /\ drv'.owned /\ ~drv'.due
  BY <1>1 DEF DrvState
<1>4. /\ tim' \in TimState /\ tim'.rcr = tim.rcr /\ tim'.uie = u
  <2>1. tim' = [tim EXCEPT !.uif = f, !.uie = u, !.open = o]
    BY <1>1 DEF TimState
  <2> HIDE DEF f, u, o
  <2> QED
    BY <1>1, <1>2, <2>1 DEF TimState
<1>5. ccr' \in Triples /\ hold' \in HoldState
  BY <1>1, AllTriples, TagsAre, NoHoldIs
<1>6. ~Mid /\ Waits = ~drv.owned
  BY <1>1 DEF StageInv, Owners, Waits, DrvState
<1>7. CASE drv.owned
  <2>1. p = pwm
    BY <1>7 DEF Owned
  <2>2. pend = (pwm.pending \/ ~pwm.direct) /\ u = tim.uie
    BY <1>1, <1>7, <2>1 DEF TimState
  <2>3. pwm' = [pwm EXCEPT !.pending = pend]
    BY <1>1, <2>1 DEF PwmState
  <2> HIDE DEF pend, p, u
  <2>4. /\ pwm' \in PwmState /\ pwm'.owns = pwm.owns /\ pwm'.direct = pwm.direct
        /\ pwm'.toDirect = pwm.toDirect /\ pwm'.skew = pwm.skew /\ pwm'.armed = pwm.armed
        /\ pwm'.dither = pwm.dither /\ pwm'.alternate = pwm.alternate
        /\ pwm'.countdown = pwm.countdown /\ pwm'.pending = pend
    BY <1>1, <1>2, <2>3 DEF PwmState
  <2>5. TypeOK'
    BY <1>1, <1>3, <1>4, <1>5, <2>4 DEF StageInv, TypeOK
  <2>6. Asks' /\ Owners' /\ Sampled' /\ NoTaker'
    BY <1>1, <1>3, <2>4 DEF StageInv, Asks, Owners, Sampled, NoTaker, Waits, Mid
  <2>7. Ways'
    BY <1>1, <1>4, <1>6, <2>2, <2>4 DEF StageInv, Ways, Wanted, Mid
  <2>8. Skewing'
    BY <1>1, <1>3, <2>4, SkewRests DEF Waits
  <2> QED
    BY <2>5, <2>6, <2>7, <2>8 DEF StageInv
<1>8. CASE ~drv.owned
  <2>1. ~pwm.owns /\ ~pwm.direct /\ u /\ main.op \notin DutyOps \cup SkewOps
    BY <1>1, <1>6, <1>8 DEF StageInv, Owners, Ways, NoTaker, Skewing
  <2> DEFINE d == ~pwm.skew
             q == [pwm EXCEPT !.dither = FALSE, !.alternate = FALSE, !.countdown = 0,
                              !.pending = FALSE, !.landed = FALSE, !.owns = TRUE,
                              !.toDirect = d]
  <2>2. p = q /\ d \in BOOLEAN /\ (d => ~pwm.skew)
    BY <1>8 DEF Owned
  <2> HIDE DEF d
  <2>3. /\ q \in PwmState /\ q.owns /\ q.direct = pwm.direct /\ q.toDirect = d
        /\ q.skew = pwm.skew /\ q.armed = pwm.armed
        /\ ~q.dither /\ ~q.alternate /\ q.countdown = 0
    <3>1. q \in PwmState
      BY <1>1, <2>2, Numbers, PwmFields
    <3>2. q.owns /\ q.direct = pwm.direct /\ q.toDirect = d
      BY <1>1 DEF PwmState
    <3>3. /\ q.skew = pwm.skew /\ q.armed = pwm.armed
          /\ ~q.dither /\ ~q.alternate /\ q.countdown = 0
      BY <1>1 DEF PwmState
    <3> QED
      BY <3>1, <3>2, <3>3
  <2>4. p \in PwmState /\ pwm' = [p EXCEPT !.pending = pend]
    BY <1>1, <2>2, <2>3 DEF PwmState
  <2> HIDE DEF q, p, pend, u
  <2>5. /\ pwm' \in PwmState /\ pwm'.owns /\ pwm'.direct = pwm.direct
        /\ pwm'.toDirect = d /\ pwm'.skew = pwm.skew /\ pwm'.armed = pwm.armed
        /\ ~pwm'.dither /\ ~pwm'.alternate /\ pwm'.countdown = 0
    <3>1. /\ pwm' \in PwmState /\ pwm'.owns = p.owns /\ pwm'.direct = p.direct
          /\ pwm'.toDirect = p.toDirect /\ pwm'.skew = p.skew /\ pwm'.armed = p.armed
          /\ pwm'.dither = p.dither /\ pwm'.alternate = p.alternate
          /\ pwm'.countdown = p.countdown
      BY <1>2, <2>4 DEF PwmState
    <3> QED
      BY <2>2, <2>3, <3>1
  <2>6. TypeOK'
    BY <1>1, <1>3, <1>4, <1>5, <2>5 DEF StageInv, TypeOK
  <2>7. Asks' /\ Owners' /\ Sampled' /\ NoTaker'
    <3>1. Asks' /\ NoTaker' /\ Sampled'
      BY <1>1, <1>3, <2>1 DEF StageInv, Asks, Sampled, NoTaker, Waits
    <3>2. Owners'
      BY <1>1, <1>3, <1>6, <2>5 DEF Owners, Mid
    <3> QED
      BY <3>1, <3>2
  <2>8. Ways' /\ Skewing'
    BY <1>1, <1>4, <2>1, <2>5 DEF Ways, Skewing
  <2> QED
    BY <2>6, <2>7, <2>8 DEF StageInv
<1> QED
  BY <1>7, <1>8

-----------------------------------------------------------------------------
(* The loop's ops, store by store.                                         *)

\* What an op of the host's may take for granted while it writes.
LEMMA DutyAlone ==
    ASSUME StageInv, main.op \in DutyOps
    PROVE  /\ ~pwm.owns /\ ~Waits /\ ~Mid /\ ~pwm.direct
           /\ main.a \in Duties /\ main.b \in Duties /\ main.n \in 0..MaxPeriods
<1>1. ~pwm.owns /\ ~Waits /\ ~Mid
  BY DEF StageInv, NoTaker, DutyOps, Mid
<1> QED
  BY <1>1 DEF StageInv, Ways, Asks

LEMMA AllStandsDownKeeps ==
    ASSUME StageInv, AllStandsDown
    PROVE  StageInv'
<1>1. /\ tim \in TimState /\ pwm \in PwmState /\ main \in MainState
      /\ main.op = "all" /\ main.at = 1
      /\ pwm' = [pwm EXCEPT !.dither = FALSE, !.alternate = FALSE, !.countdown = 0]
      /\ tim' = [tim EXCEPT !.uie = pwm.skew]
      /\ hold' = NoHold /\ asked' = TRUE /\ main' = [main EXCEPT !.at = @ + 1]
      /\ bdtr' = bdtr /\ ccr' = ccr /\ act' = act /\ drv' = drv /\ calm' = calm
  BY DEF StageInv, TypeOK, AllStandsDown, In, Next1
<1>2. ~pwm.owns /\ ~Waits /\ ~pwm.direct
  BY <1>1, DutyAlone DEF DutyOps
<1>3. pwm' \in PwmState /\ pwm'.owns = pwm.owns /\ pwm'.direct = pwm.direct
  BY <1>1, Numbers DEF PwmState
<1>4. tim' \in TimState
  BY <1>1 DEF TimState, PwmState
<1>5. /\ main' \in MainState /\ main'.op = "all" /\ main'.a = main.a
      /\ main'.b = main.b /\ main'.n = main.n
  <2>1. main' = [main EXCEPT !.at = 2]
    BY <1>1 DEF MainState
  <2> QED
    BY <1>1, <2>1, Numbers DEF MainState
<1>6. TypeOK'
  BY <1>1, <1>3, <1>4, <1>5, NoHoldIs DEF StageInv, TypeOK
<1>7. Asks' /\ Owners' /\ Sampled' /\ NoTaker' /\ Ways' /\ Skewing'
  BY <1>1, <1>2, <1>3, <1>4, <1>5
     DEF StageInv, Asks, Owners, Sampled, NoTaker, Waits, Ways, Skewing, SkewOps, Mid
<1> QED
  BY <1>6, <1>7 DEF StageInv

LEMMA StoreKeeps ==
    ASSUME StageInv, Store
    PROVE  StageInv'
<1>1. PICK k \in Leg : /\ In("all", k + 1) \/ In("enable", k)
                       /\ ccr' = [ccr EXCEPT ![k] = main.a]
  BY DEF Store
<1>2. /\ main \in MainState /\ ccr \in Triples /\ main' = [main EXCEPT !.at = @ + 1]
      /\ main.op \in {"all", "enable"} /\ main.at \in {k, k + 1} /\ k \in 1..Legs
      /\ tim' = tim /\ pwm' = pwm /\ hold' = hold /\ asked' = asked
      /\ bdtr' = bdtr /\ act' = act /\ drv' = drv /\ calm' = calm
  BY <1>1 DEF StageInv, TypeOK, Store, In, Next1, Leg
<1>3. ccr' \in Triples
  <2>1. main.a \in Tags
    BY <1>2, TagsAre DEF MainState
  <2> QED
    BY <1>1, <1>2, <2>1 DEF Triples
<1>4. /\ main' \in MainState /\ main'.op = main.op /\ main'.a = main.a
      /\ main'.b = main.b /\ main'.n = main.n
  <2>1. main.at + 1 \in 0..(Legs + 7)
    BY <1>2, Numbers
  <2> QED
    BY <1>2, <2>1 DEF MainState
<1>5. TypeOK'
  BY <1>2, <1>3, <1>4 DEF StageInv, TypeOK
<1>6. ~Mid /\ ~Mid' /\ ~Wanted /\ ~Wanted' /\ main'.op \notin SkewOps
  BY <1>2, <1>4 DEF Mid, Wanted, SkewOps
<1>7. Asks' /\ Owners' /\ Sampled' /\ NoTaker' /\ Ways' /\ Skewing'
  BY <1>2, <1>4, <1>6 DEF StageInv, Asks, Owners, Sampled, NoTaker, Waits, Ways, Skewing
<1> QED
  BY <1>5, <1>7 DEF StageInv

\* An op that writes duties and ends: the stage owned by nobody, the struct's
\* ownership as it was.
LEMMA DutyEnds ==
    ASSUME StageInv, main.op \in DutyOps, TypeOK',
           main' = Quiet, drv' = drv,
           pwm'.owns = pwm.owns, pwm'.direct = pwm.direct
    PROVE  StageInv'
<1>1. ~pwm.owns /\ ~Waits /\ ~pwm.direct
  BY DutyAlone
<1>2. main'.op \notin DutyOps \cup SkewOps /\ ~Mid'
  BY DEF Quiet, DutyOps, SkewOps, Mid
<1> QED
  BY <1>1, <1>2 DEF StageInv, Asks, Owners, Sampled, NoTaker, Waits, Ways, Skewing

LEMMA AllCountsKeeps ==
    ASSUME StageInv, AllCounts
    PROVE  StageInv'
<1> DEFINE u == tim.uie \/ main.n # 0
<1>1. /\ tim \in TimState /\ pwm \in PwmState /\ main.op = "all"
      /\ pwm' = [pwm EXCEPT !.countdown = main.n]
      /\ tim' = [tim EXCEPT !.open = FALSE, !.uie = @ \/ main.n # 0]
      /\ hold' = IF main.n = 0 THEN NoHold
                 ELSE [of |-> {main.a}, ran |-> 0, want |-> 2 * main.n]
      /\ main' = Quiet /\ calm' = 0 /\ asked' = asked
      /\ bdtr' = bdtr /\ ccr' = ccr /\ act' = act /\ drv' = drv
  BY DEF StageInv, TypeOK, AllCounts, In, Answered
<1>2. main.a \in Duties /\ main.n \in 0..MaxPeriods /\ main.n \in Nat
  BY <1>1, DutyAlone, Numbers DEF DutyOps
<1>3. pwm' \in PwmState /\ pwm'.owns = pwm.owns /\ pwm'.direct = pwm.direct
  BY <1>1, <1>2 DEF PwmState
<1>4. tim' \in TimState
  <2>1. u \in BOOLEAN /\ tim' = [tim EXCEPT !.open = FALSE, !.uie = u]
    BY <1>1 DEF TimState
  <2> HIDE DEF u
  <2> QED
    BY <1>1, <2>1 DEF TimState
<1>5. hold' \in HoldState
  BY <1>1, <1>2, NoHoldIs DEF HoldState
<1>6. TypeOK'
  BY <1>1, <1>3, <1>4, <1>5, QuietIs, Numbers DEF StageInv, TypeOK
<1> QED
  BY <1>1, <1>3, <1>4, <1>6, DutyEnds DEF DutyOps

LEMMA FineTakesKeeps ==
    ASSUME StageInv, FineTakes
    PROVE  StageInv'
<1>1. /\ tim \in TimState /\ pwm \in PwmState /\ main.op = "fine"
      /\ pwm' = [pwm EXCEPT !.dither = TRUE, !.alternate = FALSE, !.countdown = 0,
                            !.a = main.a]
      /\ tim' = [tim EXCEPT !.uif = FALSE, !.uie = TRUE, !.open = FALSE]
      /\ hold' = NoHold /\ asked' = TRUE
      /\ main' = Quiet /\ calm' = 0
      /\ bdtr' = bdtr /\ ccr' = ccr /\ act' = act /\ drv' = drv
  BY DEF StageInv, TypeOK, FineTakes, In, Answered
<1>2. main.a \in Duties
  BY <1>1, DutyAlone DEF DutyOps
<1>3. pwm' \in PwmState /\ pwm'.owns = pwm.owns /\ pwm'.direct = pwm.direct
  BY <1>1, <1>2, Numbers DEF PwmState
<1>4. tim' \in TimState
  BY <1>1 DEF TimState
<1>5. TypeOK'
  BY <1>1, <1>3, <1>4, NoHoldIs, QuietIs, Numbers DEF StageInv, TypeOK
<1> QED
  BY <1>1, <1>3, <1>4, <1>5, DutyEnds DEF DutyOps

LEMMA AlternateTakesKeeps ==
    ASSUME StageInv, AlternateTakes
    PROVE  StageInv'
<1>1. /\ tim \in TimState /\ pwm \in PwmState /\ main.op = "alternate"
      /\ pwm' = [pwm EXCEPT !.dither = FALSE, !.alternate = TRUE, !.to = 1,
                            !.countdown = main.n, !.a = main.a, !.b = main.b]
      /\ ccr' = All(main.a)
      /\ tim' = [tim EXCEPT !.uif = FALSE, !.uie = TRUE, !.open = FALSE]
      /\ hold' = IF main.n = 0 THEN NoHold
                 ELSE [of |-> {main.a, main.b}, ran |-> 0, want |-> 2 * main.n]
      /\ asked' = TRUE /\ main' = Quiet /\ calm' = 0
      /\ bdtr' = bdtr /\ act' = act /\ drv' = drv
  BY DEF StageInv, TypeOK, AlternateTakes, In, Answered
<1>2. main.a \in Duties /\ main.b \in Duties /\ main.n \in 0..MaxPeriods /\ main.n \in Nat
  BY <1>1, DutyAlone, Numbers DEF DutyOps
<1>3. pwm' \in PwmState /\ pwm'.owns = pwm.owns /\ pwm'.direct = pwm.direct
  BY <1>1, <1>2, Numbers DEF PwmState
<1>4. tim' \in TimState
  BY <1>1 DEF TimState
<1>5. hold' \in HoldState
  BY <1>1, <1>2, NoHoldIs DEF HoldState
<1>6. TypeOK'
  BY <1>1, <1>2, <1>3, <1>4, <1>5, AllTriples, TagsAre, QuietIs, Numbers
     DEF StageInv, TypeOK
<1> QED
  BY <1>1, <1>3, <1>4, <1>6, DutyEnds DEF DutyOps

LEMMA EnableArmsKeeps ==
    ASSUME StageInv, EnableArms
    PROVE  StageInv'
<1>1. /\ tim \in TimState /\ pwm \in PwmState /\ main.op = "enable"
      /\ pwm' = [pwm EXCEPT !.armed = TRUE]
      /\ tim' = [tim EXCEPT !.open = FALSE, !.moe = TRUE]
      /\ asked' = (asked /\ tim.moe) /\ main' = Quiet /\ calm' = 0
      /\ bdtr' = bdtr /\ ccr' = ccr /\ act' = act /\ drv' = drv /\ hold' = hold
  BY DEF StageInv, TypeOK, EnableArms, In, Answered
<1>2. /\ pwm' \in PwmState /\ pwm'.owns = pwm.owns /\ pwm'.direct = pwm.direct
      /\ pwm'.pending = pwm.pending /\ pwm'.dither = pwm.dither
      /\ pwm'.alternate = pwm.alternate /\ pwm'.countdown = pwm.countdown
  BY <1>1 DEF PwmState
<1>3. /\ tim' \in TimState /\ tim'.rcr = tim.rcr /\ tim'.uie = tim.uie
  BY <1>1 DEF TimState
<1>4. asked' \in BOOLEAN
  BY <1>1 DEF StageInv, TypeOK
<1>5. TypeOK'
  BY <1>1, <1>2, <1>3, <1>4, QuietIs, Numbers DEF StageInv, TypeOK
<1>6. main'.op \notin DutyOps \cup SkewOps /\ ~Mid' /\ ~Mid /\ ~Wanted
  BY <1>1 DEF Quiet, DutyOps, SkewOps, Mid, Wanted
<1>7. Asks' /\ Owners' /\ NoTaker' /\ Ways' /\ Skewing'
  BY <1>1, <1>2, <1>3, <1>6 DEF StageInv, Asks, Owners, NoTaker, Ways, Skewing
<1>8. Sampled'
  BY <1>1 DEF Sampled
<1> QED
  BY <1>5, <1>7, <1>8 DEF StageInv

LEMMA DisableForgetsKeeps ==
    ASSUME StageInv, DisableForgets
    PROVE  StageInv'
<1> DEFINE d == pwm.direct
           e == pwm.toDirect
<1>1. /\ tim \in TimState /\ pwm \in PwmState /\ main \in MainState
      /\ main.op \in {"disable", "drop"} /\ main.at = 1
      /\ pwm' = [Down(pwm) EXCEPT !.direct = d, !.toDirect = e]
      /\ hold' = NoHold /\ main' = [main EXCEPT !.at = @ + 1]
      /\ bdtr' = bdtr /\ tim' = tim /\ ccr' = ccr /\ act' = act /\ drv' = drv
      /\ calm' = calm /\ asked' = asked
  BY DEF StageInv, TypeOK, DisableForgets, In, Next1
<1>2. d \in BOOLEAN /\ e \in BOOLEAN
  BY <1>1 DEF PwmState
<1>3. Down(pwm) \in PwmState /\ ~Down(pwm).armed /\ ~Down(pwm).owns
  BY <1>1, DownIs, ZenonT(40) DEF Down, PwmState
<1>4. /\ pwm' \in PwmState /\ ~pwm'.armed /\ ~pwm'.owns /\ pwm'.direct = pwm.direct
  <2> DEFINE q == Down(pwm)
  <2>1. q \in PwmState /\ ~q.armed /\ ~q.owns /\ pwm' = [q EXCEPT !.direct = d, !.toDirect = e]
    BY <1>1, <1>3
  <2> HIDE DEF q, d, e
  <2>2. pwm' \in PwmState /\ ~pwm'.armed /\ ~pwm'.owns /\ pwm'.direct = d
    BY <1>2, <2>1 DEF PwmState
  <2> QED
    BY <2>2 DEF d
<1>5. main' \in MainState /\ main'.op = main.op /\ main'.at = 2
  <2>1. main' = [main EXCEPT !.at = 2]
    BY <1>1 DEF MainState
  <2> QED
    BY <1>1, <2>1, Numbers DEF MainState
<1>6. TypeOK'
  BY <1>1, <1>4, <1>5, NoHoldIs DEF StageInv, TypeOK
<1>7. main'.op \notin DutyOps \cup SkewOps /\ Mid'
  BY <1>1, <1>5 DEF DutyOps, SkewOps, Mid
<1>8. Asks' /\ Owners' /\ Sampled' /\ NoTaker' /\ Ways' /\ Skewing'
  BY <1>1, <1>4, <1>7 DEF StageInv, Asks, Owners, Sampled, NoTaker, Waits, Ways, Skewing
<1> QED
  BY <1>6, <1>8 DEF StageInv

LEMMA DisableStopsKeeps ==
    ASSUME StageInv, DisableStops
    PROVE  StageInv'
<1>1. /\ tim \in TimState /\ pwm \in PwmState /\ Mid
      /\ pwm' = [pwm EXCEPT !.direct = FALSE, !.toDirect = FALSE]
      /\ tim' = Off(tim) /\ ccr' = All(Zero) /\ main' = Quiet
      /\ calm' \in {0, calm} /\ calm \in 0..Pace
      /\ bdtr' = bdtr /\ act' = act /\ drv' = drv /\ hold' = hold /\ asked' = asked
  BY DEF StageInv, TypeOK, DisableStops, In, Answered, Mid
<1>2. pwm' \in PwmState /\ ~pwm'.owns /\ ~pwm'.direct
  BY <1>1 DEF PwmState, StageInv, Owners
<1>3. tim' \in TimState /\ tim'.down = tim.down
  BY <1>1, OffIs DEF Off, TimState
<1>4. TypeOK'
  BY <1>1, <1>2, <1>3, AllTriples, TagsAre, QuietIs, Numbers DEF StageInv, TypeOK
<1>5. main'.op \notin DutyOps \cup SkewOps /\ ~Mid'
  BY <1>1 DEF Quiet, DutyOps, SkewOps, Mid
<1>6. Asks' /\ Owners' /\ NoTaker' /\ Ways' /\ Skewing'
  BY <1>1, <1>2, <1>5 DEF StageInv, Asks, Owners, NoTaker, Ways, Skewing
<1>7. Sampled'
  BY <1>1, <1>3, Numbers DEF StageInv, Sampled, Waits
<1> QED
  BY <1>4, <1>6, <1>7 DEF StageInv

\* A skew's next store: the same op, a place on.
LEMMA NextIs ==
    ASSUME main \in MainState, main.op \in SkewOps, main.at \in 1..6, NEW i \in 2..7,
           main' = [main EXCEPT !.at = i]
    PROVE  /\ main' \in MainState /\ main'.op = main.op /\ main'.at = i
           /\ main'.op \in SkewOps /\ (Wanted' <=> Wanted)
BY Numbers DEF MainState, Wanted

\* What a skew's steps have in common.
LEMMA SkewIs ==
    ASSUME TypeOK, Skew
    PROVE  /\ main.op \in SkewOps /\ main.at \in 1..7
           /\ main' \in MainState /\ main'.op \in SkewOps \cup {"none"}
           /\ pwm' \in PwmState /\ tim' \in TimState /\ calm' \in {0, calm}
           /\ pwm'.armed = pwm.armed /\ pwm'.dither = pwm.dither
           /\ pwm'.alternate = pwm.alternate /\ pwm'.countdown = pwm.countdown
           /\ pwm'.owns = pwm.owns /\ pwm'.pending = pwm.pending
           /\ pwm'.landed = pwm.landed /\ (pwm'.direct => pwm.direct)
           /\ tim'.rcr \in {0, tim.rcr} /\ tim'.rep = tim.rep /\ tim'.moe = tim.moe
           /\ tim'.bif = tim.bif /\ tim'.open = tim.open /\ tim'.down = tim.down
           /\ UNCHANGED <<bdtr, ccr, act, drv, hold, asked>>
<1>1. tim \in TimState /\ pwm \in PwmState /\ main \in MainState
  BY DEF TypeOK
<1>2. /\ main.op \in SkewOps /\ main.at \in 1..7 /\ Wanted \in BOOLEAN
      /\ UNCHANGED <<bdtr, ccr, act, drv, hold, asked>>
  BY DEF Skew, SkewSet, SkewLeavesDirect, SkewForgetsDirect, SkewAsksDirect, SkewFinds,
         SkewTests, SkewUpdates, InSkew, In, SkewOps, Wanted
<1>3. CASE SkewUpdates
  <2>1. /\ pwm' = pwm /\ \E u \in BOOLEAN : tim' = [tim EXCEPT !.uie = u]
    BY <1>3 DEF SkewUpdates
  <2>2. \/ main' = Quiet /\ calm' \in {0, calm}
        \/ main' = [main EXCEPT !.op = "skew", !.at = 1] /\ calm' = calm
    BY <1>3 DEF SkewUpdates, Answered
  <2>3. main' \in MainState /\ main'.op \in SkewOps \cup {"none"} /\ calm' \in {0, calm}
    <3>1. CASE main' = Quiet
      BY <2>2, <3>1, QuietIs DEF Quiet
    <3>2. CASE main' = [main EXCEPT !.op = "skew", !.at = 1]
      <4>1. main' \in MainState /\ main'.op = "skew"
        <5>1. 1 \in 0..(Legs + 7)
          BY Numbers
        <5> QED
          BY <1>1, <3>2, <5>1 DEF MainState
      <4> QED
        BY <2>2, <4>1 DEF SkewOps
    <3> QED
      BY <2>2, <3>1, <3>2
  <2>4. /\ tim' \in TimState /\ tim'.rcr = tim.rcr /\ tim'.rep = tim.rep
        /\ tim'.moe = tim.moe /\ tim'.bif = tim.bif /\ tim'.open = tim.open
        /\ tim'.down = tim.down
    BY <1>1, <2>1 DEF TimState
  <2> QED
    BY <1>1, <1>2, <2>1, <2>3, <2>4
<1>4. CASE ~SkewUpdates
  <2>1. main.at \in 1..6 /\ calm' = calm /\ \E i \in 2..7 : main' = [main EXCEPT !.at = i]
    BY <1>1, <1>4 DEF Skew, SkewSet, SkewLeavesDirect, SkewForgetsDirect, SkewAsksDirect,
       SkewFinds, SkewTests, InSkew, In, Next1, MainState
  <2>2. main' \in MainState /\ main'.op \in SkewOps
    BY <1>1, <1>2, <2>1, NextIs
  <2>3. \/ pwm' = pwm
        \/ pwm' = [pwm EXCEPT !.skew = Wanted]
        \/ pwm' = [pwm EXCEPT !.direct = FALSE]
        \/ pwm' = [pwm EXCEPT !.toDirect = FALSE]
        \/ pwm' = [pwm EXCEPT !.toDirect = TRUE]
    BY <1>4 DEF Skew, SkewSet, SkewLeavesDirect, SkewForgetsDirect, SkewAsksDirect,
       SkewFinds, SkewTests
  <2>4. tim' = tim \/ tim' = [tim EXCEPT !.rcr = 0]
    BY <1>4 DEF Skew, SkewSet, SkewLeavesDirect, SkewForgetsDirect, SkewAsksDirect,
       SkewFinds, SkewTests
  <2>5. /\ pwm' \in PwmState /\ pwm'.armed = pwm.armed /\ pwm'.dither = pwm.dither
        /\ pwm'.alternate = pwm.alternate /\ pwm'.countdown = pwm.countdown
        /\ pwm'.owns = pwm.owns /\ pwm'.pending = pwm.pending
        /\ pwm'.landed = pwm.landed /\ (pwm'.direct => pwm.direct)
    <3> DEFINE w == Wanted
    <3>1. w \in BOOLEAN
      BY <1>2
    <3>2. CASE pwm' = [pwm EXCEPT !.skew = w]
      <4> HIDE DEF w
      <4> QED
        BY <1>1, <3>1, <3>2 DEF PwmState
    <3>3. CASE pwm' # [pwm EXCEPT !.skew = w]
      BY <1>1, <2>3, <3>3 DEF PwmState
    <3> QED
      BY <3>2, <3>3
  <2>6. /\ tim' \in TimState /\ tim'.rcr \in {0, tim.rcr} /\ tim'.rep = tim.rep
        /\ tim'.moe = tim.moe /\ tim'.bif = tim.bif /\ tim'.open = tim.open
        /\ tim'.down = tim.down
    BY <1>1, <2>4, Numbers DEF TimState
  <2> QED
    BY <1>2, <2>1, <2>2, <2>5, <2>6
<1> QED
  BY <1>3, <1>4

\* What each of its steps does to the two ways.
LEMMA SkewSetWays ==
    ASSUME StageInv, SkewSet
    PROVE  Ways' /\ Skewing'
<1>1. /\ pwm \in PwmState /\ main \in MainState /\ main.op \in SkewOps /\ main.at = 1
      /\ pwm' = [pwm EXCEPT !.skew = Wanted] /\ main' = [main EXCEPT !.at = 2]
      /\ tim' = tim /\ drv' = drv
  BY DEF StageInv, TypeOK, SkewSet, InSkew, In, Next1, MainState, SkewOps
<1>2. main'.op = main.op /\ main'.at = 2 /\ (Wanted' <=> Wanted)
  BY <1>1, NextIs
<1> DEFINE w == Wanted
<1>3. pwm' = [pwm EXCEPT !.skew = w]
  BY <1>1
<1> HIDE DEF w
<1>4. pwm'.skew = w /\ pwm'.owns = pwm.owns /\ pwm'.direct = pwm.direct
      /\ pwm'.pending = pwm.pending
  BY <1>1, <1>3 DEF PwmState
<1>5. ~Mid
  BY <1>1 DEF Mid, SkewOps
<1>6. Ways'
  BY <1>1, <1>2, <1>4, <1>5 DEF StageInv, Ways
<1>7. Skewing'
  BY <1>1, <1>2, <1>4 DEF StageInv, Skewing, Waits, w
<1> QED
  BY <1>6, <1>7

LEMMA SkewLeavesWays ==
    ASSUME StageInv, SkewLeavesDirect
    PROVE  Ways' /\ Skewing'
<1>1. /\ tim \in TimState /\ main \in MainState /\ main.op \in SkewOps /\ main.at = 2
      /\ Wanted /\ tim' = [tim EXCEPT !.rcr = 0] /\ main' = [main EXCEPT !.at = 3]
      /\ pwm' = pwm /\ drv' = drv
  BY DEF StageInv, TypeOK, SkewLeavesDirect, InSkew, In, Next1, MainState, SkewOps
<1>2. main'.op = main.op /\ main'.at = 3 /\ Wanted'
  BY <1>1, NextIs
<1>3. tim'.uie = tim.uie /\ ~Mid
  BY <1>1 DEF TimState, Mid, SkewOps
<1>4. Ways'
  BY <1>1, <1>2, <1>3 DEF StageInv, Ways
<1>5. Skewing'
  BY <1>1, <1>2 DEF StageInv, Skewing, Waits
<1> QED
  BY <1>4, <1>5

LEMMA SkewForgetsWays ==
    ASSUME StageInv, SkewForgetsDirect
    PROVE  Ways' /\ Skewing'
<1>1. /\ pwm \in PwmState /\ main \in MainState /\ main.op \in SkewOps
      /\ Wanted /\ tim' = tim /\ drv' = drv
      /\ \/ /\ main.at = 3 /\ pwm' = [pwm EXCEPT !.direct = FALSE]
            /\ main' = [main EXCEPT !.at = 4]
         \/ /\ main.at = 4 /\ pwm' = [pwm EXCEPT !.toDirect = FALSE]
            /\ main' = [main EXCEPT !.at = 5]
  BY DEF StageInv, TypeOK, SkewForgetsDirect, InSkew, In, Next1, MainState, SkewOps
<1>2. /\ main'.op = main.op /\ Wanted'
      /\ main'.at = IF main.at = 3 THEN 4 ELSE 5
  <2>1. CASE main.at = 3
    BY <1>1, <2>1, NextIs
  <2>2. CASE main.at = 4
    BY <1>1, <2>2, NextIs
  <2> QED
    BY <1>1, <2>1, <2>2
<1>3. /\ pwm'.skew = pwm.skew /\ pwm'.owns = pwm.owns /\ pwm'.pending = pwm.pending
      /\ pwm'.direct => pwm.direct /\ main.at = 4
      /\ main.at = 4 => pwm'.direct = pwm.direct
  <2>1. CASE main.at = 3
    BY <1>1, <2>1 DEF PwmState
  <2>2. CASE main.at = 4
    BY <1>1, <2>2 DEF PwmState
  <2> QED
    BY <1>1, <2>1, <2>2
<1> ~Mid
  BY <1>1 DEF Mid, SkewOps
<1>4. Ways'
  BY <1>1, <1>2, <1>3 DEF StageInv, Ways
<1>5. Skewing'
  BY <1>1, <1>2, <1>3 DEF StageInv, Skewing, Waits
<1> QED
  BY <1>4, <1>5

LEMMA SkewAsksWays ==
    ASSUME StageInv, SkewAsksDirect
    PROVE  Ways' /\ Skewing'
<1>1. /\ pwm \in PwmState /\ main \in MainState /\ main.op \in SkewOps /\ main.at = 4
      /\ ~Wanted /\ pwm' = [pwm EXCEPT !.toDirect = TRUE]
      /\ main' = [main EXCEPT !.at = 5] /\ tim' = tim /\ drv' = drv
  BY DEF StageInv, TypeOK, SkewAsksDirect, InSkew, In, Next1, MainState, SkewOps
<1>2. main'.op = main.op /\ main'.at = 5 /\ ~Wanted'
  BY <1>1, NextIs
<1>3. /\ pwm'.skew = pwm.skew /\ pwm'.owns = pwm.owns /\ pwm'.pending = pwm.pending
      /\ pwm'.direct = pwm.direct /\ ~Mid
  BY <1>1 DEF PwmState, Mid, SkewOps
<1>4. Ways'
  BY <1>1, <1>2, <1>3 DEF StageInv, Ways
<1>5. Skewing'
  BY <1>1, <1>2, <1>3 DEF StageInv, Skewing, Waits
<1> QED
  BY <1>4, <1>5

LEMMA SkewFindsWays ==
    ASSUME StageInv, SkewFinds
    PROVE  Ways' /\ Skewing'
<1> DEFINE i == IF pwm.owns /\ ~pwm.direct THEN 4 ELSE 5
<1>1. /\ main \in MainState /\ main.op \in SkewOps /\ main.at = 2
      /\ ~(pwm.owns /\ Wanted) /\ main' = [main EXCEPT !.at = i]
      /\ pwm' = pwm /\ tim' = tim /\ drv' = drv
  BY DEF StageInv, TypeOK, SkewFinds, InSkew, In, SkewOps
<1>2. i \in {4, 5}
  OBVIOUS
<1> HIDE DEF i
<1>3. main'.op = main.op /\ main'.at \in {4, 5} /\ (Wanted' <=> Wanted) /\ ~Mid
  BY <1>1, <1>2, NextIs DEF Mid, SkewOps
<1>4. Ways'
  BY <1>1, <1>3 DEF StageInv, Ways
<1>5. Skewing'
  BY <1>1, <1>3 DEF StageInv, Skewing, Waits
<1> QED
  BY <1>4, <1>5

\* The need for the interrupt, tested: who has none has no need of it at 7.
LEMMA SkewTestsWays ==
    ASSUME StageInv, SkewTests
    PROVE  Ways' /\ Skewing'
<1> DEFINE i == IF pwm.skew \/ pwm.dither \/ (pwm.owns /\ ~pwm.direct) THEN 6 ELSE 7
<1>1. /\ main \in MainState /\ main.op \in SkewOps /\ main.at = 5
      /\ main' = [main EXCEPT !.at = i] /\ pwm' = pwm /\ tim' = tim /\ drv' = drv
  BY DEF StageInv, TypeOK, SkewTests, InSkew, In, SkewOps
<1>2. i \in {6, 7} /\ (i = 7 => ~pwm.skew /\ ~(pwm.owns /\ ~pwm.direct))
  OBVIOUS
<1> HIDE DEF i
<1>3. main'.op = main.op /\ main'.at = i /\ (Wanted' <=> Wanted) /\ ~Mid
  BY <1>1, <1>2, NextIs DEF Mid, SkewOps
<1>4. pwm.skew <=> Wanted
  BY <1>1 DEF StageInv, Skewing
<1>5. Ways'
  BY <1>1, <1>2, <1>3, <1>4 DEF StageInv, Ways
<1>6. Skewing'
  BY <1>1, <1>2, <1>3 DEF StageInv, Skewing, Waits
<1> QED
  BY <1>5, <1>6

LEMMA SkewUpdatesWays ==
    ASSUME StageInv, SkewUpdates
    PROVE  Ways' /\ Skewing'
<1> DEFINE u == main.at = 6
<1>1. /\ tim \in TimState /\ main \in MainState /\ main.op \in SkewOps
      /\ main.at \in {6, 7} /\ tim' = [tim EXCEPT !.uie = u]
      /\ \/ main' = Quiet
         \/ main' = [main EXCEPT !.op = "skew", !.at = 1]
      /\ pwm' = pwm /\ drv' = drv
  BY DEF StageInv, TypeOK, SkewUpdates, Answered, InSkew, In, SkewOps
<1>2. u \in BOOLEAN /\ (main.at = 6 => u)
  OBVIOUS
<1>3. main.at = 7 => ~(pwm.owns /\ ~pwm.direct)
  BY <1>1 DEF StageInv, Skewing
<1>4. main'.op \in {"none", "skew"} /\ main'.at \in {0, 1}
  <2>1. CASE main' = Quiet
    BY <2>1 DEF Quiet
  <2>2. CASE main' = [main EXCEPT !.op = "skew", !.at = 1]
    BY <1>1, <2>2 DEF MainState
  <2> QED
    BY <1>1, <2>1, <2>2
<1> HIDE DEF u
<1>5. tim'.uie = u /\ tim'.rcr = tim.rcr /\ ~Mid /\ ~Mid'
  BY <1>1, <1>2, <1>4 DEF TimState, Mid, SkewOps
<1>6. Ways'
  <2>1. pwm.direct => pwm.owns /\ ~pwm.pending /\ tim.rcr = 1
    BY <1>1, <1>5 DEF StageInv, Ways
  <2>2. pwm.owns /\ ~pwm.direct => tim'.uie
    BY <1>1, <1>2, <1>3, <1>5
  <2> QED
    BY <1>1, <1>5, <2>1, <2>2 DEF Ways
<1>7. Skewing'
  BY <1>1, <1>4 DEF StageInv, Skewing, Waits
<1> QED
  BY <1>6, <1>7

LEMMA SkewKeeps ==
    ASSUME StageInv, Skew
    PROVE  StageInv'
<1>1. TypeOK /\ calm \in 0..Pace
  BY DEF StageInv, TypeOK
<1>2. /\ main.op \in SkewOps /\ main'.op \notin DutyOps /\ ~Mid'
      /\ drv' = drv /\ tim'.down = tim.down /\ pwm'.owns = pwm.owns
  BY <1>1, SkewIs DEF SkewOps, DutyOps, Mid
<1>3. TypeOK'
  <2>1. calm' \in 0..Pace
    BY <1>1, SkewIs, Numbers
  <2> QED
    BY <1>1, <2>1, SkewIs DEF TypeOK
<1>4. Owners'
  BY <1>1, <1>2, SkewIs DEF StageInv, Owners
<1>5. Asks' /\ NoTaker'
  BY <1>2 DEF Asks, NoTaker
<1>6. Sampled'
  BY <1>2 DEF StageInv, Skewing, Sampled, Waits
<1>7. Ways' /\ Skewing'
  BY SkewSetWays, SkewLeavesWays, SkewForgetsWays, SkewAsksWays, SkewFindsWays,
     SkewTestsWays, SkewUpdatesWays DEF Skew
<1> QED
  BY <1>3, <1>4, <1>5, <1>6, <1>7 DEF StageInv

-----------------------------------------------------------------------------
(* The host's frames.                                                      *)

\* A frame comes two periods after the last: a drive that was about to take the
\* compares has taken them.
LEMMA HearsAlone ==
    ASSUME StageInv, Pace >= 4, NEW op, Hears(op)
    PROVE  main.op = "none" /\ ~Waits /\ ~Mid
<1>1. main.op = "none" /\ calm = Pace /\ drv \in DrvState
  BY DEF Hears, StageInv, TypeOK
<1>2. ~Waits
  <2>1. SUFFICES ASSUME Waits PROVE FALSE
    OBVIOUS
  <2>2. calm <= 3 \/ calm <= 1
    BY <1>1, <2>1 DEF StageInv, Sampled, DrvState
  <2> QED
    BY <1>1, <2>2, Numbers
<1> QED
  BY <1>1, <1>2 DEF Mid

\* An op begun: what it was asked, and nothing else of the stage's.
LEMMA BeginKeeps ==
    ASSUME StageInv, main.op = "none", NEW op, NEW a, NEW b, NEW n, Begin(op, a, b, n),
           [op |-> op, at |-> 1, a |-> a, b |-> b, n |-> n] \in MainState,
           op \in DutyOps => /\ a \in Duties /\ b \in Duties /\ n \in 0..MaxPeriods
                             /\ ~pwm.owns,
           op \in DutyOps \cup SkewOps => ~Waits
    PROVE  StageInv'
<1>1. /\ main' = [op |-> op, at |-> 1, a |-> a, b |-> b, n |-> n]
      /\ bdtr' = bdtr /\ tim' = tim /\ ccr' = ccr /\ act' = act /\ pwm' = pwm
      /\ drv' = drv /\ calm' = calm /\ hold' = hold /\ asked' = asked
  BY DEF Begin
<1>2. TypeOK'
  BY <1>1 DEF StageInv, TypeOK
<1>3. ~Mid /\ ~Mid' /\ ~Wanted
  BY <1>1 DEF Mid, Wanted
<1>4. Asks' /\ Owners' /\ Sampled' /\ NoTaker' /\ Ways' /\ Skewing'
  BY <1>1, <1>3 DEF StageInv, Asks, Owners, Sampled, NoTaker, Waits, Ways, Skewing
<1> QED
  BY <1>2, <1>4 DEF StageInv

LEMMA DutyKeeps ==
    ASSUME StageInv, Pace >= 4, Duty
    PROVE  StageInv'
<1>1. PICK op \in DutyOps, a \in Duties, b \in Duties, n \in 0..MaxPeriods :
          Hears(op) /\ ~pwm.owns /\ Begin(op, a, b, n)
  BY DEF Duty, DutyOps
<1>2. main.op = "none" /\ ~Waits
  BY <1>1, HearsAlone
<1>3. [op |-> op, at |-> 1, a |-> a, b |-> b, n |-> n] \in MainState
  BY <1>1, Numbers DEF MainState, DutyOps
<1> QED
  BY <1>1, <1>2, <1>3, BeginKeeps

LEMMA OthersKeep ==
    ASSUME StageInv, Pace >= 4, Enable \/ Disable \/ Drop \/ Deadtime
    PROVE  StageInv'
<1>1. PICK op \in {"enable", "disable", "drop", "unskew"}, n \in 0..1 :
          /\ main.op = "none" /\ Begin(op, Zero, Zero, n)
          /\ op = "unskew" => Hears("deadtime")
  BY Numbers DEF Enable, Disable, Drop, Deadtime, Hears
<1>2. [op |-> op, at |-> 1, a |-> Zero, b |-> Zero, n |-> n] \in MainState
  BY <1>1, Numbers DEF MainState
<1>3. op \notin DutyOps /\ (op \in SkewOps => ~Waits)
  BY <1>1, HearsAlone DEF DutyOps, SkewOps
<1> QED
  BY <1>1, <1>2, <1>3, BeginKeeps

LEMMA DriveOpsKeep ==
    ASSUME StageInv, Mode \/ Sync
    PROVE  StageInv'
<1>1. /\ main.op = "none" /\ drv \in DrvState /\ calm' = 0
      /\ bdtr' = bdtr /\ tim' = tim /\ ccr' = ccr /\ act' = act /\ pwm' = pwm
      /\ main' = main /\ hold' = hold /\ asked' = asked
  BY DEF StageInv, TypeOK, Mode, Sync, Hears
<1>2. drv' \in DrvState /\ drv'.owned = drv.owned /\ (drv'.due => drv'.sync)
  <2>0. drv.due => drv.sync
    BY DEF StageInv, Owners
  <2>1. CASE \E taken \in BOOLEAN :
                drv' = [drv EXCEPT !.sync = TRUE, !.on = @ \/ taken]
    <3>1. PICK taken \in BOOLEAN : drv' = [drv EXCEPT !.sync = TRUE, !.on = @ \/ taken]
      BY <2>1
    <3> DEFINE w == drv.on \/ taken
    <3>2. w \in BOOLEAN /\ drv' = [drv EXCEPT !.sync = TRUE, !.on = w]
      BY <1>1, <3>1 DEF DrvState
    <3> HIDE DEF w
    <3> QED
      BY <1>1, <3>2 DEF DrvState
  <2>2. CASE drv' = [drv EXCEPT !.on = FALSE]
    BY <1>1, <2>0, <2>2 DEF DrvState
  <2>3. CASE \E on \in BOOLEAN : drv' = [drv EXCEPT !.sync = on, !.due = @ /\ on]
    <3>1. PICK on \in BOOLEAN : drv' = [drv EXCEPT !.sync = on, !.due = @ /\ on]
      BY <2>3
    <3> DEFINE w == drv.due /\ on
    <3>2. w \in BOOLEAN /\ (w => on) /\ drv' = [drv EXCEPT !.sync = on, !.due = w]
      BY <1>1, <3>1 DEF DrvState
    <3> HIDE DEF w
    <3> QED
      BY <1>1, <3>2 DEF DrvState
  <2> QED
    BY <2>1, <2>2, <2>3 DEF Mode, Sync
<1>3. TypeOK'
  BY <1>1, <1>2, Numbers DEF StageInv, TypeOK
<1>4. main.op \notin DutyOps \cup SkewOps
  BY <1>1 DEF DutyOps, SkewOps
<1>5. Asks' /\ Owners' /\ NoTaker' /\ Ways' /\ Skewing'
  BY <1>1, <1>2, <1>4 DEF StageInv, Asks, Owners, NoTaker, Ways, Skewing, Wanted, Mid
<1>6. Sampled'
  BY <1>1 DEF Sampled
<1> QED
  BY <1>3, <1>5, <1>6 DEF StageInv

LEMMA ClearKeeps ==
    ASSUME StageInv, Clear
    PROVE  StageInv'
<1>1. /\ tim \in TimState /\ tim' = [tim EXCEPT !.bif = FALSE] /\ calm' = 0
      /\ bdtr' = bdtr /\ ccr' = ccr /\ act' = act /\ pwm' = pwm /\ drv' = drv
      /\ main' = main /\ hold' = hold /\ asked' = asked
  BY DEF StageInv, TypeOK, Clear
<1>2. tim' \in TimState /\ tim'.rcr = tim.rcr /\ tim'.uie = tim.uie
  BY <1>1 DEF TimState
<1>3. TypeOK'
  BY <1>1, <1>2, Numbers DEF StageInv, TypeOK
<1>4. Asks' /\ Owners' /\ NoTaker' /\ Ways' /\ Skewing'
  BY <1>1, <1>2, SkewRests DEF StageInv, Asks, Owners, NoTaker, Waits, Ways, Wanted, Mid
<1>5. Sampled'
  BY <1>1 DEF Sampled
<1> QED
  BY <1>3, <1>4, <1>5 DEF StageInv

-----------------------------------------------------------------------------
(* The invariant, and what it gives.                                       *)

LEMMA InitStageInv ==
    ASSUME Init
    PROVE  StageInv
<1>1. /\ tim \in TimState /\ pwm \in PwmState /\ drv \in DrvState
  BY Numbers DEF Init, TimState, PwmState, DrvState
<1>2. TypeOK
  <2>1. ccr \in Triples /\ act \in Triples
    BY AllTriples, TagsAre DEF Init
  <2>2. main \in MainState /\ hold \in HoldState
    BY NoHoldIs, QuietIs DEF Init
  <2>3. calm \in 0..Pace
    BY Numbers DEF Init
  <2>4. bdtr \in BOOLEAN \cup {None} /\ asked \in BOOLEAN
    BY DEF Init
  <2> QED
    BY <1>1, <2>1, <2>2, <2>3, <2>4 DEF TypeOK
<1>3. Asks /\ Owners /\ Sampled /\ NoTaker /\ Ways /\ Skewing
  BY DEF Init, Quiet, Asks, Owners, Sampled, NoTaker, Waits, Ways, Skewing, Mid, DutyOps,
         SkewOps
<1> QED
  BY <1>2, <1>3 DEF StageInv

LEMMA NextStageInv ==
    ASSUME StageInv, Pace >= 4, [Next]_vars
    PROVE  StageInv'
<1>1. CASE Event
  BY <1>1, EventKeeps
<1>2. CASE Break
  BY <1>2, BreakKeeps
<1>3. CASE Update
  BY <1>3, UpdateKeeps
<1>4. CASE WritesBack
  BY <1>4, WritesBackKeeps
<1>5. CASE Sample
  BY <1>5, TripKeeps, DrivesKeeps, LetsGoKeepsInv DEF Sample
<1>6. CASE Loop
  BY <1>6, AllStandsDownKeeps, StoreKeeps, AllCountsKeeps, FineTakesKeeps,
     AlternateTakesKeeps, EnableArmsKeeps, DisableForgetsKeeps, DisableStopsKeeps,
     SkewKeeps DEF Loop
<1>7. CASE Host
  BY <1>7, DutyKeeps, OthersKeep, DriveOpsKeep, ClearKeeps DEF Host
<1>8. CASE UNCHANGED vars
  <2>1. /\ tim' = tim /\ ccr' = ccr /\ act' = act /\ pwm' = pwm /\ drv' = drv
        /\ main' = main /\ bdtr' = bdtr /\ calm' = calm /\ hold' = hold /\ asked' = asked
    BY <1>8 DEF vars
  <2> QED
    BY <2>1 DEF StageInv, TypeOK, Asks, Owners, Sampled, NoTaker, Waits, Ways, Skewing,
                Wanted, Mid
<1> QED
  BY <1>1, <1>2, <1>3, <1>4, <1>5, <1>6, <1>7, <1>8 DEF Next

\* The stage's invariant: who owns the compares, who is about to, and the way a
\* triple of the drive's takes into them.
THEOREM StageInvariant ==
    ASSUME Pace >= 4
    PROVE  Spec => []StageInv
BY InitStageInv, NextStageInv, PTL DEF Spec

\* Board_pwm.c's fields keep their ranges: the count never passes under zero,
\* whoever stops it.
THEOREM TypeCorrect ==
    ASSUME Pace >= 4
    PROVE  Spec => []TypeOK
<1>1. StageInv => TypeOK
  BY DEF StageInv
<1> QED
  BY <1>1, StageInvariant, PTL

\* compares_refused is enough: no op it let through is still writing once the
\* drive's sample has taken the compares.
THEOREM OneWriterOnly ==
    ASSUME Pace >= 4
    PROVE  Spec => []OneWriter
<1>1. StageInv => OneWriter
  BY DEF StageInv, NoTaker, OneWriter, DutyOps
<1> QED
  BY <1>1, StageInvariant, PTL

\* A drive that stores straight into the compares owns them, has nothing left to
\* land and an update a period, whenever the loop is between two ops and
\* wherever the update came between a skew's stores.
THEOREM DirectAgreed ==
    ASSUME Pace >= 4
    PROVE  Spec => []DirectAgrees
<1>1. StageInv => DirectAgrees
  BY DEF StageInv, Ways, Mid, Wanted, DirectAgrees
<1> QED
  BY <1>1, StageInvariant, PTL

\* A drive that stores through the update has the update's interrupt: a skew
\* tests for it before it stores, and the update that comes between the two only
\* ever takes the need away.
THEOREM LandedByInterrupt ==
    ASSUME Pace >= 4
    PROVE  Spec => []LandedByUpdate
<1>1. StageInv => LandedByUpdate
  BY DEF StageInv, Ways, Wanted, LandedByUpdate
<1> QED
  BY <1>1, StageInvariant, PTL

-----------------------------------------------------------------------------
(* What the actions do, field by field.                                    *)

LEMMA Fields ==
    ASSUME TypeOK
    PROVE  /\ tim \in TimState /\ pwm \in PwmState /\ drv \in DrvState /\ main \in MainState
           /\ ccr \in Triples /\ act \in Triples /\ hold \in HoldState
           /\ bdtr \in BOOLEAN \cup {None} /\ calm \in Nat
           /\ tim.rep \in 0..1 /\ tim.rcr \in 0..1 /\ pwm.half \in 0..1
           /\ pwm.countdown \in Nat /\ hold.ran \in Nat /\ hold.want \in Nat
           /\ hold.of \subseteq Duties
BY Numbers DEF TypeOK, TimState, PwmState, HoldState

LEMMA EventIs ==
    ASSUME TypeOK, Event
    PROVE  /\ ~(tim.uif /\ tim.uie) /\ (~tim.down => ~drv.due)
           /\ tim'.down = ~tim.down /\ tim'.uif = (tim.uif \/ tim.rep = 0)
           /\ tim'.rep = IF tim.rep = 0 THEN tim.rcr ELSE 0
           /\ tim'.rcr = tim.rcr /\ tim'.uie = tim.uie /\ tim'.moe = tim.moe
           /\ tim'.bif = tim.bif /\ tim'.open = tim.open
           /\ drv'.on = drv.on /\ drv'.owned = drv.owned /\ drv'.sync = drv.sync
           /\ drv'.due = IF tim.down THEN drv.due ELSE drv.sync
           /\ act' = IF tim.rep = 0 THEN ccr ELSE act
           /\ hold' = Watched(act')
           /\ calm' = IF calm < Pace THEN calm + 1 ELSE calm
           /\ ccr' = ccr /\ pwm' = pwm /\ main' = main /\ bdtr' = bdtr /\ asked' = asked
<1> DEFINE f == tim.uif \/ tim.rep = 0
           r == IF tim.rep = 0 THEN tim.rcr ELSE tim.rep - 1
           d == IF tim.down THEN drv.due ELSE drv.sync
<1>1. /\ tim \in TimState /\ drv \in DrvState
      /\ tim' = [tim EXCEPT !.down = ~@, !.uif = f, !.rep = r]
      /\ drv' = [drv EXCEPT !.due = d]
      /\ act' = (IF tim.rep = 0 THEN ccr ELSE act) /\ hold' = Watched(act')
      /\ ~(tim.uif /\ tim.uie) /\ (~tim.down => ~drv.due)
      /\ calm' = IF calm < Pace THEN calm + 1 ELSE calm
      /\ ccr' = ccr /\ pwm' = pwm /\ main' = main /\ bdtr' = bdtr /\ asked' = asked
  BY DEF TypeOK, Event, UpdateDue, Pended, TimState, DrvState
<1>2. r = IF tim.rep = 0 THEN tim.rcr ELSE 0
  BY <1>1 DEF TimState
<1> HIDE DEF f, r, d
<1>3. /\ tim'.down = ~tim.down /\ tim'.uif = f /\ tim'.rep = r
      /\ tim'.rcr = tim.rcr /\ tim'.uie = tim.uie /\ tim'.moe = tim.moe
      /\ tim'.bif = tim.bif /\ tim'.open = tim.open
      /\ drv'.on = drv.on /\ drv'.owned = drv.owned /\ drv'.sync = drv.sync
      /\ drv'.due = d
  BY <1>1 DEF TimState, DrvState
<1> QED
  BY <1>1, <1>2, <1>3 DEF f, d

LEMMA BreakIs ==
    ASSUME TypeOK, Break
    PROVE  /\ ~tim'.moe /\ tim'.bif /\ tim'.rep = tim.rep /\ tim'.rcr = tim.rcr
           /\ tim'.uif = tim.uif /\ tim'.uie = tim.uie /\ tim'.open = tim.open
           /\ tim'.down = tim.down /\ Breaks
           /\ UNCHANGED <<ccr, act, pwm, drv, main, bdtr, calm, hold, asked>>
BY DEF TypeOK, Break, TimState

LEMMA WritesBackIs ==
    ASSUME TypeOK, WritesBack
    PROVE  /\ bdtr \in BOOLEAN /\ bdtr' = None
           /\ tim'.moe = (bdtr /\ ~tim.bif) /\ tim'.rep = tim.rep /\ tim'.rcr = tim.rcr
           /\ tim'.uif = tim.uif /\ tim'.uie = tim.uie /\ tim'.open = tim.open
           /\ tim'.down = tim.down /\ tim'.bif = tim.bif
           /\ UNCHANGED <<ccr, act, pwm, drv, main, calm, hold, asked>>
BY DEF TypeOK, WritesBack, TimState

\* An update's work on the count, whatever it writes.
Dec == IF Counted THEN pwm.countdown - 1 ELSE pwm.countdown

LEMMA StoodIs ==
    ASSUME TypeOK
    PROVE  /\ Stood.half = 1 - pwm.half /\ Stood.countdown = Dec
           /\ Stood.dither = (pwm.dither /\ ~Expires)
           /\ Stood.alternate = (pwm.alternate /\ ~Expires)
           /\ Stood.armed = pwm.armed /\ Stood.owns = pwm.owns
           /\ Stood.pending = pwm.pending /\ Stood.landed = pwm.landed
           /\ Stood.direct = pwm.direct /\ Stood.toDirect = pwm.toDirect
           /\ Stood.skew = pwm.skew
           /\ Stood \in PwmState
           /\ Cleared.rep = tim.rep /\ Cleared.rcr = tim.rcr /\ ~Cleared.uif
           /\ Cleared.uie = (tim.uie /\ (Expires => pwm.skew))
           /\ Cleared.moe = tim.moe /\ Cleared.bif = tim.bif /\ Cleared.open = tim.open
           /\ Cleared.down = tim.down /\ Cleared \in TimState
<1> DEFINE n == Dec
           h == 1 - pwm.half
           c == [pwm EXCEPT !.half = h, !.countdown = n]
           u == tim.uie /\ (Expires => pwm.skew)
<1>1. pwm \in PwmState /\ tim \in TimState
  BY Fields
<1>2. n \in 0..MaxPeriods /\ h \in 0..1 /\ u \in BOOLEAN
  BY <1>1, Numbers DEF Counted, PwmState, Dec
<1>3. /\ Stood = IF Expires THEN [c EXCEPT !.alternate = FALSE, !.dither = FALSE] ELSE c
      /\ Cleared = [tim EXCEPT !.uif = FALSE, !.uie = u]
  BY <1>1 DEF Stood, PwmState, Cleared, TimState, Dec
<1> HIDE DEF n, h, u
<1>4. /\ c \in PwmState /\ c.half = h /\ c.countdown = n /\ c.dither = pwm.dither
      /\ c.alternate = pwm.alternate /\ c.armed = pwm.armed /\ c.owns = pwm.owns
      /\ c.pending = pwm.pending /\ c.landed = pwm.landed /\ c.direct = pwm.direct
      /\ c.toDirect = pwm.toDirect /\ c.skew = pwm.skew
  BY <1>1, <1>2 DEF PwmState
<1> HIDE DEF c
<1>5. /\ Stood.half = h /\ Stood.countdown = n
      /\ Stood.dither = (pwm.dither /\ ~Expires)
      /\ Stood.alternate = (pwm.alternate /\ ~Expires)
      /\ Stood.armed = pwm.armed /\ Stood.owns = pwm.owns
      /\ Stood.pending = pwm.pending /\ Stood.landed = pwm.landed
      /\ Stood.direct = pwm.direct /\ Stood.toDirect = pwm.toDirect
      /\ Stood.skew = pwm.skew /\ Stood \in PwmState
  <2>1. CASE Expires
    BY <1>3, <1>4, <2>1 DEF PwmState
  <2>2. CASE ~Expires
    BY <1>1, <1>3, <1>4, <2>2 DEF PwmState
  <2> QED
    BY <2>1, <2>2
<1>6. /\ Cleared.rep = tim.rep /\ Cleared.rcr = tim.rcr /\ ~Cleared.uif
      /\ Cleared.uie = u /\ Cleared.moe = tim.moe /\ Cleared.bif = tim.bif
      /\ Cleared.open = tim.open /\ Cleared.down = tim.down /\ Cleared \in TimState
  BY <1>1, <1>2, <1>3 DEF TimState
<1> QED
  BY <1>5, <1>6 DEF n, h, u

\* What the update writes: a train's other triple, or its first; the drive's
\* triple, once it lands; zero, where a count ran out; or nothing.
LEMMA UpdateIs ==
    ASSUME TypeOK, Update
    PROVE  /\ tim.uif /\ tim.uie /\ (~tim.down => ~drv.due) /\ bdtr = None
           /\ ~tim'.uif /\ tim'.rep = tim.rep /\ tim'.moe = tim.moe
           /\ tim'.bif = tim.bif /\ tim'.open = tim.open /\ tim'.down = tim.down
           /\ pwm'.half = 1 - pwm.half /\ pwm'.countdown = Dec
           /\ pwm'.dither = (pwm.dither /\ ~Expires)
           /\ pwm'.alternate = (pwm.alternate /\ ~Expires)
           /\ pwm'.armed = pwm.armed /\ pwm'.owns = pwm.owns /\ pwm'.skew = pwm.skew
           /\ bdtr' = (IF pwm.skew THEN tim.moe ELSE None)
           /\ UNCHANGED <<act, drv, main, calm, hold, asked>>
           /\ \/ /\ pwm.alternate /\ ~Expires
                 /\ pwm'.pending = pwm.pending /\ pwm'.landed = pwm.landed
                 /\ pwm'.direct = pwm.direct
                 /\ tim'.rcr = tim.rcr /\ tim'.uie = tim.uie
              \/ /\ ~pwm.owns
                 /\ pwm'.pending = pwm.pending /\ pwm'.landed = pwm.landed
                 /\ pwm'.direct = pwm.direct
                 /\ tim'.rcr = tim.rcr /\ tim'.uie = (tim.uie /\ (Expires => pwm.skew))
                 /\ \/ pwm.dither /\ ~Expires
                    \/ ccr' = IF Expires THEN All(Zero) ELSE ccr
              \/ LET land == pwm.pending /\ ~tim.down
                     enter == pwm.toDirect /\ ~tim.down
                 IN /\ pwm.owns
                    /\ ccr' = IF land THEN All(Drive) ELSE IF Expires THEN All(Zero) ELSE ccr
                    /\ pwm'.pending = (pwm.pending /\ ~land)
                    /\ pwm'.landed = (pwm.landed \/ land)
                    /\ pwm'.direct = (pwm.direct \/ enter)
                    /\ tim'.rcr = IF enter THEN 1 ELSE tim.rcr
<1>1. /\ tim.uif /\ tim.uie /\ (~tim.down => ~drv.due) /\ bdtr = None
      /\ bdtr' = (IF pwm.skew THEN tim.moe ELSE None)
      /\ UNCHANGED <<act, drv, main, calm, hold, asked>>
  BY DEF Update, Pended
<1>2. CASE Alternates
  <2>1. /\ Stood.alternate /\ tim' = Cleared /\ pwm' = [Stood EXCEPT !.to = 1 - @]
    BY <1>2 DEF Alternates
  <2>2. /\ pwm'.half = Stood.half /\ pwm'.countdown = Stood.countdown
        /\ pwm'.dither = Stood.dither /\ pwm'.alternate = Stood.alternate
        /\ pwm'.armed = Stood.armed /\ pwm'.owns = Stood.owns /\ pwm'.skew = Stood.skew
        /\ pwm'.pending = Stood.pending /\ pwm'.landed = Stood.landed
        /\ pwm'.direct = Stood.direct
    BY <2>1, StoodIs DEF PwmState
  <2>3. tim.uie \in BOOLEAN /\ pwm.alternate \in BOOLEAN
    BY Fields DEF TimState, PwmState
  <2> QED
    BY <1>1, <2>1, <2>2, <2>3, StoodIs
<1>3. CASE Dithers
  <2>1. /\ ~pwm.owns /\ tim' = Cleared /\ pwm' = Stood
        /\ ccr' = IF Stood.dither /\ Stood.half = 0 THEN All(pwm.a)
                  ELSE IF Expires THEN All(Zero) ELSE ccr
    BY <1>3 DEF Dithers
  <2> QED
    BY <1>1, <2>1, StoodIs
<1>4. CASE Lands
  <2> DEFINE land == pwm.pending /\ ~tim.down
             enter == pwm.toDirect /\ ~tim.down
             a == pwm.pending /\ ~land
             b == pwm.landed \/ land
             c == pwm.direct \/ enter
             d == pwm.toDirect /\ ~enter
             r == IF enter THEN 1 ELSE tim.rcr
             u == Cleared.uie /\ ~enter
  <2>1. /\ pwm.owns
        /\ ccr' = IF land THEN All(Drive) ELSE IF Expires THEN All(Zero) ELSE ccr
        /\ pwm' = [Stood EXCEPT !.pending = @ /\ ~land, !.landed = @ \/ land,
                                !.direct = @ \/ enter, !.toDirect = @ /\ ~enter]
        /\ tim' = [Cleared EXCEPT !.rcr = IF enter THEN 1 ELSE @, !.uie = @ /\ ~enter]
    BY <1>4 DEF Lands
  <2>2. /\ pwm' = [Stood EXCEPT !.pending = a, !.landed = b, !.direct = c, !.toDirect = d]
        /\ tim' = [Cleared EXCEPT !.rcr = r, !.uie = u]
    BY <2>1, StoodIs DEF PwmState, TimState
  <2> HIDE DEF a, b, c, d, r, u
  <2>3. /\ pwm'.half = Stood.half /\ pwm'.countdown = Stood.countdown
        /\ pwm'.dither = Stood.dither /\ pwm'.alternate = Stood.alternate
        /\ pwm'.armed = Stood.armed /\ pwm'.owns = Stood.owns /\ pwm'.skew = Stood.skew
        /\ pwm'.pending = a /\ pwm'.landed = b /\ pwm'.direct = c
    BY <2>2, StoodIs DEF PwmState
  <2>4. /\ tim'.rcr = r /\ tim'.rep = Cleared.rep /\ tim'.uif = Cleared.uif
        /\ tim'.moe = Cleared.moe /\ tim'.bif = Cleared.bif /\ tim'.open = Cleared.open
        /\ tim'.down = Cleared.down
    BY <2>2, StoodIs DEF TimState
  <2> QED
    BY <1>1, <2>1, <2>3, <2>4, StoodIs, ZenonT(40) DEF a, b, c, r
<1> QED
  BY <1>2, <1>3, <1>4 DEF Update

LEMMA TripIs ==
    ASSUME TypeOK, Sample, Trip
    PROVE  /\ ~pwm'.armed /\ ~pwm'.dither /\ ~pwm'.alternate /\ pwm'.countdown = 0
           /\ ~pwm'.owns /\ ~pwm'.pending /\ ~pwm'.direct /\ pwm'.skew = pwm.skew
           /\ tim'.rcr = 0 /\ ~tim'.uie /\ ~tim'.moe /\ tim'.rep = tim.rep
           /\ tim'.bif = tim.bif /\ tim'.open = tim.open /\ tim'.down = tim.down
           /\ ccr' = All(Zero) /\ hold' = NoHold
           /\ ~drv'.due /\ ~drv'.on /\ ~drv'.owned /\ drv'.sync = drv.sync /\ drv.due
           /\ UNCHANGED <<act, main, bdtr, calm, asked>>
<1>1. pwm \in PwmState /\ tim \in TimState /\ drv \in DrvState
  BY Fields
<1> QED
  BY <1>1 DEF Sample, Trip, Down, Off, PwmState, TimState, DrvState

\* The drive lets go of what it owned, or there is nothing to let go of.
LEMMA LetsGoIs ==
    ASSUME TypeOK, Sample, LetsGoOrIdles
    PROVE  /\ ~drv'.due /\ ~drv'.on /\ ~drv'.owned /\ drv'.sync = drv.sync /\ drv.due
           /\ UNCHANGED <<act, main, bdtr, calm, hold, asked>>
           /\ ~drv.owned => UNCHANGED <<pwm, tim, ccr>>
           /\ drv.owned =>
                /\ ~pwm'.owns /\ ~pwm'.pending /\ ~pwm'.direct
                /\ pwm'.armed = pwm.armed /\ pwm'.dither = pwm.dither
                /\ pwm'.alternate = pwm.alternate /\ pwm'.countdown = pwm.countdown
                /\ pwm'.half = pwm.half /\ pwm'.skew = pwm.skew
                /\ tim'.rcr = 0 /\ tim'.uie = (pwm.skew \/ pwm.dither)
                /\ tim'.uif = tim.uif /\ tim'.moe = tim.moe /\ tim'.rep = tim.rep
                /\ tim'.bif = tim.bif /\ tim'.open /\ tim'.down = tim.down
                /\ ccr' = All(Zero)
<1>1. pwm \in PwmState /\ tim \in TimState /\ drv \in DrvState
  BY Fields
<1>2. /\ ~drv'.due /\ ~drv'.on /\ ~drv'.owned /\ drv'.sync = drv.sync /\ drv.due
      /\ UNCHANGED <<act, main, bdtr, calm, hold, asked>>
  BY <1>1 DEF Sample, LetsGoOrIdles, DrvState
<1>3. ~drv.owned => UNCHANGED <<pwm, tim, ccr>>
  BY DEF LetsGoOrIdles
<1>4. ASSUME drv.owned
      PROVE  /\ ~pwm'.owns /\ ~pwm'.pending /\ ~pwm'.direct
             /\ pwm'.armed = pwm.armed /\ pwm'.dither = pwm.dither
             /\ pwm'.alternate = pwm.alternate /\ pwm'.countdown = pwm.countdown
             /\ pwm'.half = pwm.half /\ pwm'.skew = pwm.skew
             /\ tim'.rcr = 0 /\ tim'.uie = (pwm.skew \/ pwm.dither)
             /\ tim'.uif = tim.uif /\ tim'.moe = tim.moe /\ tim'.rep = tim.rep
             /\ tim'.bif = tim.bif /\ tim'.open /\ tim'.down = tim.down
             /\ ccr' = All(Zero)
  <2> DEFINE u == pwm.skew \/ pwm.dither
  <2>1. /\ pwm' = [pwm EXCEPT !.owns = FALSE, !.pending = FALSE, !.landed = FALSE,
                              !.direct = FALSE, !.toDirect = FALSE]
        /\ tim' = [tim EXCEPT !.open = TRUE, !.rcr = 0, !.uie = u]
        /\ ccr' = All(Zero)
    BY <1>4 DEF LetsGoOrIdles
  <2> HIDE DEF u
  <2>2. /\ tim'.rcr = 0 /\ tim'.uie = u
        /\ tim'.uif = tim.uif /\ tim'.moe = tim.moe /\ tim'.rep = tim.rep
        /\ tim'.bif = tim.bif /\ tim'.open /\ tim'.down = tim.down
    BY <1>1, <2>1 DEF TimState
  <2>3. /\ ~pwm'.owns /\ ~pwm'.pending /\ ~pwm'.direct
        /\ pwm'.armed = pwm.armed /\ pwm'.dither = pwm.dither
        /\ pwm'.alternate = pwm.alternate /\ pwm'.countdown = pwm.countdown
        /\ pwm'.half = pwm.half /\ pwm'.skew = pwm.skew
    BY <1>1, <2>1 DEF PwmState
  <2> QED
    BY <2>1, <2>2, <2>3 DEF u
<1> QED
  BY <1>2, <1>3, <1>4

\* The drive asks for its triple, and owns the compares from the first on.
LEMMA DrivesIs ==
    ASSUME TypeOK, Sample, Drives
    PROVE  /\ drv.due /\ drv.on /\ Enabled /\ pwm'.armed
           /\ ~drv'.due /\ drv'.owned /\ drv'.on /\ drv'.sync = drv.sync
           /\ ccr' = (IF pwm.direct THEN All(Drive) ELSE ccr)
           /\ pwm'.direct = pwm.direct /\ pwm'.skew = pwm.skew
           /\ ~pwm.direct => pwm'.pending
           /\ pwm.direct /\ drv.owned => pwm'.pending = pwm.pending
           /\ tim'.rep = tim.rep /\ tim'.rcr = tim.rcr /\ tim'.moe = tim.moe
           /\ tim'.bif = tim.bif /\ tim'.down = tim.down
           /\ asked' /\ UNCHANGED <<act, main, bdtr, calm>>
           /\ drv.owned =>
                /\ hold' = hold /\ pwm'.owns = pwm.owns /\ pwm'.landed = pwm.landed
                /\ pwm'.dither = pwm.dither /\ pwm'.alternate = pwm.alternate
                /\ pwm'.countdown = pwm.countdown /\ pwm'.half = pwm.half
                /\ tim'.uif = tim.uif /\ tim'.uie = tim.uie
                /\ tim'.open = (tim.open /\ ~pwm.landed)
           /\ ~drv.owned =>
                /\ hold' = NoHold /\ pwm'.owns /\ ~pwm'.landed /\ ~pwm'.dither
                /\ ~pwm'.alternate /\ pwm'.countdown = 0 /\ tim'.open = tim.open
<1> DEFINE p == Owned(pwm)
           pend == p.pending \/ ~p.direct
           f == tim.uif /\ drv.owned
           u == tim.uie \/ ~drv.owned
           o == tim.open /\ ~p.landed
<1>1. /\ tim \in TimState /\ pwm \in PwmState /\ drv \in DrvState
      /\ drv.due /\ drv.on /\ Enabled
      /\ pwm' = [p EXCEPT !.pending = @ \/ ~p.direct]
      /\ tim' = [tim EXCEPT !.uif = @ /\ drv.owned, !.uie = @ \/ ~drv.owned,
                            !.open = @ /\ ~p.landed]
      /\ ccr' = IF p.direct THEN All(Drive) ELSE ccr
      /\ drv' = [drv EXCEPT !.due = FALSE, !.owned = TRUE]
      /\ asked' = TRUE /\ hold' = IF drv.owned THEN hold ELSE NoHold
      /\ act' = act /\ main' = main /\ bdtr' = bdtr /\ calm' = calm
  BY Fields DEF Sample, Drives
<1>2. /\ p \in PwmState /\ p.direct = pwm.direct /\ p.skew = pwm.skew /\ p.armed = pwm.armed
      /\ p.half = pwm.half
      /\ drv.owned => p = pwm
      /\ ~drv.owned => /\ p.owns /\ ~p.landed /\ ~p.dither /\ ~p.alternate
                       /\ p.countdown = 0
  <2>1. CASE drv.owned
    BY <1>1, <2>1 DEF Owned
  <2>2. CASE ~drv.owned
    <3> DEFINE d == ~pwm.skew
               q == [pwm EXCEPT !.dither = FALSE, !.alternate = FALSE, !.countdown = 0,
                                !.pending = FALSE, !.landed = FALSE, !.owns = TRUE,
                                !.toDirect = d]
    <3>1. p = q /\ d \in BOOLEAN
      BY <2>2 DEF Owned
    <3> HIDE DEF d
    <3>2. q \in PwmState
      BY <1>1, <3>1, Numbers, PwmFields
    <3>3. /\ q.direct = pwm.direct /\ q.skew = pwm.skew /\ q.armed = pwm.armed
          /\ q.half = pwm.half /\ q.owns /\ ~q.landed /\ ~q.dither /\ ~q.alternate
          /\ q.countdown = 0
      BY <1>1 DEF PwmState
    <3> QED
      BY <2>2, <3>1, <3>2, <3>3
  <2> QED
    BY <2>1, <2>2
<1>3. pwm' = [p EXCEPT !.pending = pend]
  BY <1>1, <1>2 DEF PwmState
<1>4. tim' = [tim EXCEPT !.uif = f, !.uie = u, !.open = o]
  BY <1>1 DEF TimState
<1> HIDE DEF p, pend, f, u, o
<1>5. /\ pwm'.pending = pend /\ pwm'.owns = p.owns /\ pwm'.landed = p.landed
      /\ pwm'.dither = p.dither /\ pwm'.alternate = p.alternate
      /\ pwm'.countdown = p.countdown /\ pwm'.half = p.half /\ pwm'.direct = p.direct
      /\ pwm'.skew = p.skew /\ pwm'.armed = p.armed
  BY <1>2, <1>3 DEF PwmState
<1>6. /\ tim'.uif = f /\ tim'.uie = u /\ tim'.open = o /\ tim'.rep = tim.rep
      /\ tim'.rcr = tim.rcr /\ tim'.moe = tim.moe /\ tim'.bif = tim.bif
      /\ tim'.down = tim.down
  BY <1>1, <1>4 DEF TimState
<1>7. ~drv'.due /\ drv'.owned /\ drv'.on /\ drv'.sync = drv.sync
  BY <1>1 DEF DrvState
<1>8. /\ pwm.armed /\ pwm.pending \in BOOLEAN
      /\ tim.uif \in BOOLEAN /\ tim.uie \in BOOLEAN /\ tim.open \in BOOLEAN
  BY <1>1 DEF Enabled, PwmState, TimState
<1>9. /\ ~pwm.direct => pwm'.pending
      /\ pwm.direct /\ drv.owned => pwm'.pending = pwm.pending
  BY <1>2, <1>5, <1>8 DEF pend
<1>10. drv.owned =>
         /\ hold' = hold /\ pwm'.owns = pwm.owns /\ pwm'.landed = pwm.landed
         /\ pwm'.dither = pwm.dither /\ pwm'.alternate = pwm.alternate
         /\ pwm'.countdown = pwm.countdown /\ pwm'.half = pwm.half
         /\ tim'.uif = tim.uif /\ tim'.uie = tim.uie
         /\ tim'.open = (tim.open /\ ~pwm.landed)
  BY <1>1, <1>2, <1>5, <1>6, <1>8 DEF f, u, o
<1>11. ~drv.owned =>
         /\ hold' = NoHold /\ pwm'.owns /\ ~pwm'.landed /\ ~pwm'.dither
         /\ ~pwm'.alternate /\ pwm'.countdown = 0 /\ tim'.open = tim.open
  BY <1>1, <1>2, <1>5, <1>6, <1>8 DEF o
<1>12. /\ pwm'.armed /\ pwm'.direct = pwm.direct /\ pwm'.skew = pwm.skew
       /\ ccr' = (IF pwm.direct THEN All(Drive) ELSE ccr)
  BY <1>1, <1>2, <1>5, <1>8
<1> QED
  BY <1>1, <1>6, <1>7, <1>9, <1>10, <1>11, <1>12

LEMMA AllStandsDownIs ==
    ASSUME TypeOK, AllStandsDown
    PROVE  /\ main.op = "all" /\ main.at = 1 /\ main'.op = "all" /\ main'.at = 2
           /\ ~pwm'.dither /\ ~pwm'.alternate /\ pwm'.countdown = 0
           /\ pwm'.armed = pwm.armed /\ pwm'.owns = pwm.owns /\ pwm'.skew = pwm.skew
           /\ pwm'.pending = pwm.pending /\ pwm'.landed = pwm.landed
           /\ pwm'.direct = pwm.direct
           /\ tim'.rep = tim.rep /\ tim'.rcr = tim.rcr /\ tim'.moe = tim.moe
           /\ tim'.bif = tim.bif /\ tim'.open = tim.open /\ tim'.down = tim.down
           /\ hold' = NoHold /\ asked' /\ UNCHANGED <<bdtr, ccr, act, drv, calm>>
<1>1. pwm \in PwmState /\ tim \in TimState /\ main \in MainState
  BY Fields
<1>2. /\ main.op = "all" /\ main.at = 1 /\ hold' = NoHold /\ asked'
      /\ UNCHANGED <<bdtr, ccr, act, drv, calm>>
      /\ main' = [main EXCEPT !.at = 2]
  BY <1>1 DEF AllStandsDown, In, Next1, MainState
<1>3. main'.op = main.op /\ main'.at = 2
  BY <1>1, <1>2 DEF MainState
<1>4. /\ ~pwm'.dither /\ ~pwm'.alternate /\ pwm'.countdown = 0
      /\ pwm'.armed = pwm.armed /\ pwm'.owns = pwm.owns /\ pwm'.skew = pwm.skew
      /\ pwm'.pending = pwm.pending /\ pwm'.landed = pwm.landed
      /\ pwm'.direct = pwm.direct
  BY <1>1 DEF AllStandsDown, PwmState
<1>5. /\ tim'.rep = tim.rep /\ tim'.rcr = tim.rcr /\ tim'.moe = tim.moe
      /\ tim'.bif = tim.bif /\ tim'.open = tim.open /\ tim'.down = tim.down
  BY <1>1 DEF AllStandsDown, TimState
<1> QED
  BY <1>2, <1>3, <1>4, <1>5

LEMMA StoreIs ==
    ASSUME TypeOK, Store
    PROVE  /\ main.op \in {"all", "enable"} /\ main'.op = main.op /\ main'.at = main.at + 1
           /\ main.op = "all" => main.at >= 2
           /\ main'.at \in Nat /\ main.at \in Nat /\ main'.a = main.a
           /\ \E k \in Leg : ccr' = [ccr EXCEPT ![k] = main.a]
           /\ UNCHANGED <<bdtr, tim, act, pwm, drv, calm, hold, asked>>
<1>1. main \in MainState
  BY Fields
<1>2. PICK k \in Leg : /\ In("all", k + 1) \/ In("enable", k)
                       /\ ccr' = [ccr EXCEPT ![k] = main.a]
  BY DEF Store
<1>3. /\ main' = [main EXCEPT !.at = main.at + 1] /\ k \in Nat /\ k >= 1
      /\ UNCHANGED <<bdtr, tim, act, pwm, drv, calm, hold, asked>>
  BY <1>1, Numbers DEF Store, Next1, MainState, Leg
<1>4. main'.op = main.op /\ main'.at = main.at + 1 /\ main'.a = main.a
  BY <1>1, <1>3 DEF MainState
<1>5. main.op \in {"all", "enable"} /\ main.at \in {k, k + 1} /\ (main.op = "all" => main.at = k + 1)
  BY <1>2 DEF In
<1>6. \E j \in Leg : ccr' = [ccr EXCEPT ![j] = main.a]
  BY <1>2
<1>7. /\ main.at \in Nat /\ main.at + 1 \in Nat
      /\ main.op = "all" => main.at >= 2
  BY <1>3, <1>5
<1> QED
  BY <1>3, <1>4, <1>5, <1>6, <1>7

LEMMA AllCountsIs ==
    ASSUME TypeOK, AllCounts
    PROVE  /\ main.op = "all" /\ main.at >= 2 /\ main' = Quiet /\ calm' = 0
           /\ pwm'.countdown = main.n /\ pwm'.half = pwm.half
           /\ pwm'.dither = pwm.dither /\ pwm'.alternate = pwm.alternate
           /\ pwm'.armed = pwm.armed /\ pwm'.owns = pwm.owns /\ pwm'.skew = pwm.skew
           /\ pwm'.pending = pwm.pending /\ pwm'.direct = pwm.direct
           /\ pwm'.landed = pwm.landed
           /\ ~tim'.open /\ tim'.uie = (tim.uie \/ main.n # 0) /\ tim'.uif = tim.uif
           /\ tim'.rep = tim.rep /\ tim'.rcr = tim.rcr /\ tim'.moe = tim.moe
           /\ tim'.bif = tim.bif /\ tim'.down = tim.down
           /\ hold' = (IF main.n = 0 THEN NoHold
                       ELSE [of |-> {main.a}, ran |-> 0, want |-> 2 * main.n])
           /\ UNCHANGED <<bdtr, ccr, act, drv, asked>>
<1> DEFINE u == tim.uie \/ main.n # 0
<1>1. pwm \in PwmState /\ tim \in TimState /\ main \in MainState
  BY Fields
<1>2. /\ main.op = "all" /\ main.at >= 2 /\ main' = Quiet /\ calm' = 0
      /\ hold' = (IF main.n = 0 THEN NoHold
                  ELSE [of |-> {main.a}, ran |-> 0, want |-> 2 * main.n])
      /\ UNCHANGED <<bdtr, ccr, act, drv, asked>>
  BY <1>1, Numbers DEF AllCounts, In, Answered
<1>3. /\ pwm'.countdown = main.n /\ pwm'.half = pwm.half
      /\ pwm'.dither = pwm.dither /\ pwm'.alternate = pwm.alternate
      /\ pwm'.armed = pwm.armed /\ pwm'.owns = pwm.owns /\ pwm'.skew = pwm.skew
      /\ pwm'.pending = pwm.pending /\ pwm'.direct = pwm.direct
      /\ pwm'.landed = pwm.landed
  BY <1>1 DEF AllCounts, PwmState
<1>4. tim' = [tim EXCEPT !.open = FALSE, !.uie = u]
  BY <1>1 DEF AllCounts, TimState
<1> HIDE DEF u
<1>5. /\ ~tim'.open /\ tim'.uie = u /\ tim'.uif = tim.uif
      /\ tim'.rep = tim.rep /\ tim'.rcr = tim.rcr /\ tim'.moe = tim.moe
      /\ tim'.bif = tim.bif /\ tim'.down = tim.down
  BY <1>1, <1>4 DEF TimState
<1> QED
  BY <1>2, <1>3, <1>5 DEF u

\* A dither, or a train: the other two ways to ask for a duty.
LEMMA FineTakesIs ==
    ASSUME TypeOK, FineTakes
    PROVE  /\ main.op = "fine" /\ main' = Quiet /\ calm' = 0 /\ hold' = NoHold /\ asked'
           /\ pwm'.armed = pwm.armed /\ pwm'.owns = pwm.owns /\ pwm'.skew = pwm.skew
           /\ pwm'.pending = pwm.pending /\ pwm'.direct = pwm.direct
           /\ pwm'.landed = pwm.landed
           /\ ~tim'.open /\ tim'.rep = tim.rep /\ tim'.rcr = tim.rcr /\ tim'.moe = tim.moe
           /\ tim'.bif = tim.bif /\ tim'.down = tim.down
           /\ UNCHANGED <<bdtr, ccr, act, drv>>
<1>1. pwm \in PwmState /\ tim \in TimState
  BY Fields
<1>2. /\ main.op = "fine" /\ main' = Quiet /\ calm' = 0 /\ hold' = NoHold /\ asked'
      /\ UNCHANGED <<bdtr, ccr, act, drv>>
  BY DEF FineTakes, In, Answered
<1>3. /\ pwm'.armed = pwm.armed /\ pwm'.owns = pwm.owns /\ pwm'.skew = pwm.skew
      /\ pwm'.pending = pwm.pending /\ pwm'.direct = pwm.direct
      /\ pwm'.landed = pwm.landed
  BY <1>1 DEF FineTakes, PwmState
<1>4. /\ ~tim'.open /\ tim'.rep = tim.rep /\ tim'.rcr = tim.rcr /\ tim'.moe = tim.moe
      /\ tim'.bif = tim.bif /\ tim'.down = tim.down
  BY <1>1 DEF FineTakes, TimState
<1> QED
  BY <1>2, <1>3, <1>4

LEMMA AlternateTakesIs ==
    ASSUME TypeOK, AlternateTakes
    PROVE  /\ main.op = "alternate" /\ main' = Quiet /\ calm' = 0 /\ asked'
           /\ pwm'.countdown = main.n /\ pwm'.half = pwm.half /\ ~pwm'.dither
           /\ pwm'.armed = pwm.armed /\ pwm'.owns = pwm.owns /\ pwm'.skew = pwm.skew
           /\ pwm'.pending = pwm.pending /\ pwm'.direct = pwm.direct
           /\ pwm'.landed = pwm.landed
           /\ ~tim'.open /\ tim'.uie /\ ~tim'.uif /\ tim'.rep = tim.rep
           /\ tim'.rcr = tim.rcr /\ tim'.moe = tim.moe
           /\ tim'.bif = tim.bif /\ tim'.down = tim.down
           /\ ccr' = All(main.a)
           /\ hold' = (IF main.n = 0 THEN NoHold
                       ELSE [of |-> {main.a, main.b}, ran |-> 0, want |-> 2 * main.n])
           /\ UNCHANGED <<bdtr, act, drv>>
<1>1. pwm \in PwmState /\ tim \in TimState
  BY Fields
<1>2. /\ main.op = "alternate" /\ main' = Quiet /\ calm' = 0 /\ asked' /\ ccr' = All(main.a)
      /\ hold' = (IF main.n = 0 THEN NoHold
                  ELSE [of |-> {main.a, main.b}, ran |-> 0, want |-> 2 * main.n])
      /\ UNCHANGED <<bdtr, act, drv>>
  BY DEF AlternateTakes, In, Answered
<1>3. /\ pwm'.countdown = main.n /\ pwm'.half = pwm.half /\ ~pwm'.dither
      /\ pwm'.armed = pwm.armed /\ pwm'.owns = pwm.owns /\ pwm'.skew = pwm.skew
      /\ pwm'.pending = pwm.pending /\ pwm'.direct = pwm.direct
      /\ pwm'.landed = pwm.landed
  BY <1>1 DEF AlternateTakes, PwmState
<1>4. /\ ~tim'.open /\ tim'.uie /\ ~tim'.uif /\ tim'.rep = tim.rep
      /\ tim'.rcr = tim.rcr /\ tim'.moe = tim.moe
      /\ tim'.bif = tim.bif /\ tim'.down = tim.down
  BY <1>1 DEF AlternateTakes, TimState
<1> QED
  BY <1>2, <1>3, <1>4

LEMMA EnableArmsIs ==
    ASSUME TypeOK, EnableArms
    PROVE  /\ main.op = "enable" /\ main' = Quiet /\ calm' = 0
           /\ pwm'.armed /\ pwm'.owns = pwm.owns /\ pwm'.skew = pwm.skew
           /\ pwm'.pending = pwm.pending /\ pwm'.direct = pwm.direct
           /\ pwm'.landed = pwm.landed /\ pwm'.dither = pwm.dither
           /\ pwm'.alternate = pwm.alternate /\ pwm'.countdown = pwm.countdown
           /\ pwm'.half = pwm.half
           /\ ~tim'.open /\ tim'.moe /\ tim'.uie = tim.uie /\ tim'.uif = tim.uif
           /\ tim'.rep = tim.rep /\ tim'.rcr = tim.rcr /\ tim'.bif = tim.bif
           /\ tim'.down = tim.down /\ asked' = (asked /\ tim.moe)
           /\ UNCHANGED <<bdtr, ccr, act, drv, hold>>
<1>1. pwm \in PwmState /\ tim \in TimState
  BY Fields
<1>2. /\ main.op = "enable" /\ main' = Quiet /\ calm' = 0 /\ asked' = (asked /\ tim.moe)
      /\ UNCHANGED <<bdtr, ccr, act, drv, hold>>
  BY DEF EnableArms, In, Answered
<1>3. /\ pwm'.armed /\ pwm'.owns = pwm.owns /\ pwm'.skew = pwm.skew
      /\ pwm'.pending = pwm.pending /\ pwm'.direct = pwm.direct
      /\ pwm'.landed = pwm.landed /\ pwm'.dither = pwm.dither
      /\ pwm'.alternate = pwm.alternate /\ pwm'.countdown = pwm.countdown
      /\ pwm'.half = pwm.half
  BY <1>1 DEF EnableArms, PwmState
<1>4. /\ ~tim'.open /\ tim'.moe /\ tim'.uie = tim.uie /\ tim'.uif = tim.uif
      /\ tim'.rep = tim.rep /\ tim'.rcr = tim.rcr /\ tim'.bif = tim.bif
      /\ tim'.down = tim.down
  BY <1>1 DEF EnableArms, TimState
<1> QED
  BY <1>2, <1>3, <1>4

LEMMA DisableForgetsIs ==
    ASSUME TypeOK, DisableForgets
    PROVE  /\ main.op \in {"disable", "drop"} /\ main'.op = main.op /\ main'.at = 2
           /\ ~pwm'.armed /\ ~pwm'.dither /\ ~pwm'.alternate /\ pwm'.countdown = 0
           /\ ~pwm'.owns /\ ~pwm'.pending /\ pwm'.direct = pwm.direct
           /\ pwm'.skew = pwm.skew /\ hold' = NoHold
           /\ UNCHANGED <<bdtr, tim, ccr, act, drv, calm, asked>>
<1> DEFINE q == Down(pwm)
           d == pwm.direct
           e == pwm.toDirect
<1>1. pwm \in PwmState /\ main \in MainState
  BY Fields
<1>2. /\ main.op \in {"disable", "drop"} /\ hold' = NoHold
      /\ UNCHANGED <<bdtr, tim, ccr, act, drv, calm, asked>>
      /\ main' = [main EXCEPT !.at = 2] /\ pwm' = [q EXCEPT !.direct = d, !.toDirect = e]
  BY <1>1 DEF DisableForgets, In, Next1, MainState
<1>3. main'.op = main.op /\ main'.at = 2
  BY <1>1, <1>2 DEF MainState
<1>4. /\ ~q.armed /\ ~q.dither /\ ~q.alternate /\ q.countdown = 0
      /\ ~q.owns /\ ~q.pending /\ q.skew = pwm.skew /\ q \in PwmState
  BY <1>1, DownIs, ZenonT(40) DEF Down, PwmState
<1> HIDE DEF q, d, e
<1>5. /\ ~pwm'.armed /\ ~pwm'.dither /\ ~pwm'.alternate /\ pwm'.countdown = 0
      /\ ~pwm'.owns /\ ~pwm'.pending /\ pwm'.skew = pwm.skew /\ pwm'.direct = d
  BY <1>2, <1>4 DEF PwmState
<1> QED
  BY <1>2, <1>3, <1>5 DEF d

LEMMA DisableStopsIs ==
    ASSUME TypeOK, DisableStops
    PROVE  /\ Mid /\ main' = Quiet /\ calm' = (IF main.op = "drop" THEN calm ELSE 0)
           /\ ~pwm'.direct /\ pwm'.armed = pwm.armed /\ pwm'.dither = pwm.dither
           /\ pwm'.alternate = pwm.alternate /\ pwm'.countdown = pwm.countdown
           /\ pwm'.owns = pwm.owns /\ pwm'.pending = pwm.pending /\ pwm'.skew = pwm.skew
           /\ tim'.rcr = 0 /\ ~tim'.uie /\ ~tim'.moe /\ tim'.rep = tim.rep
           /\ tim'.bif = tim.bif /\ tim'.open = tim.open /\ tim'.down = tim.down
           /\ ccr' = All(Zero)
           /\ UNCHANGED <<bdtr, act, drv, hold, asked>>
<1>1. pwm \in PwmState /\ tim \in TimState
  BY Fields
<1>2. /\ Mid /\ main' = Quiet /\ calm' = (IF main.op = "drop" THEN calm ELSE 0)
      /\ ccr' = All(Zero) /\ UNCHANGED <<bdtr, act, drv, hold, asked>>
  BY DEF DisableStops, In, Mid, Answered
<1>3. /\ ~pwm'.direct /\ pwm'.armed = pwm.armed /\ pwm'.dither = pwm.dither
      /\ pwm'.alternate = pwm.alternate /\ pwm'.countdown = pwm.countdown
      /\ pwm'.owns = pwm.owns /\ pwm'.pending = pwm.pending /\ pwm'.skew = pwm.skew
  BY <1>1 DEF DisableStops, PwmState
<1>4. /\ tim'.rcr = 0 /\ ~tim'.uie /\ ~tim'.moe /\ tim'.rep = tim.rep
      /\ tim'.bif = tim.bif /\ tim'.open = tim.open /\ tim'.down = tim.down
  BY <1>1 DEF DisableStops, Off, TimState
<1> QED
  BY <1>2, <1>3, <1>4

-----------------------------------------------------------------------------
(* A counted hold, where no skew is asked for.                             *)

\* None of a host's triples among these compares.
NoneAsked(t) == \A k \in Leg : t[k] \notin Duties

\* The drive's way into the compares carries nothing of the host's.
Landing ==
    /\ pwm.direct => NoneAsked(ccr)
    /\ pwm.owns /\ ~pwm.pending => NoneAsked(ccr)
    /\ tim.rcr = 1 => pwm.direct
    /\ tim.rep = 1 => NoneAsked(act)

Unskewed == ~pwm.skew /\ main.op \notin SkewOps

\* A disable's first half has forgotten the dither and the train; an enable
\* writes zeros.
Forgotten ==
    /\ Mid => ~pwm.dither /\ ~pwm.alternate
    /\ main.op = "enable" => main.a = Zero

Bit(b) == IF b THEN 1 ELSE 0

\* The half periods that ran and the periods still counted fit in what was
\* asked; the update that is due and the half the count has reached are ahead.
Counting ==
    /\ pwm.countdown # 0 /\ tim.uie
    /\ hold.ran + 2 * pwm.countdown <= hold.want + pwm.half + Bit(tim.uif)

\* The count is over: the triple is out of the compares, and nothing that
\* would write it again is left.
RanOut ==
    /\ hold.ran <= hold.want /\ \A k \in Leg : ccr[k] \notin hold.of
    /\ ~tim.uie \/ (pwm.countdown = 0 /\ ~pwm.alternate)

Holds ==
    /\ hold.of # {} => ~pwm.owns /\ ~pwm.dither /\ (Counting \/ RanOut)
    /\ hold.of = {} => hold.ran <= hold.want
    /\ main.op = "all" /\ main.at >= 2 =>
           ~pwm.dither /\ ~pwm.alternate /\ hold.of = {}

HoldInv == Landing /\ Unskewed /\ Forgotten /\ Holds

LEMMA NotAsked ==
    /\ NoneAsked(All(Drive)) /\ NoneAsked(All(Zero))
    /\ Drive \notin Duties /\ Zero \notin Duties
BY StageAssumption DEF NoneAsked, All

\* A hold, counting or over, has not run too long.
LEMMA RunsShort ==
    ASSUME TypeOK, Holds
    PROVE  hold.ran <= hold.want
<1>1. /\ hold.ran \in Nat /\ hold.want \in Nat /\ pwm.countdown \in Nat
      /\ pwm.half \in Nat /\ pwm.half <= 1 /\ Bit(tim.uif) \in 0..1
  BY Fields DEF Bit
<1>2. CASE hold.of = {} \/ RanOut
  BY <1>2 DEF Holds, RanOut
<1>3. CASE Counting
  BY <1>1, <1>3 DEF Counting
<1> QED
  BY <1>2, <1>3 DEF Holds

\* A step that leaves the compares, the count and the interrupt alone.
LEMMA HoldRests ==
    ASSUME HoldInv, ccr' = ccr, act' = act, hold' = hold,
           pwm'.direct = pwm.direct, pwm'.owns = pwm.owns, pwm'.pending = pwm.pending,
           pwm'.countdown = pwm.countdown, pwm'.half = pwm.half, pwm'.skew = pwm.skew,
           pwm'.dither = pwm.dither, pwm'.alternate = pwm.alternate,
           tim'.rep = tim.rep, tim'.rcr = tim.rcr, tim'.uif = tim.uif, tim'.uie = tim.uie,
           \/ main' = main
           \/ /\ main'.op \notin {"all"} \cup SkewOps \/ (main'.op = "all" /\ main'.at = 1)
              /\ ~Mid' /\ (main'.op = "enable" => main'.a = Zero)
    PROVE  HoldInv'
<1>1. Landing' /\ Unskewed' /\ Forgotten'
  BY DEF HoldInv, Landing, NoneAsked, Unskewed, SkewOps, Forgotten, Mid
<1>2. Bit(tim.uif)' = Bit(tim.uif)
  BY DEF Bit
<1>3. (Counting => Counting') /\ (RanOut => RanOut')
  BY <1>2 DEF Counting, RanOut
<1>4. Holds'
  BY <1>3 DEF HoldInv, Holds
<1> QED
  BY <1>1, <1>4 DEF HoldInv

LEMMA WatchedIs ==
    ASSUME TypeOK, NEW now
    PROVE  /\ Watched(now).of = hold.of /\ Watched(now).want = hold.want
           /\ Watched(now).ran \in {hold.ran, hold.ran + 1}
           /\ (\A k \in Leg : now[k] \notin hold.of) => Watched(now) = hold
<1> DEFINE r == IF hold.ran > hold.want THEN hold.ran ELSE hold.ran + 1
<1>1. hold \in HoldState
  BY Fields
<1>2. Watched(now) = IF \E k \in Leg : now[k] \in hold.of
                     THEN [hold EXCEPT !.ran = r] ELSE hold
  BY <1>1 DEF Watched, HoldState
<1>3. r \in {hold.ran, hold.ran + 1}
  OBVIOUS
<1> HIDE DEF r
<1> QED
  BY <1>1, <1>2, <1>3 DEF HoldState

LEMMA EventHolds ==
    ASSUME StageInv, HoldInv, Event
    PROVE  HoldInv'
<1>1. TypeOK
  BY DEF StageInv
<1>2. Landing'
  <2>1. tim'.rep = 1 => NoneAsked(act')
    <3>1. CASE tim.rep = 0
      <4>1. tim.rcr = 1 => NoneAsked(ccr)
        BY DEF HoldInv, Landing
      <4> QED
        BY <1>1, <3>1, <4>1, EventIs
    <3>2. CASE tim.rep # 0
      BY <1>1, <3>2, EventIs
    <3> QED
      BY <3>1, <3>2
  <2> QED
    BY <1>1, <2>1, EventIs DEF HoldInv, Landing, NoneAsked
<1>3. Unskewed' /\ Forgotten'
  BY <1>1, EventIs DEF HoldInv, Unskewed, Forgotten, Mid
<1>4. /\ hold'.of = hold.of /\ hold'.want = hold.want
      /\ hold'.ran \in {hold.ran, hold.ran + 1}
      /\ (\A k \in Leg : act'[k] \notin hold.of) => hold' = hold
  BY <1>1, EventIs, WatchedIs
<1>5. tim.rep # 0 => \A k \in Leg : act'[k] \notin hold.of
  <2>1. tim.rep # 0 => tim.rep = 1 /\ act' = act
    BY <1>1, EventIs, Fields
  <2> QED
    BY <1>1, <2>1, Fields DEF HoldInv, Landing, NoneAsked
<1>6. hold.of = {} => hold' = hold
  BY <1>4
<1>7. ASSUME Counting PROVE Counting'
  <2>1. ~tim.uif /\ pwm'.countdown # 0 /\ tim'.uie /\ Bit(tim.uif) = 0
    BY <1>1, <1>7, EventIs DEF Counting, Bit
  <2>2. hold'.ran <= hold.ran + Bit(tim'.uif)
    <3>1. CASE tim.rep = 0
      <4>1. Bit(tim'.uif) = 1
        BY <1>1, <3>1, EventIs DEF Bit
      <4> QED
        BY <1>1, <1>4, <4>1, Fields
    <3>2. CASE tim.rep # 0
      BY <1>1, <1>4, <1>5, <3>2, Fields DEF Bit
    <3> QED
      BY <3>1, <3>2
  <2>3. /\ hold.ran \in Nat /\ hold.want \in Nat /\ pwm.countdown \in Nat /\ pwm.half \in Nat
        /\ hold'.ran \in Nat /\ Bit(tim'.uif) \in Nat /\ pwm' = pwm
    BY <1>1, <1>4, EventIs, Fields DEF Bit
  <2>4. Bit(tim.uif)' = Bit(tim'.uif)
    BY DEF Bit
  <2> QED
    BY <1>4, <1>7, <2>1, <2>2, <2>3, <2>4 DEF Counting
<1>8. ASSUME RanOut PROVE RanOut'
  <2>1. \A k \in Leg : act'[k] \notin hold.of
    BY <1>1, <1>5, <1>8, EventIs DEF RanOut
  <2> QED
    BY <1>1, <1>4, <1>8, <2>1, EventIs DEF RanOut
<1>9. Holds'
  BY <1>1, <1>4, <1>6, <1>7, <1>8, EventIs DEF HoldInv, Holds
<1> QED
  BY <1>2, <1>3, <1>9 DEF HoldInv

LEMMA UpdateHolds ==
    ASSUME StageInv, HoldInv, Update
    PROVE  HoldInv'
<1>1. TypeOK /\ ~pwm.skew
  BY DEF StageInv, HoldInv, Unskewed
<1>2. pwm.owns => ~Expires
  BY DEF StageInv, Owners, Expires, Counted
<1>3. Landing'
  <2>1. tim'.rep = 1 => NoneAsked(act')
    BY <1>1, UpdateIs DEF HoldInv, Landing
  <2>2. CASE pwm.owns
    <3> DEFINE land == pwm.pending /\ ~tim.down
               enter == pwm.toDirect /\ ~tim.down
    <3>1. /\ ccr' = (IF land THEN All(Drive) ELSE ccr)
          /\ pwm'.pending = (pwm.pending /\ ~land) /\ pwm'.direct = (pwm.direct \/ enter)
          /\ tim'.rcr = IF enter THEN 1 ELSE tim.rcr
      <4>1. ~pwm.alternate
        BY <2>2 DEF StageInv, Owners
      <4> QED
        BY <1>1, <1>2, <2>2, <4>1, UpdateIs
    <3>2. CASE land
      BY <2>1, <3>1, <3>2, NotAsked DEF HoldInv, Landing
    <3>3. CASE ~land
      <4>1. (pwm'.direct => pwm.direct \/ ~pwm.pending)
            /\ (tim'.rcr = 1 => tim.rcr = 1 \/ enter)
        BY <3>1, <3>3
      <4>2. ~pwm'.pending => ~pwm.pending
        BY <3>1, <3>3
      <4> QED
        BY <2>1, <2>2, <3>1, <3>3, <4>1, <4>2 DEF HoldInv, Landing
    <3> QED
      BY <3>2, <3>3
  <2>3. CASE ~pwm.owns
    <3>1. ~pwm'.owns /\ pwm'.direct = pwm.direct /\ tim'.rcr = tim.rcr
      BY <1>1, <2>3, UpdateIs
    <3>2. ASSUME pwm.direct PROVE NoneAsked(ccr')
      <4>1. ~pwm.dither /\ ~pwm.alternate /\ NoneAsked(ccr)
        BY <2>3, <3>2 DEF StageInv, Ways, HoldInv, Forgotten, Landing
      <4>2. ccr' = IF Expires THEN All(Zero) ELSE ccr
        BY <1>1, <2>3, <4>1, UpdateIs
      <4> QED
        BY <4>1, <4>2, NotAsked
    <3> QED
      BY <2>1, <3>1, <3>2 DEF HoldInv, Landing
  <2> QED
    BY <2>2, <2>3
<1>4. Unskewed' /\ Forgotten'
  BY <1>1, UpdateIs DEF HoldInv, Unskewed, Forgotten, Mid
<1>5. /\ hold.ran \in Nat /\ hold.want \in Nat /\ pwm.countdown \in Nat
      /\ pwm.half \in 0..1 /\ hold' = hold /\ Bit(tim.uif) = 1 /\ Bit(tim.uif)' = 0
  BY <1>1, UpdateIs, Fields DEF Bit
<1>6. ASSUME hold.of # {}, Counting PROVE Counting' \/ RanOut'
  <2>1. ~pwm.owns /\ ~pwm.dither
    BY <1>6 DEF HoldInv, Holds
  <2>2. hold.ran + 2 * pwm.countdown <= hold.want + pwm.half + 1 /\ pwm.countdown # 0
    BY <1>5, <1>6 DEF Counting
  <2>3. CASE Expires
    <3>1. ccr' = All(Zero) /\ ~tim'.uie
      BY <1>1, <2>1, <2>3, UpdateIs
    <3>2. hold.ran <= hold.want
      BY <1>5, <2>2
    <3>3. \A k \in Leg : ccr'[k] \notin hold'.of
      BY <1>1, <1>5, <3>1, NotAsked, Fields DEF All
    <3> QED
      BY <1>5, <3>1, <3>2, <3>3 DEF RanOut
  <2>4. CASE ~Expires
    <3>1. /\ pwm'.half = 1 - pwm.half /\ tim'.uie
          /\ pwm'.countdown = IF pwm.half = 1 THEN pwm.countdown - 1 ELSE pwm.countdown
      BY <1>1, <2>1, <2>2, <2>4, UpdateIs DEF Dec, Counted
    <3>2. pwm.half = 1 => pwm.countdown # 1
      BY <2>2, <2>4 DEF Expires, Counted
    <3>3. CASE pwm.half = 1
      BY <1>5, <2>2, <3>1, <3>2, <3>3 DEF Counting
    <3>4. CASE pwm.half = 0
      BY <1>5, <2>2, <3>1, <3>4 DEF Counting
    <3> QED
      BY <1>5, <3>3, <3>4
  <2> QED
    BY <2>3, <2>4
<1>7. ASSUME hold.of # {}, RanOut PROVE RanOut'
  <2>1. ~pwm.owns /\ ~pwm.dither /\ ~pwm.alternate /\ pwm.countdown = 0
    BY <1>1, <1>7, UpdateIs DEF HoldInv, Holds, RanOut
  <2>2. ~Expires /\ Dec = 0
    BY <2>1 DEF Expires, Counted, Dec
  <2>3. ccr' = ccr /\ pwm'.countdown = 0 /\ ~pwm'.alternate
    BY <1>1, <2>1, <2>2, UpdateIs
  <2> QED
    BY <1>5, <1>7, <2>3 DEF RanOut
<1>8. Holds'
  <2>1. hold.of # {} => ~pwm'.owns /\ ~pwm'.dither
    BY <1>1, UpdateIs DEF HoldInv, Holds
  <2>2. main'.op = "all" /\ main'.at >= 2 => ~pwm'.dither /\ ~pwm'.alternate /\ hold'.of = {}
    BY <1>1, <1>5, UpdateIs DEF HoldInv, Holds
  <2> QED
    BY <1>5, <1>6, <1>7, <2>1, <2>2 DEF HoldInv, Holds
<1> QED
  BY <1>3, <1>4, <1>8 DEF HoldInv

\* A break and a written back dead time leave the compares and the count.
LEMMA OutputsHold ==
    ASSUME StageInv, HoldInv, Break \/ WritesBack
    PROVE  HoldInv'
<1>1. TypeOK
  BY DEF StageInv
<1>2. /\ UNCHANGED <<ccr, act, pwm, main, hold>>
      /\ tim'.rep = tim.rep /\ tim'.rcr = tim.rcr /\ tim'.uif = tim.uif
      /\ tim'.uie = tim.uie
  BY <1>1, BreakIs, WritesBackIs
<1> QED
  BY <1>2, HoldRests

LEMMA SampleHolds ==
    ASSUME StageInv, HoldInv, Sample
    PROVE  HoldInv'
<1>1. TypeOK
  BY DEF StageInv
<1>2. CASE Trip
  <2>1. /\ hold' = NoHold /\ ~pwm'.direct /\ ~pwm'.owns /\ pwm'.skew = pwm.skew
        /\ tim'.rep = tim.rep /\ tim'.rcr = 0 /\ act' = act /\ main' = main
        /\ ~pwm'.dither /\ ~pwm'.alternate
    BY <1>1, <1>2, TripIs
  <2>2. Landing' /\ Unskewed' /\ Forgotten'
    BY <2>1 DEF HoldInv, Landing, NoneAsked, Unskewed, Forgotten, Mid
  <2>3. Holds'
    BY <2>1 DEF Holds, NoHold
  <2> QED
    BY <2>2, <2>3 DEF HoldInv
<1>3. CASE Drives
  <2>1. /\ pwm'.direct = pwm.direct /\ pwm'.skew = pwm.skew /\ main' = main
        /\ tim'.rep = tim.rep /\ tim'.rcr = tim.rcr /\ act' = act /\ pwm.armed
        /\ ccr' = (IF pwm.direct THEN All(Drive) ELSE ccr)
        /\ ~pwm.direct => pwm'.pending
    BY <1>1, <1>3, DrivesIs DEF Enabled
  <2>2. ~Mid /\ (pwm.direct => pwm.owns /\ drv.owned)
    BY <2>1 DEF StageInv, Owners, Ways
  <2>3. Landing'
    BY <2>1, NotAsked DEF HoldInv, Landing, NoneAsked
  <2>4. Unskewed' /\ Forgotten'
    BY <2>1, <2>2 DEF HoldInv, Unskewed, Forgotten, Mid
  <2>5. Holds'
    <3>1. CASE drv.owned
      <4>1. /\ hold' = hold /\ pwm'.owns = pwm.owns /\ pwm'.dither = pwm.dither
            /\ pwm'.alternate = pwm.alternate /\ pwm'.countdown = pwm.countdown
            /\ pwm'.half = pwm.half /\ tim'.uif = tim.uif /\ tim'.uie = tim.uie
        BY <1>1, <1>3, <3>1, DrivesIs
      <4>2. hold.of # {} => ccr' = ccr
        BY <2>1, <2>2 DEF HoldInv, Holds
      <4>3. Bit(tim.uif)' = Bit(tim.uif)
        BY <4>1 DEF Bit
      <4>4. (Counting => Counting') /\ (hold.of # {} /\ RanOut => RanOut')
        BY <4>1, <4>2, <4>3 DEF Counting, RanOut
      <4> QED
        BY <2>1, <4>1, <4>4 DEF HoldInv, Holds
    <3>2. CASE ~drv.owned
      <4>1. hold' = NoHold /\ ~pwm'.dither /\ ~pwm'.alternate
        BY <1>1, <1>3, <3>2, DrivesIs
      <4> QED
        BY <4>1 DEF Holds, NoHold
    <3> QED
      BY <3>1, <3>2
  <2> QED
    BY <2>3, <2>4, <2>5 DEF HoldInv
<1>4. CASE LetsGoOrIdles
  <2>1. /\ act' = act /\ main' = main /\ hold' = hold
    BY <1>1, <1>4, LetsGoIs
  <2>2. CASE ~drv.owned
    <3>1. UNCHANGED <<pwm, tim, ccr>>
      BY <1>1, <1>4, <2>2, LetsGoIs
    <3> QED
      BY <2>1, <3>1, HoldRests
  <2>3. CASE drv.owned
    <3>1. /\ ~pwm'.owns /\ ~pwm'.pending /\ ~pwm'.direct
          /\ pwm'.dither = pwm.dither /\ pwm'.alternate = pwm.alternate
          /\ pwm'.skew = pwm.skew /\ tim'.uie = (pwm.skew \/ pwm.dither)
          /\ tim'.rep = tim.rep /\ tim'.rcr = 0 /\ ccr' = All(Zero)
      BY <1>1, <1>4, <2>3, LetsGoIs
    <3>2. Landing' /\ Unskewed' /\ Forgotten'
      BY <2>1, <3>1 DEF HoldInv, Landing, NoneAsked, Unskewed, Forgotten, Mid
    <3>3. hold.ran <= hold.want
      BY <1>1, RunsShort DEF HoldInv
    <3>4. \A k \in Leg : ccr'[k] \notin hold'.of
      BY <1>1, <2>1, <3>1, NotAsked, Fields DEF All
    <3>5. hold.of # {} => ~tim'.uie /\ ~pwm'.dither
      BY <3>1 DEF HoldInv, Unskewed, Holds
    <3>6. Holds'
      BY <2>1, <3>1, <3>3, <3>4, <3>5 DEF HoldInv, Holds, RanOut
    <3> QED
      BY <3>2, <3>6 DEF HoldInv
  <2> QED
    BY <2>2, <2>3
<1> QED
  BY <1>2, <1>3, <1>4 DEF Sample

\* A duty asked for: the compares are the host's, and no direct way is open.
LEMMA DutyMine ==
    ASSUME StageInv, main.op \in DutyOps
    PROVE  ~pwm.owns /\ ~pwm.direct /\ main.a \in Duties /\ main.b \in Duties
           /\ main.n \in Nat /\ ~Mid
BY Numbers DEF StageInv, Ways, NoTaker, Asks, DutyOps, Mid

\* The ops that begin with a new hold, or with none.
LEMMA NewHold ==
    ASSUME HoldInv, act' = act, tim'.rep = tim.rep, pwm'.skew = pwm.skew,
           ~pwm.direct, tim'.rcr = tim.rcr, ~pwm'.owns, ~pwm'.direct,
           ~Mid', main'.op \notin {"enable"} \cup SkewOps,
           Holds'
    PROVE  HoldInv'
BY DEF HoldInv, Landing, NoneAsked, Unskewed, Forgotten

LEMMA DutiesHold ==
    ASSUME StageInv, HoldInv,
           AllStandsDown \/ AllCounts \/ FineTakes \/ AlternateTakes
    PROVE  HoldInv'
<1>1. TypeOK
  BY DEF StageInv
<1>2. CASE AllStandsDown
  <2>1. ~pwm.owns /\ ~pwm.direct
    BY <1>1, <1>2, AllStandsDownIs, DutyMine DEF DutyOps
  <2>2. /\ act' = act /\ tim'.rep = tim.rep /\ tim'.rcr = tim.rcr
        /\ pwm'.skew = pwm.skew /\ hold' = NoHold
        /\ ~pwm'.owns /\ ~pwm'.direct /\ main'.op = "all" /\ ~pwm'.dither /\ ~pwm'.alternate
    BY <1>1, <1>2, <2>1, AllStandsDownIs
  <2>3. Holds' /\ ~Mid'
    BY <2>2 DEF Holds, NoHold, Mid
  <2> QED
    BY <2>1, <2>2, <2>3, NewHold DEF SkewOps
<1>3. CASE AllCounts
  <2>1. ~pwm.owns /\ ~pwm.direct /\ main.a \in Duties /\ main.n \in Nat
    BY <1>1, <1>3, AllCountsIs, DutyMine DEF DutyOps
  <2>2. /\ act' = act /\ tim'.rep = tim.rep /\ tim'.rcr = tim.rcr /\ pwm'.skew = pwm.skew
        /\ ~pwm'.owns /\ ~pwm'.direct /\ main' = Quiet
        /\ pwm'.countdown = main.n /\ pwm'.half = pwm.half /\ ~pwm'.dither
        /\ tim'.uie = (tim.uie \/ main.n # 0) /\ tim'.uif = tim.uif
        /\ hold' = (IF main.n = 0 THEN NoHold
                    ELSE [of |-> {main.a}, ran |-> 0, want |-> 2 * main.n])
    BY <1>1, <1>3, <2>1, AllCountsIs DEF HoldInv, Holds
  <2>3. ~Mid' /\ main'.op = "none"
    BY <2>2 DEF Mid, Quiet
  <2>4. Holds'
    <3>1. CASE main.n = 0
      BY <2>2, <2>3, <3>1 DEF Holds, NoHold
    <3>2. CASE main.n # 0
      <4>1. hold'.ran = 0 /\ hold'.want = 2 * main.n /\ hold'.of = {main.a}
        BY <2>2, <3>2
      <4>2. Bit(tim.uif)' \in Nat /\ pwm.half \in Nat
        BY <1>1, Fields DEF Bit
      <4>3. pwm'.countdown = main.n /\ pwm'.half = pwm.half /\ tim'.uie
        BY <2>2, <3>2
      <4>4. Counting'
        BY <2>1, <3>2, <4>1, <4>2, <4>3 DEF Counting
      <4> QED
        BY <2>2, <2>3, <4>1, <4>4 DEF Holds
    <3> QED
      BY <3>1, <3>2
  <2> QED
    BY <2>1, <2>2, <2>3, <2>4, NewHold DEF SkewOps
<1>4. CASE FineTakes
  <2>1. ~pwm.owns /\ ~pwm.direct
    BY <1>1, <1>4, FineTakesIs, DutyMine DEF DutyOps
  <2>2. /\ act' = act /\ tim'.rep = tim.rep /\ tim'.rcr = tim.rcr
        /\ pwm'.skew = pwm.skew /\ hold' = NoHold
        /\ ~pwm'.owns /\ ~pwm'.direct /\ main' = Quiet
    BY <1>1, <1>4, <2>1, FineTakesIs
  <2>3. Holds' /\ ~Mid' /\ main'.op = "none"
    BY <2>2 DEF Holds, NoHold, Mid, Quiet
  <2> QED
    BY <2>1, <2>2, <2>3, NewHold DEF SkewOps
<1>5. CASE AlternateTakes
  <2>1. ~pwm.owns /\ ~pwm.direct /\ main.a \in Duties /\ main.b \in Duties /\ main.n \in Nat
    BY <1>1, <1>5, AlternateTakesIs, DutyMine DEF DutyOps
  <2>2. /\ act' = act /\ tim'.rep = tim.rep /\ tim'.rcr = tim.rcr /\ pwm'.skew = pwm.skew
        /\ ~pwm'.owns /\ ~pwm'.direct /\ main' = Quiet
        /\ pwm'.countdown = main.n /\ pwm'.half = pwm.half /\ ~pwm'.dither /\ tim'.uie
        /\ hold' = (IF main.n = 0 THEN NoHold
                    ELSE [of |-> {main.a, main.b}, ran |-> 0, want |-> 2 * main.n])
    BY <1>1, <1>5, <2>1, AlternateTakesIs
  <2>3. ~Mid' /\ main'.op = "none"
    BY <2>2 DEF Mid, Quiet
  <2>4. Holds'
    <3>1. CASE main.n = 0
      BY <2>2, <2>3, <3>1 DEF Holds, NoHold
    <3>2. CASE main.n # 0
      <4>1. hold'.ran = 0 /\ hold'.want = 2 * main.n /\ hold'.of # {}
        BY <2>2, <3>2
      <4>2. Bit(tim.uif)' \in Nat /\ pwm.half \in Nat
        BY <1>1, Fields DEF Bit
      <4>3. pwm'.countdown = main.n /\ pwm'.half = pwm.half /\ tim'.uie
        BY <2>2
      <4>4. Counting'
        BY <2>1, <3>2, <4>1, <4>2, <4>3 DEF Counting
      <4> QED
        BY <2>2, <2>3, <4>1, <4>4 DEF Holds
    <3> QED
      BY <3>1, <3>2
  <2> QED
    BY <2>1, <2>2, <2>3, <2>4, NewHold DEF SkewOps
<1> QED
  BY <1>2, <1>3, <1>4, <1>5

LEMMA StoreHolds ==
    ASSUME StageInv, HoldInv, Store
    PROVE  HoldInv'
<1>1. TypeOK
  BY DEF StageInv
<1>2. /\ main.op \in {"all", "enable"} /\ main'.op = main.op /\ main'.at = main.at + 1
      /\ main.op = "all" => main.at >= 2
      /\ main'.at \in Nat /\ main.at \in Nat /\ main'.a = main.a
      /\ UNCHANGED <<tim, act, pwm, hold>>
  BY <1>1, StoreIs
<1>3. PICK k \in Leg : ccr' = [ccr EXCEPT ![k] = main.a]
  BY <1>1, StoreIs
<1>4. ~Mid'
  BY <1>2 DEF Mid
<1>5. CASE main.op = "all"
  <2>1. ~pwm.owns /\ ~pwm.direct
    BY <1>5, DutyMine DEF DutyOps
  <2>2. Holds'
    BY <1>2, <1>5 DEF HoldInv, Holds
  <2> QED
    BY <1>2, <1>4, <1>5, <2>1, <2>2, NewHold DEF SkewOps
<1>6. CASE main.op = "enable"
  <2>1. main.a = Zero
    BY <1>6 DEF HoldInv, Forgotten
  <2>2. \A j \in Leg : ccr'[j] \in {ccr[j], Zero}
    BY <1>1, <1>3, <2>1, Fields DEF Triples
  <2>3. NoneAsked(ccr) => NoneAsked(ccr')
    BY <2>2, NotAsked DEF NoneAsked
  <2>4. Landing' /\ Unskewed' /\ Forgotten'
    BY <1>2, <1>4, <2>1, <2>3 DEF HoldInv, Landing, Unskewed, Forgotten
  <2>5. (Counting => Counting') /\ (RanOut => RanOut')
    <3>1. Bit(tim.uif)' = Bit(tim.uif)
      BY <1>2 DEF Bit
    <3>2. (\A j \in Leg : ccr[j] \notin hold.of) => \A j \in Leg : ccr'[j] \notin hold'.of
      BY <1>1, <1>2, <2>2, NotAsked, Fields
    <3> QED
      BY <1>2, <3>1, <3>2 DEF Counting, RanOut
  <2>6. Holds'
    BY <1>2, <1>6, <2>5 DEF HoldInv, Holds
  <2> QED
    BY <2>4, <2>6 DEF HoldInv
<1> QED
  BY <1>2, <1>5, <1>6

LEMMA EnableHolds ==
    ASSUME StageInv, HoldInv, EnableArms
    PROVE  HoldInv'
<1>1. TypeOK
  BY DEF StageInv
<1>2. main'.op = "none" /\ ~Mid'
  BY <1>1, EnableArmsIs DEF Quiet, Mid
<1> QED
  BY <1>1, <1>2, EnableArmsIs, HoldRests DEF SkewOps

LEMMA DisableHolds ==
    ASSUME StageInv, HoldInv, DisableForgets \/ DisableStops
    PROVE  HoldInv'
<1>1. TypeOK
  BY DEF StageInv
<1>2. CASE DisableForgets
  <2>1. /\ hold' = NoHold /\ pwm'.direct = pwm.direct /\ ~pwm'.owns
        /\ ~pwm'.dither /\ ~pwm'.alternate /\ pwm'.skew = pwm.skew
        /\ UNCHANGED <<tim, ccr, act>> /\ main'.op \in {"disable", "drop"}
    BY <1>1, <1>2, DisableForgetsIs
  <2>2. Landing' /\ Unskewed' /\ Forgotten'
    BY <2>1 DEF HoldInv, Landing, NoneAsked, Unskewed, Forgotten, SkewOps
  <2>3. Holds'
    BY <2>1 DEF Holds, NoHold
  <2> QED
    BY <2>2, <2>3 DEF HoldInv
<1>3. CASE DisableStops
  <2>1. /\ Mid /\ ~pwm'.direct /\ pwm'.owns = pwm.owns /\ pwm'.skew = pwm.skew
        /\ pwm'.dither = pwm.dither /\ ~tim'.uie /\ tim'.rep = tim.rep
        /\ tim'.rcr = 0 /\ ccr' = All(Zero) /\ act' = act /\ hold' = hold /\ main' = Quiet
    BY <1>1, <1>3, DisableStopsIs
  <2>2. ~pwm.owns
    BY <2>1 DEF StageInv, Owners
  <2>3. main'.op = "none" /\ ~Mid'
    BY <2>1 DEF Quiet, Mid
  <2>4. Landing' /\ Unskewed' /\ Forgotten'
    BY <2>1, <2>2, <2>3 DEF HoldInv, Landing, NoneAsked, Unskewed, Forgotten, SkewOps
  <2>5. hold.ran <= hold.want
    BY <1>1, RunsShort DEF HoldInv
  <2>6. \A k \in Leg : ccr'[k] \notin hold'.of
    BY <1>1, <2>1, NotAsked, Fields DEF All
  <2>7. Holds'
    BY <2>1, <2>2, <2>3, <2>5, <2>6 DEF HoldInv, Holds, RanOut
  <2> QED
    BY <2>4, <2>7 DEF HoldInv
<1> QED
  BY <1>2, <1>3

\* The host's frames begin an op, or change what the compares do not know.
LEMMA HostHolds ==
    ASSUME StageInv, HoldInv, "deadtime" \notin Ops, Host
    PROVE  HoldInv'
<1>1. CASE Duty \/ Enable \/ Disable \/ Drop
  <2>1. /\ UNCHANGED <<tim, ccr, act, pwm, hold>>
        /\ main'.op \in {"all", "fine", "alternate", "enable", "disable", "drop"}
        /\ main'.at = 1 /\ (main'.op = "enable" => main'.a = Zero)
    <3>1. CASE Duty
      <4>1. PICK op \in DutyOps, a \in Duties, b \in Duties, n \in 0..MaxPeriods :
                Begin(op, a, b, n)
        BY <3>1 DEF Duty, DutyOps
      <4> QED
        BY <4>1 DEF Begin, DutyOps
    <3>2. CASE Enable
      BY <3>2 DEF Enable, Begin
    <3>3. CASE Disable
      BY <3>3 DEF Disable, Begin
    <3>4. CASE Drop
      BY <3>4 DEF Drop, Begin
    <3> QED
      BY <1>1, <3>1, <3>2, <3>3, <3>4
  <2>2. ~Mid'
    BY <2>1 DEF Mid
  <2> QED
    BY <2>1, <2>2, HoldRests DEF SkewOps
<1>2. CASE Deadtime
  BY <1>2 DEF Deadtime, Hears
<1>3. CASE Mode \/ Sync
  <2>1. UNCHANGED <<tim, ccr, act, pwm, hold, main>>
    BY <1>3 DEF Mode, Sync
  <2> QED
    BY <2>1, HoldRests
<1>4. CASE Clear
  <2>1. /\ UNCHANGED <<ccr, act, pwm, hold, main>>
        /\ tim'.rep = tim.rep /\ tim'.rcr = tim.rcr /\ tim'.uif = tim.uif
        /\ tim'.uie = tim.uie
    BY <1>4, Fields DEF Clear, TimState, StageInv
  <2> QED
    BY <2>1, HoldRests
<1> QED
  BY <1>1, <1>2, <1>3, <1>4 DEF Host

LEMMA NextHoldInv ==
    ASSUME StageInv, HoldInv, "deadtime" \notin Ops, [Next]_vars
    PROVE  HoldInv'
<1>1. CASE Loop
  <2>1. ~Skew
    BY SkewIs DEF HoldInv, Unskewed, StageInv
  <2> QED
    BY <1>1, <2>1, DutiesHold, StoreHolds, EnableHolds, DisableHolds DEF Loop
<1>2. CASE UNCHANGED vars
  <2>1. UNCHANGED <<tim, ccr, act, pwm, hold, main>>
    BY <1>2 DEF vars
  <2> QED
    BY <2>1, HoldRests
<1> QED
  BY <1>1, <1>2, EventHolds, UpdateHolds, OutputsHold, SampleHolds, HostHolds DEF Next

LEMMA InitHoldInv ==
    ASSUME Init
    PROVE  HoldInv
<1>1. /\ ~pwm.direct /\ ~pwm.owns /\ ~pwm.skew /\ tim.rep = 0 /\ tim.rcr = 0
      /\ hold.of = {} /\ hold.ran <= hold.want /\ main.op = "none"
  BY DEF Init, Quiet, NoHold
<1> QED
  BY <1>1 DEF HoldInv, Landing, Unskewed, SkewOps, Forgotten, Holds, Mid

\* A counted triple is in force for no more than its periods, whatever a host
\* asks for next, the drive takes, the break or the trip cuts short: the
\* update that is due and the half the count has reached are all it can gain,
\* and the count was started with both ahead of it.  The skewed dead time's
\* interrupt, which a count shares, is not asked for.
THEOREM HoldsBounded ==
    ASSUME Pace >= 4, "deadtime" \notin Ops
    PROVE  Spec => []HoldBounded
<1>1. Init => StageInv /\ HoldInv
  BY InitStageInv, InitHoldInv
<1>2. StageInv /\ HoldInv /\ [Next]_vars => (StageInv /\ HoldInv)'
  BY NextStageInv, NextHoldInv
<1>3. StageInv /\ HoldInv => HoldBounded
  BY RunsShort DEF StageInv, HoldInv, HoldBounded
<1> QED
  BY <1>1, <1>2, <1>3, PTL DEF Spec

-----------------------------------------------------------------------------
(* The bridge the drive opened, where no host asks again for an armed      *)
(* stage.                                                                  *)

\* The MOE the update interrupt read is still true when it is written back,
\* or there is a reason that it arms nothing.
Reads == bdtr = TRUE /\ ~tim.moe => tim.bif \/ ~pwm.armed

\* Every second update is the drive's to ask for; a sample that is due with a
\* repetition still to count is its own.
Repeats ==
    /\ tim.rcr = 1 => drv.owned
    /\ tim.rep = 1 /\ ~drv.owned => ~drv.due

\* A drive that is about to take the compares takes them beside no op but a
\* disable.
Takers == Waits => main.op \in {"none", "disable", "drop"}

Unarmed == main.op = "enable" => ~Enabled

\* With the bridge open, the drive's triple has not landed, or it is whole in
\* the compares, and in force at the next sample.
Closing ==
    drv.owned /\ tim.open /\ Enabled =>
        /\ pwm.owns /\ main.op \notin DutyOps \cup {"enable"}
        /\ pwm.landed => /\ ccr = All(Drive)
                         /\ tim.rep = 1 \/ drv.due => act = All(Drive)
        /\ ~pwm.landed => tim.rep = 0 /\ tim.rcr = 0 /\ ~pwm.direct /\ pwm.pending

CloseInv == Reads /\ Repeats /\ Takers /\ Unarmed /\ Closing

LEMMA NoneIs == None # TRUE
BY StageAssumption

\* What an op of the loop does, as far as the bridge knows.
LEMMA LoopIs ==
    ASSUME StageInv, Loop
    PROVE  /\ bdtr' = None /\ drv' = drv /\ act' = act
           /\ tim'.bif = tim.bif /\ tim'.rep = tim.rep /\ tim'.rcr \in {0, tim.rcr}
           /\ main'.op \in {main.op, "none"} \/ {main.op, main'.op} \subseteq SkewOps
           /\ tim'.open /\ Enabled' =>
                /\ tim.open /\ Enabled /\ pwm'.owns = pwm.owns
                /\ pwm'.landed = pwm.landed /\ pwm'.pending = pwm.pending
                /\ pwm'.direct => pwm.direct
                /\ ccr' = ccr \/ main.op \in {"all", "enable"}
           /\ Enabled' => Enabled \/ main'.op = "none"
<1>1. TypeOK
  BY DEF StageInv
<1>2. bdtr' = None
  BY DEF Loop, AllStandsDown, Store, AllCounts, FineTakes, AlternateTakes, EnableArms,
         DisableForgets, DisableStops, Skew, SkewSet, SkewLeavesDirect, SkewForgetsDirect,
         SkewAsksDirect, SkewFinds, SkewTests, SkewUpdates, InSkew, In, UpdateDue
<1>3. CASE AllStandsDown
  BY <1>1, <1>2, <1>3, AllStandsDownIs DEF Enabled
<1>4. CASE Store
  BY <1>1, <1>2, <1>4, StoreIs DEF Enabled
<1>5. CASE AllCounts \/ FineTakes \/ AlternateTakes
  <2>1. /\ drv' = drv /\ act' = act /\ main' = Quiet /\ ~tim'.open
        /\ tim'.bif = tim.bif /\ tim'.rep = tim.rep /\ tim'.rcr = tim.rcr
    BY <1>1, <1>5, AllCountsIs, FineTakesIs, AlternateTakesIs
  <2> QED
    BY <1>2, <2>1 DEF Quiet
<1>6. CASE EnableArms
  BY <1>1, <1>2, <1>6, EnableArmsIs DEF Quiet
<1>7. CASE DisableForgets
  BY <1>1, <1>2, <1>7, DisableForgetsIs DEF Enabled
<1>8. CASE DisableStops
  BY <1>1, <1>2, <1>8, DisableStopsIs DEF Enabled, Quiet
<1>9. CASE Skew
  BY <1>1, <1>2, <1>9, SkewIs DEF Enabled
<1> QED
  BY <1>3, <1>4, <1>5, <1>6, <1>7, <1>8, <1>9 DEF Loop

\* What a frame of the host's does, as far as the bridge and the duties know.
LEMMA HostIs ==
    ASSUME StageInv, Pace >= 4, Host
    PROVE  /\ bdtr' = None /\ UNCHANGED <<ccr, act, pwm, hold, asked>>
           /\ tim'.rep = tim.rep /\ tim'.rcr = tim.rcr /\ tim'.moe = tim.moe
           /\ tim'.open = tim.open /\ drv'.owned = drv.owned /\ (drv'.due => drv.due)
           /\ main.op = "none"
           /\ main'.op \in {"none", "all", "fine", "alternate", "enable", "disable", "drop",
                            "unskew"}
           /\ main'.op # "none" =>
                /\ main'.at = 1 /\ UNCHANGED <<tim, drv, calm>>
           /\ main'.op = "none" => main' = main
           /\ main'.op \in DutyOps => ~pwm.owns /\ Enabled
           /\ main'.op = "enable" => (~Enabled \/ "rearm" \in Ops) /\ main'.a = Zero
           /\ main'.op \notin {"none", "disable", "drop"} => ~Waits
<1>1. bdtr' = None
  BY DEF Host, Duty, Enable, Disable, Drop, Deadtime, Mode, Sync, Clear, Hears, Begin, UpdateDue
<1>2. CASE Duty
  <2>1. PICK op \in DutyOps, a \in Duties, b \in Duties, n \in 0..MaxPeriods :
            Hears(op) /\ Enabled /\ ~pwm.owns /\ Begin(op, a, b, n)
    BY <1>2 DEF Duty, DutyOps
  <2>2. main.op = "none" /\ ~Waits
    BY <2>1, HearsAlone
  <2>3. main'.op = op /\ main'.at = 1 /\ UNCHANGED <<tim, ccr, act, pwm, drv, calm, hold, asked>>
    BY <2>1 DEF Begin
  <2> QED
    BY <1>1, <2>1, <2>2, <2>3 DEF DutyOps
<1>3. CASE Enable
  <2>1. main.op = "none" /\ ~Waits
    BY <1>3, HearsAlone DEF Enable
  <2> QED
    BY <1>1, <1>3, <2>1 DEF Enable, Begin, DutyOps
<1>4. CASE Disable \/ Drop
  BY <1>1, <1>4 DEF Disable, Drop, Hears, Begin, DutyOps
<1>5. CASE Deadtime
  <2>1. main.op = "none" /\ ~Waits
    BY <1>5, HearsAlone DEF Deadtime
  <2> QED
    BY <1>1, <1>5, <2>1 DEF Deadtime, Begin, DutyOps
<1>6. CASE Mode \/ Sync
  <2>1. /\ main.op = "none" /\ UNCHANGED <<tim, ccr, act, pwm, main, hold, asked>>
    BY <1>6 DEF Mode, Sync, Hears
  <2>2. drv'.owned = drv.owned /\ (drv'.due => drv.due)
    BY <1>6, Fields DEF StageInv, Mode, Sync, DrvState
  <2> QED
    BY <1>1, <2>1, <2>2 DEF DutyOps
<1>7. CASE Clear
  <2>1. /\ main.op = "none" /\ UNCHANGED <<ccr, act, pwm, main, drv, hold, asked>>
    BY <1>7 DEF Clear, Hears
  <2>2. /\ tim'.rep = tim.rep /\ tim'.rcr = tim.rcr /\ tim'.moe = tim.moe
        /\ tim'.open = tim.open
    BY <1>7, Fields DEF StageInv, Clear, TimState
  <2> QED
    BY <1>1, <2>1, <2>2 DEF DutyOps
<1> QED
  BY <1>2, <1>3, <1>4, <1>5, <1>6, <1>7 DEF Host

LEMMA EventCloses ==
    ASSUME StageInv, CloseInv, Event
    PROVE  CloseInv'
<1>1. TypeOK
  BY DEF StageInv
<1>2. Reads' /\ Takers' /\ Unarmed'
  BY <1>1, EventIs DEF CloseInv, Reads, Takers, Waits, Unarmed, Enabled
<1>3. tim'.rep = 1 => tim.rep = 0 /\ tim.rcr = 1
  BY <1>1, EventIs, Fields
<1>4. Repeats'
  BY <1>1, <1>3, EventIs DEF CloseInv, Repeats
<1>5. Closing'
  <2>1. SUFFICES ASSUME drv'.owned, tim'.open, Enabled' PROVE Closing'
    BY DEF Closing
  <2>2. drv.owned /\ tim.open /\ Enabled /\ pwm' = pwm /\ main' = main /\ ccr' = ccr
    BY <1>1, <2>1, EventIs DEF Enabled
  <2>3. CASE pwm.landed
    <3>1. ccr = All(Drive) /\ (tim.rep = 1 => act = All(Drive))
      BY <2>2, <2>3 DEF CloseInv, Closing
    <3>2. act' = All(Drive)
      BY <1>1, <3>1, EventIs, Fields
    <3>3. All(Drive)' = All(Drive)
      BY DEF All
    <3> QED
      BY <2>2, <2>3, <3>1, <3>2, <3>3 DEF CloseInv, Closing
  <2>4. CASE ~pwm.landed
    <3>1. tim.rep = 0 /\ tim.rcr = 0
      BY <2>2, <2>4 DEF CloseInv, Closing
    <3>2. tim'.rep = 0 /\ tim'.rcr = 0
      BY <1>1, <3>1, EventIs
    <3> QED
      BY <2>2, <2>4, <3>2 DEF CloseInv, Closing
  <2> QED
    BY <2>3, <2>4
<1> QED
  BY <1>2, <1>4, <1>5 DEF CloseInv

LEMMA UpdateCloses ==
    ASSUME StageInv, CloseInv, Update
    PROVE  CloseInv'
<1> DEFINE land == pwm.pending /\ ~tim.down
           enter == pwm.toDirect /\ ~tim.down
<1>1. TypeOK
  BY DEF StageInv
<1>2. bdtr' = TRUE => tim'.moe
  BY <1>1, NoneIs, UpdateIs
<1>3. Reads' /\ Takers' /\ Unarmed'
  BY <1>1, <1>2, UpdateIs DEF CloseInv, Reads, Takers, Waits, Unarmed, Enabled
<1>4. tim'.rcr = 1 => tim.rcr = 1 \/ pwm.owns
  BY <1>1, UpdateIs
<1>5. Repeats'
  BY <1>1, <1>4, UpdateIs DEF StageInv, Owners, CloseInv, Repeats
<1>6. Closing'
  <2>1. SUFFICES ASSUME drv'.owned, tim'.open, Enabled' PROVE Closing'
    BY DEF Closing
  <2>2. /\ drv.owned /\ tim.open /\ Enabled /\ main' = main /\ drv' = drv /\ act' = act
        /\ tim'.rep = tim.rep /\ pwm'.owns = pwm.owns
    BY <1>1, <2>1, UpdateIs DEF Enabled
  <2>3. /\ pwm.owns /\ main.op \notin DutyOps \cup {"enable"}
        /\ ~pwm.alternate /\ ~Expires /\ (land => ~drv.due)
    BY <1>1, <2>2, UpdateIs DEF CloseInv, Closing, StageInv, Owners, Expires, Counted
  <2>4. /\ ccr' = (IF land THEN All(Drive) ELSE ccr)
        /\ pwm'.pending = (pwm.pending /\ ~land) /\ pwm'.landed = (pwm.landed \/ land)
        /\ pwm'.direct = (pwm.direct \/ enter)
        /\ tim'.rcr = IF enter THEN 1 ELSE tim.rcr
    BY <1>1, <2>3, UpdateIs
  <2>5. All(Drive)' = All(Drive)
    BY DEF All
  <2>6. CASE pwm.landed
    <3>1. ccr = All(Drive) /\ (tim.rep = 1 \/ drv.due => act = All(Drive))
      BY <2>2, <2>6 DEF CloseInv, Closing
    <3> QED
      BY <2>2, <2>3, <2>4, <2>5, <2>6, <3>1 DEF Closing
  <2>7. CASE ~pwm.landed
    <3>1. tim.rep = 0 /\ tim.rcr = 0 /\ ~pwm.direct /\ pwm.pending
      BY <2>2, <2>7 DEF CloseInv, Closing
    <3>2. CASE land
      <4>1. ccr' = All(Drive) /\ pwm'.landed /\ ~drv.due
        BY <2>3, <2>4, <3>2
      <4> HIDE DEF land, enter
      <4> QED
        BY <2>2, <2>3, <2>5, <3>1, <4>1 DEF Closing
    <3>3. CASE ~land
      <4>1. ~enter
        BY <3>1, <3>3
      <4>2. ~pwm'.landed /\ tim'.rcr = 0 /\ ~pwm'.direct /\ pwm'.pending
        BY <2>4, <2>7, <3>1, <3>3, <4>1
      <4> QED
        BY <2>2, <2>3, <3>1, <4>2 DEF Closing
    <3> QED
      BY <3>2, <3>3
  <2> QED
    BY <2>6, <2>7
<1> QED
  BY <1>3, <1>5, <1>6 DEF CloseInv

\* A break opens the bridge for good; what is written back arms nothing that
\* was not armed.
LEMMA OutputsClose ==
    ASSUME StageInv, CloseInv, Break \/ WritesBack
    PROVE  CloseInv'
<1>1. TypeOK
  BY DEF StageInv
<1>2. /\ UNCHANGED <<ccr, act, pwm, drv, main>>
      /\ tim'.rep = tim.rep /\ tim'.rcr = tim.rcr /\ tim'.open = tim.open
  BY <1>1, BreakIs, WritesBackIs
<1>3. Enabled' => Enabled
  <2>1. CASE Break
    BY <1>1, <2>1, BreakIs DEF Enabled
  <2>2. CASE WritesBack
    BY <1>1, <2>2, WritesBackIs DEF Enabled, CloseInv, Reads
  <2> QED
    BY <2>1, <2>2
<1>4. Reads'
  BY <1>1, NoneIs, BreakIs, WritesBackIs DEF Reads
<1>5. Repeats' /\ Takers' /\ Unarmed'
  BY <1>2, <1>3 DEF CloseInv, Repeats, Takers, Waits, Unarmed
<1>6. Closing'
  <2>1. All(Drive)' = All(Drive)
    BY DEF All
  <2> QED
    BY <1>2, <1>3, <2>1 DEF CloseInv, Closing
<1> QED
  BY <1>4, <1>5, <1>6 DEF CloseInv

LEMMA SampleCloses ==
    ASSUME StageInv, CloseInv, Sample
    PROVE  CloseInv'
<1>1. TypeOK
  BY DEF StageInv
<1>2. CASE Trip
  BY <1>1, <1>2, TripIs DEF CloseInv, Reads, Repeats, Takers, Waits, Unarmed, Closing, Enabled
<1>3. CASE Drives
  <2>1. /\ drv.due /\ drv.on /\ Enabled /\ pwm'.armed /\ main' = main /\ bdtr' = bdtr
        /\ ~drv'.due /\ drv'.owned /\ pwm'.direct = pwm.direct
        /\ ~pwm.direct => pwm'.pending
        /\ tim'.rep = tim.rep /\ tim'.rcr = tim.rcr /\ tim'.moe = tim.moe
    BY <1>1, <1>3, DrivesIs
  <2>2. Reads' /\ Repeats' /\ Takers' /\ Unarmed'
    BY <2>1 DEF CloseInv, Reads, Repeats, Takers, Waits, Unarmed, Enabled
  <2>3. Closing'
    <3>1. CASE drv.owned
      <4>1. /\ pwm'.owns = pwm.owns /\ pwm'.landed = pwm.landed
            /\ tim'.open = (tim.open /\ ~pwm.landed)
        BY <1>1, <1>3, <3>1, DrivesIs
      <4> QED
        BY <2>1, <3>1, <4>1 DEF CloseInv, Closing
    <3>2. CASE ~drv.owned
      <4>1. pwm'.owns /\ ~pwm'.landed
        BY <1>1, <1>3, <3>2, DrivesIs
      <4>2. ~pwm.direct
        BY <2>1, <3>2 DEF StageInv, Owners, Ways, Enabled
      <4>3. main.op \notin DutyOps \cup {"enable"}
        BY <2>1, <3>2 DEF StageInv, Owners, CloseInv, Takers, Waits, DutyOps
      <4>4. tim.rep = 0 /\ tim.rcr = 0
        BY <1>1, <2>1, <3>2, Fields DEF CloseInv, Repeats
      <4> QED
        BY <2>1, <4>1, <4>2, <4>3, <4>4 DEF Closing
    <3> QED
      BY <3>1, <3>2
  <2> QED
    BY <2>2, <2>3 DEF CloseInv
<1>4. CASE LetsGoOrIdles
  <2>1. ~drv'.due /\ ~drv'.on /\ ~drv'.owned /\ main' = main /\ bdtr' = bdtr
    BY <1>1, <1>4, LetsGoIs
  <2>2. /\ tim'.moe = tim.moe /\ tim'.bif = tim.bif /\ pwm'.armed = pwm.armed
        /\ drv.owned => tim'.rcr = 0
        /\ ~drv.owned => tim'.rcr = tim.rcr
    BY <1>1, <1>4, LetsGoIs
  <2>3. Reads' /\ Repeats' /\ Takers' /\ Unarmed' /\ Closing'
    BY <2>1, <2>2 DEF CloseInv, Reads, Repeats, Takers, Waits, Unarmed, Closing, Enabled
  <2> QED
    BY <2>3 DEF CloseInv
<1> QED
  BY <1>2, <1>3, <1>4 DEF Sample

LEMMA LoopCloses ==
    ASSUME StageInv, CloseInv, Loop
    PROVE  CloseInv'
<1>1. Reads'
  BY NoneIs, LoopIs DEF Reads
<1>2. Repeats' /\ Takers'
  BY LoopIs, Fields DEF StageInv, CloseInv, Repeats, Takers, Waits, SkewOps
<1>3. Unarmed'
  BY LoopIs DEF CloseInv, Unarmed, SkewOps
<1>4. Closing'
  <2>1. SUFFICES ASSUME drv'.owned, tim'.open, Enabled' PROVE Closing'
    BY DEF Closing
  <2>2. /\ drv.owned /\ tim.open /\ Enabled /\ pwm'.owns = pwm.owns
        /\ pwm'.landed = pwm.landed /\ pwm'.pending = pwm.pending
        /\ pwm'.direct => pwm.direct
        /\ ccr' = ccr \/ main.op \in {"all", "enable"}
        /\ drv' = drv /\ act' = act /\ tim'.rep = tim.rep /\ tim'.rcr \in {0, tim.rcr}
        /\ main'.op \in {main.op, "none"} \/ {main.op, main'.op} \subseteq SkewOps
    BY <2>1, LoopIs
  <2>3. pwm.owns /\ main.op \notin DutyOps \cup {"enable"}
    BY <2>2 DEF CloseInv, Closing
  <2>4. ccr' = ccr /\ main'.op \notin DutyOps \cup {"enable"}
    BY <2>2, <2>3 DEF DutyOps, SkewOps
  <2>5. All(Drive)' = All(Drive)
    BY DEF All
  <2> QED
    BY <2>2, <2>3, <2>4, <2>5 DEF CloseInv, Closing
<1> QED
  BY <1>1, <1>2, <1>3, <1>4 DEF CloseInv

LEMMA HostCloses ==
    ASSUME StageInv, CloseInv, Pace >= 4, "rearm" \notin Ops, Host
    PROVE  CloseInv'
<1>1. Reads'
  BY NoneIs, HostIs DEF Reads
<1>2. Repeats'
  BY HostIs DEF CloseInv, Repeats
<1>3. Takers'
  BY HostIs DEF Takers, Waits
<1>4. Unarmed'
  BY HostIs DEF Unarmed, Enabled
<1>5. Closing'
  <2>1. Enabled' = Enabled
    BY HostIs DEF Enabled
  <2>2. All(Drive)' = All(Drive)
    BY DEF All
  <2> QED
    BY <2>1, <2>2, HostIs DEF CloseInv, Closing, DutyOps
<1> QED
  BY <1>1, <1>2, <1>3, <1>4, <1>5 DEF CloseInv

LEMMA NextCloseInv ==
    ASSUME StageInv, CloseInv, Pace >= 4, "rearm" \notin Ops, [Next]_vars
    PROVE  CloseInv'
<1>1. CASE UNCHANGED vars
  <2>1. UNCHANGED <<tim, ccr, act, pwm, drv, main, bdtr>> /\ All(Drive)' = All(Drive)
    BY <1>1 DEF vars, All
  <2> QED
    BY <2>1 DEF CloseInv, Reads, Repeats, Takers, Waits, Unarmed, Closing, Enabled
<1> QED
  BY <1>1, EventCloses, UpdateCloses, OutputsClose, SampleCloses, LoopCloses, HostCloses
  DEF Next

LEMMA InitCloseInv ==
    ASSUME Init
    PROVE  CloseInv
<1>1. bdtr = None /\ tim.rcr = 0 /\ tim.rep = 0 /\ ~drv.on /\ ~drv.owned /\ main.op = "none"
  BY DEF Init, Quiet
<1>2. Reads
  BY <1>1, NoneIs DEF Reads
<1> QED
  BY <1>1, <1>2 DEF CloseInv, Repeats, Takers, Waits, Unarmed, Closing

\* The sample that closes the bridge finds the drive's triple whole in force:
\* the one asked for at the first sample landed through the update, and a
\* whole period under it has begun.
LEMMA SampleClosesOnDrive ==
    ASSUME StageInv, CloseInv, Sample, tim.open, ~tim'.open
    PROVE  act = All(Drive)
<1>1. TypeOK
  BY DEF StageInv
<1>2. CASE Trip
  BY <1>1, <1>2, TripIs
<1>3. CASE Drives
  <2>1. drv.due /\ Enabled
    BY <1>1, <1>3, DrivesIs
  <2>2. drv.owned /\ pwm.landed
    BY <1>1, <1>3, DrivesIs
  <2> QED
    BY <2>1, <2>2 DEF CloseInv, Closing
<1>4. CASE LetsGoOrIdles
  BY <1>1, <1>4, LetsGoIs
<1> QED
  BY <1>2, <1>3, <1>4 DEF Sample

\* The bridge the drive opened closes only on the drive's own triple, never on
\* the zeros left behind it: with the break, the trip, a dead time's skew and
\* a disable at any point, as long as no host arms an armed stage again.
THEOREM ClosesOnDriveOnly ==
    ASSUME Pace >= 4, "rearm" \notin Ops
    PROVE  Spec => ClosesOnDrive
<1>1. Init => StageInv /\ CloseInv
  BY InitStageInv, InitCloseInv
<1>2. StageInv /\ CloseInv /\ [Next]_vars => (StageInv /\ CloseInv)'
  BY NextStageInv, NextCloseInv
<1>3. StageInv /\ CloseInv => (Sample /\ tim.open /\ ~tim'.open => act = All(Drive))
  BY SampleClosesOnDrive
<1> QED
  BY <1>1, <1>2, <1>3, PTL DEF Spec, ClosesOnDrive

-----------------------------------------------------------------------------
(* A stage no drive takes and no fault breaks, armed by its host.          *)

\* Armed is what the outputs are, but between a disable's two stores; a duty
\* was let through over an armed stage.
Unbroken ==
    /\ ~tim.bif /\ ~drv.sync /\ ~drv.due /\ ~pwm.owns
    /\ tim.rep = 0 /\ tim.rcr = 0
    /\ bdtr # None => bdtr = tim.moe
    /\ pwm.armed <=> tim.moe /\ ~Mid
    /\ main.op \in DutyOps => Enabled
    /\ main.op = "all" /\ main.at >= 2 => asked

\* A stage that is off, or was asked for nothing, has zeros to put in force
\* and nothing that would write another triple.
Stopped ==
    ~tim.moe \/ ~asked => ccr = All(Zero) /\ ~pwm.dither /\ ~pwm.alternate

Arms == tim.moe /\ ~asked /\ calm >= 1 => act = All(Zero)

ArmInv == Unbroken /\ Forgotten /\ Stopped /\ Arms

LEMMA EventArms ==
    ASSUME TypeOK, ArmInv, Event
    PROVE  ArmInv'
<1>1. tim.rep = 0 /\ tim.rcr = 0 /\ ~drv.sync /\ ~drv.due
  BY DEF ArmInv, Unbroken
<1>2. /\ tim'.rep = 0 /\ tim'.rcr = 0 /\ tim'.moe = tim.moe /\ tim'.bif = tim.bif
      /\ ~drv'.sync /\ ~drv'.due /\ act' = ccr
      /\ ccr' = ccr /\ pwm' = pwm /\ main' = main /\ bdtr' = bdtr /\ asked' = asked
  BY <1>1, EventIs
<1>3. All(Zero)' = All(Zero)
  BY DEF All
<1>4. Unbroken' /\ Forgotten'
  BY <1>2 DEF ArmInv, Unbroken, Forgotten, Mid, Enabled
<1>5. Stopped' /\ Arms'
  BY <1>2, <1>3 DEF ArmInv, Stopped, Arms
<1> QED
  BY <1>4, <1>5 DEF ArmInv

LEMMA UpdateArms ==
    ASSUME TypeOK, ArmInv, Update
    PROVE  ArmInv'
<1>1. ~pwm.owns
  BY DEF ArmInv, Unbroken
<1>2. /\ tim'.rep = tim.rep /\ tim'.rcr = tim.rcr /\ tim'.moe = tim.moe /\ tim'.bif = tim.bif
      /\ pwm'.armed = pwm.armed /\ pwm'.owns = pwm.owns
      /\ pwm'.dither => pwm.dither
      /\ pwm'.alternate => pwm.alternate
      /\ bdtr' = (IF pwm.skew THEN tim.moe ELSE None)
      /\ UNCHANGED <<act, drv, main, calm, asked>>
      /\ pwm.alternate \/ pwm.dither \/ ccr' \in {ccr, All(Zero)}
  BY <1>1, UpdateIs
<1>3. All(Zero)' = All(Zero)
  BY DEF All
<1>4. Unbroken' /\ Forgotten'
  BY <1>2 DEF ArmInv, Unbroken, Forgotten, Mid, Enabled
<1>5. Stopped' /\ Arms'
  BY <1>2, <1>3 DEF ArmInv, Stopped, Arms
<1> QED
  BY <1>4, <1>5 DEF ArmInv

LEMMA WritesBackArms ==
    ASSUME TypeOK, ArmInv, WritesBack
    PROVE  ArmInv'
<1>1. bdtr \in BOOLEAN /\ bdtr # None
  BY StageAssumption, WritesBackIs
<1>2. bdtr = tim.moe /\ ~tim.bif
  BY <1>1 DEF ArmInv, Unbroken
<1>3. /\ tim'.moe = tim.moe /\ tim'.rep = tim.rep /\ tim'.rcr = tim.rcr
      /\ tim'.bif = tim.bif /\ bdtr' = None
      /\ UNCHANGED <<ccr, act, pwm, drv, main, calm, asked>>
  BY <1>2, WritesBackIs
<1>4. All(Zero)' = All(Zero)
  BY DEF All
<1>5. Unbroken' /\ Forgotten'
  BY <1>3 DEF ArmInv, Unbroken, Forgotten, Mid, Enabled
<1>6. Stopped' /\ Arms'
  BY <1>3, <1>4 DEF ArmInv, Stopped, Arms
<1> QED
  BY <1>5, <1>6 DEF ArmInv

\* An op that asks for a duty: the stage is armed, and what was asked is.
LEMMA DutiesArm ==
    ASSUME StageInv, ArmInv,
           AllStandsDown \/ AllCounts \/ FineTakes \/ AlternateTakes
    PROVE  ArmInv'
<1>1. TypeOK
  BY DEF StageInv
<1>2. /\ main.op \in DutyOps /\ (main.op = "all" => main.at = 1 \/ asked)
      /\ (AllCounts => asked)
  BY <1>1, AllStandsDownIs, AllCountsIs, FineTakesIs, AlternateTakesIs
  DEF DutyOps, ArmInv, Unbroken
<1>3. Enabled /\ tim.moe
  BY <1>2 DEF ArmInv, Unbroken, Enabled
<1>4. /\ tim'.rep = tim.rep /\ tim'.rcr = tim.rcr /\ tim'.moe = tim.moe /\ tim'.bif = tim.bif
      /\ pwm'.armed = pwm.armed /\ pwm'.owns = pwm.owns
      /\ bdtr' = bdtr /\ drv' = drv
      /\ main'.op \in {"all", "none"}
  BY <1>1, AllStandsDownIs, AllCountsIs, FineTakesIs, AlternateTakesIs DEF Quiet
<1>5. asked'
  BY <1>1, <1>2, AllStandsDownIs, AllCountsIs, FineTakesIs, AlternateTakesIs
<1>6. ~Mid /\ ~Mid'
  BY <1>2, <1>4 DEF Mid, DutyOps
<1>7. Unbroken' /\ Forgotten'
  BY <1>3, <1>4, <1>5, <1>6 DEF ArmInv, Unbroken, Forgotten, Enabled
<1>8. Stopped' /\ Arms'
  BY <1>3, <1>4, <1>5 DEF Stopped, Arms
<1> QED
  BY <1>7, <1>8 DEF ArmInv

LEMMA StoreArms ==
    ASSUME StageInv, ArmInv, Store
    PROVE  ArmInv'
<1>1. TypeOK
  BY DEF StageInv
<1>2. /\ main.op \in {"all", "enable"} /\ main'.op = main.op
      /\ main.op = "all" => main.at >= 2
      /\ main'.a = main.a
      /\ UNCHANGED <<bdtr, tim, act, pwm, drv, calm, asked>>
  BY <1>1, StoreIs
<1>3. PICK k \in Leg : ccr' = [ccr EXCEPT ![k] = main.a]
  BY <1>1, StoreIs
<1>4. ~Mid /\ ~Mid' /\ (main.op = "all" => asked /\ Enabled)
  BY <1>2 DEF Mid, ArmInv, Unbroken, DutyOps
<1>5. Unbroken' /\ Forgotten'
  BY <1>2, <1>4 DEF ArmInv, Unbroken, Forgotten, Enabled, DutyOps
<1>6. All(Zero)' = All(Zero)
  BY DEF All
<1>7. CASE main.op = "all"
  BY <1>2, <1>4, <1>5, <1>7 DEF ArmInv, Stopped, Arms, Enabled
<1>8. CASE main.op = "enable"
  <2>1. ccr = All(Zero) => ccr' = All(Zero)
    <3>1. main.a = Zero
      BY <1>8 DEF ArmInv, Forgotten
    <3> QED
      BY <1>3, <3>1 DEF All
  <2> QED
    BY <1>2, <1>5, <1>6, <2>1 DEF ArmInv, Stopped, Arms
<1> QED
  BY <1>2, <1>7, <1>8

LEMMA EnableArmsArms ==
    ASSUME TypeOK, ArmInv, EnableArms
    PROVE  ArmInv'
<1>1. /\ main.op = "enable" /\ main' = Quiet /\ calm' = 0 /\ bdtr' = None
      /\ pwm'.armed /\ pwm'.owns = pwm.owns /\ pwm'.dither = pwm.dither
      /\ pwm'.alternate = pwm.alternate /\ tim'.moe /\ tim'.rep = tim.rep
      /\ tim'.rcr = tim.rcr /\ tim'.bif = tim.bif /\ asked' = (asked /\ tim.moe)
      /\ ccr' = ccr /\ drv' = drv
  BY EnableArmsIs DEF EnableArms, In, UpdateDue
<1>2. main'.op = "none" /\ ~Mid'
  BY <1>1 DEF Quiet, Mid
<1>3. All(Zero)' = All(Zero)
  BY DEF All
<1>4. Unbroken' /\ Forgotten'
  BY <1>1, <1>2 DEF ArmInv, Unbroken, Forgotten, DutyOps
<1>5. Stopped'
  <2>1. ~asked' => ~asked \/ ~tim.moe
    BY <1>1
  <2> QED
    BY <1>1, <1>3, <2>1 DEF ArmInv, Stopped
<1>6. Arms'
  BY <1>1 DEF Arms
<1> QED
  BY <1>4, <1>5, <1>6 DEF ArmInv

LEMMA DisableArms ==
    ASSUME TypeOK, ArmInv, DisableForgets \/ DisableStops
    PROVE  ArmInv'
<1>1. All(Zero)' = All(Zero)
  BY DEF All
<1>2. CASE DisableForgets
  <2>1. /\ main'.op \in {"disable", "drop"} /\ main'.at = 2
        /\ ~pwm'.armed /\ ~pwm'.dither /\ ~pwm'.alternate /\ ~pwm'.owns
        /\ UNCHANGED <<bdtr, tim, ccr, act, drv, calm, asked>>
    BY <1>2, DisableForgetsIs
  <2>2. Mid'
    BY <2>1 DEF Mid
  <2>3. Unbroken' /\ Forgotten'
    BY <2>1, <2>2 DEF ArmInv, Unbroken, Forgotten, DutyOps
  <2>4. Stopped' /\ Arms'
    BY <1>1, <2>1 DEF ArmInv, Stopped, Arms
  <2> QED
    BY <2>3, <2>4 DEF ArmInv
<1>3. CASE DisableStops
  <2>1. /\ Mid /\ main' = Quiet /\ bdtr' = None
        /\ pwm'.armed = pwm.armed /\ pwm'.dither = pwm.dither
        /\ pwm'.alternate = pwm.alternate /\ pwm'.owns = pwm.owns
        /\ tim'.rcr = 0 /\ ~tim'.moe /\ tim'.rep = tim.rep /\ tim'.bif = tim.bif
        /\ ccr' = All(Zero) /\ drv' = drv
    BY <1>3, DisableStopsIs DEF DisableStops, In, UpdateDue
  <2>2. main'.op = "none" /\ ~Mid'
    BY <2>1 DEF Quiet, Mid
  <2>3. ~pwm.armed /\ ~pwm.dither /\ ~pwm.alternate
    BY <2>1 DEF ArmInv, Unbroken, Forgotten
  <2>4. Unbroken' /\ Forgotten'
    BY <2>1, <2>2, <2>3 DEF ArmInv, Unbroken, Forgotten, DutyOps
  <2>5. Stopped' /\ Arms'
    BY <1>1, <2>1, <2>3 DEF Stopped, Arms
  <2> QED
    BY <2>4, <2>5 DEF ArmInv
<1> QED
  BY <1>2, <1>3

LEMMA SkewArms ==
    ASSUME TypeOK, ArmInv, Skew
    PROVE  ArmInv'
<1>1. /\ main.op \in SkewOps /\ main'.op \in SkewOps \cup {"none"}
      /\ pwm'.armed = pwm.armed /\ pwm'.dither = pwm.dither
      /\ pwm'.alternate = pwm.alternate /\ pwm'.owns = pwm.owns
      /\ tim'.rcr \in {0, tim.rcr} /\ tim'.rep = tim.rep /\ tim'.moe = tim.moe
      /\ tim'.bif = tim.bif /\ calm' \in {0, calm}
      /\ UNCHANGED <<bdtr, ccr, act, drv, asked>>
  BY SkewIs
<1>2. ~Mid /\ ~Mid' /\ All(Zero)' = All(Zero)
  BY <1>1 DEF Mid, All, SkewOps
<1>3. Unbroken' /\ Forgotten'
  BY <1>1, <1>2 DEF ArmInv, Unbroken, Forgotten, DutyOps, SkewOps
<1>4. Stopped' /\ Arms'
  BY <1>1, <1>2 DEF ArmInv, Stopped, Arms
<1> QED
  BY <1>3, <1>4 DEF ArmInv

LEMMA HostArms ==
    ASSUME StageInv, ArmInv, Pace >= 4, {"mode", "sync"} \cap Ops = {}, Host
    PROVE  ArmInv'
<1>1. ~Mode /\ ~Sync /\ ~Clear
  BY DEF Mode, Sync, Clear, Hears, ArmInv, Unbroken
<1>2. /\ UNCHANGED <<tim, drv, calm, bdtr>>
      /\ main'.op \in {"all", "fine", "alternate", "enable", "disable", "drop", "unskew"}
      /\ main'.at = 1
  BY <1>1 DEF Host, Duty, Enable, Disable, Drop, Deadtime, Begin
<1>3. ~Mid /\ ~Mid' /\ All(Zero)' = All(Zero)
  BY <1>2, HostIs DEF Mid, All
<1>4. UNCHANGED <<ccr, act, pwm, asked>>
  BY HostIs
<1>5. Unbroken' /\ Forgotten'
  BY <1>2, <1>3, <1>4, HostIs DEF ArmInv, Unbroken, Forgotten, Enabled
<1>6. Stopped' /\ Arms'
  BY <1>2, <1>3, <1>4 DEF ArmInv, Stopped, Arms
<1> QED
  BY <1>5, <1>6 DEF ArmInv

LEMMA NextArmInv ==
    ASSUME StageInv, ArmInv, Pace >= 4, ~Breaks, {"mode", "sync"} \cap Ops = {}, [Next]_vars
    PROVE  ArmInv'
<1>1. TypeOK
  BY DEF StageInv
<1>2. ~Sample /\ ~Break
  BY DEF Sample, Break, ArmInv, Unbroken
<1>3. CASE UNCHANGED vars
  <2>1. UNCHANGED <<tim, ccr, act, pwm, drv, main, bdtr, calm, asked>> /\ All(Zero)' = All(Zero)
    BY <1>3 DEF vars, All
  <2> QED
    BY <2>1 DEF ArmInv, Unbroken, Forgotten, Stopped, Arms, Mid, Enabled
<1> QED
  BY <1>1, <1>2, <1>3, EventArms, UpdateArms, WritesBackArms, DutiesArm, StoreArms,
     EnableArmsArms, DisableArms, SkewArms, HostArms DEF Next, Loop

LEMMA InitArmInv ==
    ASSUME Init
    PROVE  ArmInv
<1>1. /\ ~tim.bif /\ ~drv.sync /\ ~drv.due /\ ~pwm.owns /\ tim.rep = 0 /\ tim.rcr = 0
      /\ bdtr = None /\ ~pwm.armed /\ ~tim.moe /\ main.op = "none"
      /\ ccr = All(Zero) /\ ~pwm.dither /\ ~pwm.alternate
  BY DEF Init, Quiet
<1> QED
  BY <1>1 DEF ArmInv, Unbroken, Forgotten, Stopped, Arms, Mid, DutyOps

\* Arming puts no duty on the bridge that was not asked for since: the zeros
\* behind the arming are in force from the next update on, whatever a disable,
\* a drop, a dead time or a count left behind - where no drive samples and
\* nothing breaks.  (Those take the outputs away under an op, which goes on.)
THEOREM ArmedAtZero ==
    ASSUME Pace >= 4, ~Breaks, {"mode", "sync"} \cap Ops = {}
    PROVE  Spec => []ArmsAtZero
<1>1. Init => StageInv /\ ArmInv
  BY InitStageInv, InitArmInv
<1>2. StageInv /\ ArmInv /\ [Next]_vars => (StageInv /\ ArmInv)'
  BY NextStageInv, NextArmInv
<1>3. StageInv /\ ArmInv => ArmsAtZero
  BY Numbers DEF StageInv, TypeOK, ArmInv, Arms, ArmsAtZero, Enabled
<1> QED
  BY <1>1, <1>2, <1>3, PTL DEF Spec

=============================================================================
