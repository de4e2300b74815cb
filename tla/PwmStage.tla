------------------------------ MODULE PwmStage ------------------------------
(***************************************************************************)
(* The gate drivers' stage: board/src/board_pwm.c over TIM1, with the      *)
(* drive's seam in board/src/board_drive.c that takes the compares from    *)
(* the host and lets them go.                                              *)
(*                                                                         *)
(* Four actors.  TIM1 counts up and down and, at an update event, moves    *)
(* the preloaded compares into force.  TIM1's update interrupt and, above  *)
(* it, ADC3's injected interrupt (the drive's sample, once a period) run   *)
(* between two steps of the loop, whole but for the update's write of the  *)
(* dead time, which a sample may come before.  The loop runs the host's    *)
(* ops store by store.  A triple of duties is a tag; the compares are a    *)
(* tag per leg, so a triple half written is seen.                          *)
(***************************************************************************)
EXTENDS Naturals

CONSTANTS
    Legs,        \* the bridge's legs are 1..Legs
    Duties,      \* the triples a host asks for
    Drive,       \* the triple the drive asks for
    Zero,        \* the triple of no duty
    None,
    MaxPeriods,  \* the longest counted hold a host asks for
    Pace,        \* half periods between two frames of the host
    Ops,         \* what the host and the loop do in this instance
    Breaks       \* whether the break input may fire

ASSUME StageAssumption ==
    /\ Legs \in Nat \ {0}
    /\ MaxPeriods \in Nat
    /\ Pace \in Nat
    /\ Zero # Drive /\ {Zero, Drive} \cap Duties = {}
    /\ Breaks \in BOOLEAN /\ None \notin BOOLEAN

VARIABLES
    tim,    \* TIM1: direction, RCR and its counter, flags, outputs
    ccr,    \* the compares as written, preloaded
    act,    \* the compares in force
    pwm,    \* board_pwm.c's struct
    drv,    \* board_drive.c's part: the mode, who owns, the sync, a sample due
    main,   \* the op the loop is in
    bdtr,   \* the MOE the update interrupt read and is to write back, or None
    calm,   \* half periods since the host's last frame, up to Pace
    hold,   \* the counted hold being watched (history)
    asked   \* whether a duty was asked for since the stage was armed (history)

vars == <<tim, ccr, act, pwm, drv, main, bdtr, calm, hold, asked>>

Leg == 1..Legs
Tags == Duties \cup {Drive, Zero}
All(t) == [k \in Leg |-> t]
NoHold == [of |-> {}, ran |-> 0, want |-> 0]
Quiet == [op |-> "none", at |-> 0, a |-> Zero, b |-> Zero, n |-> 0]

\* Board_PwmIsEnabled.
Enabled == pwm.armed /\ tim.moe

\* Board_PwmInit and Board_DriveInit have run.
Init ==
    /\ tim = [down |-> FALSE, rcr |-> 0, rep |-> 0, uif |-> TRUE, uie |-> FALSE,
              moe |-> FALSE, bif |-> FALSE, open |-> FALSE]
    /\ ccr = All(Zero) /\ act = All(Zero)
    /\ pwm = [armed |-> FALSE, dither |-> FALSE, alternate |-> FALSE, to |-> 1,
              a |-> Zero, b |-> Zero, half |-> 0, skew |-> FALSE,
              countdown |-> 0, owns |-> FALSE, pending |-> FALSE,
              landed |-> FALSE, direct |-> FALSE, toDirect |-> FALSE]
    /\ drv = [on |-> FALSE, owned |-> FALSE, sync |-> FALSE, due |-> FALSE]
    /\ main = Quiet /\ bdtr = None /\ calm = Pace
    /\ hold = NoHold /\ asked = FALSE

-----------------------------------------------------------------------------
(* TIM1.                                                                   *)

\* An interrupt that is due, or under way, ends before the loop's next store
\* and before the next update.
Pended == tim.uif /\ tim.uie
UpdateDue == Pended \/ bdtr # None

\* What the history makes of one more half period under these compares.
Watched(now) ==
    IF \E k \in Leg : now[k] \in hold.of
    THEN [hold EXCEPT !.ran = IF @ > hold.want THEN @ ELSE @ + 1]
    ELSE hold

\* An overflow or an underflow: the update that RCR lets through, and at the
\* overflow the trigger of the injected conversions.
Event ==
    LET update == tim.rep = 0
        now == IF update THEN ccr ELSE act
    IN /\ ~UpdateDue
       /\ ~tim.down => ~drv.due
       /\ tim' = [tim EXCEPT !.down = ~@, !.uif = @ \/ update,
                             !.rep = IF update THEN tim.rcr ELSE @ - 1]
       /\ act' = now
       /\ drv' = [drv EXCEPT !.due = IF tim.down THEN @ ELSE drv.sync]
       /\ calm' = IF calm < Pace THEN calm + 1 ELSE calm
       /\ hold' = Watched(now)
       /\ UNCHANGED <<ccr, pwm, main, bdtr, asked>>

\* nFAULT: the outputs go off in hardware, and nothing else is told.
Break ==
    /\ Breaks /\ ~tim.bif
    /\ tim' = [tim EXCEPT !.moe = FALSE, !.bif = TRUE]
    /\ UNCHANGED <<ccr, act, pwm, drv, main, bdtr, calm, hold, asked>>

-----------------------------------------------------------------------------
(* TIM1_UP_IRQHandler.                                                     *)

\* Mutant: a count that is not asked whether it has run out.
CountedPast == pwm.half = 1

\* hold_counted_down, on the half it has just become.
Counted == pwm.countdown # 0 /\ pwm.half = 1
Expires == Counted /\ pwm.countdown = 1

\* hold_expired, before the branches below.
Stood ==
    LET counted == [pwm EXCEPT !.half = 1 - @,
                               !.countdown = IF Counted THEN @ - 1 ELSE @]
    IN IF Expires THEN [counted EXCEPT !.alternate = FALSE, !.dither = FALSE]
                  ELSE counted

Cleared == [tim EXCEPT !.uif = FALSE, !.uie = @ /\ (Expires => pwm.skew)]

\* The alternating triples swap just past the overflow.
Alternates ==
    /\ Stood.alternate /\ tim.down
    /\ ccr' = All(IF pwm.to = 1 THEN pwm.b ELSE pwm.a)
    /\ pwm' = [Stood EXCEPT !.to = 1 - @]
    /\ tim' = Cleared

\* land_next_triple and enter_direct, both just past the underflow.
Lands ==
    LET land == pwm.pending /\ ~tim.down
        enter == pwm.toDirect /\ ~tim.down
    IN /\ ~(Stood.alternate /\ tim.down) /\ pwm.owns
       /\ ccr' = IF land THEN All(Drive) ELSE IF Expires THEN All(Zero) ELSE ccr
       /\ pwm' = [Stood EXCEPT !.pending = @ /\ ~land,
                               !.landed = @ \/ land,
                               !.direct = @ \/ enter,
                               !.toDirect = @ /\ ~enter]
       /\ tim' = [Cleared EXCEPT !.rcr = IF enter THEN 1 ELSE @,
                                 !.uie = @ /\ ~enter]

\* Board_PwmDitherStep once a period, or nothing to write.
Dithers ==
    /\ ~(Stood.alternate /\ tim.down) /\ ~pwm.owns
    /\ ccr' = IF Stood.dither /\ Stood.half = 0 THEN All(pwm.a)
              ELSE IF Expires THEN All(Zero) ELSE ccr
    /\ pwm' = Stood
    /\ tim' = Cleared

\* The handler ends in the skewed dead time's read of BDTR.  A sample that is
\* due began before the underflow and outranks its update.
Update ==
    /\ Pended /\ bdtr = None
    /\ ~tim.down => ~drv.due
    /\ Alternates \/ Lands \/ Dithers
    /\ bdtr' = IF pwm.skew THEN tim.moe ELSE None
    /\ UNCHANGED <<act, drv, main, calm, hold, asked>>

\* The dead time written, and with it MOE as it was read; a break the hardware
\* holds.
WritesBack ==
    /\ bdtr # None
    /\ tim' = [tim EXCEPT !.moe = bdtr /\ ~tim.bif]
    /\ bdtr' = None
    /\ UNCHANGED <<ccr, act, pwm, drv, main, calm, hold, asked>>

-----------------------------------------------------------------------------
(* The drive's sample, in ADC3's interrupt.                                *)

\* Board_PwmDisable, what it does to the struct and to the timer.
Down(p) == [p EXCEPT !.armed = FALSE, !.dither = FALSE, !.alternate = FALSE,
                     !.countdown = 0, !.owns = FALSE, !.pending = FALSE,
                     !.direct = FALSE, !.toDirect = FALSE]
Off(t) == [t EXCEPT !.rcr = 0, !.uie = FALSE, !.moe = FALSE]

\* A current past the trip, whatever the mode: the stage goes down.
Trip ==
    /\ Enabled
    /\ pwm' = Down(pwm) /\ tim' = Off(tim) /\ ccr' = All(Zero)
    /\ drv' = [drv EXCEPT !.due = FALSE, !.on = FALSE, !.owned = FALSE]
    /\ hold' = NoHold
    /\ UNCHANGED asked

\* own_pwm: taken once, with the first triple.
Owned(p) ==
    IF drv.owned THEN p
    ELSE [p EXCEPT !.dither = FALSE, !.alternate = FALSE, !.countdown = 0,
                   !.pending = FALSE, !.landed = FALSE, !.owns = TRUE,
                   !.toDirect = ~p.skew]

\* Mutants: the bridge closed with the first triple asked for, in force or
\* not; the update interrupt left as it was.
DrivesAtOnce ==
    LET p == Owned(pwm)
    IN /\ drv.on /\ Enabled
       /\ pwm' = [p EXCEPT !.pending = @ \/ ~p.direct]
       /\ tim' = [tim EXCEPT !.uif = @ /\ drv.owned, !.uie = @ \/ ~drv.owned,
                             !.open = FALSE]
       /\ ccr' = IF p.direct THEN All(Drive) ELSE ccr
       /\ drv' = [drv EXCEPT !.due = FALSE, !.owned = TRUE]
       /\ asked' = TRUE
       /\ hold' = IF drv.owned THEN hold ELSE NoHold

DrivesUnlanded ==
    LET p == Owned(pwm)
    IN /\ drv.on /\ Enabled
       /\ pwm' = [p EXCEPT !.pending = @ \/ ~p.direct]
       /\ tim' = [tim EXCEPT !.uif = @ /\ drv.owned, !.open = @ /\ ~p.landed]
       /\ ccr' = IF p.direct THEN All(Drive) ELSE ccr
       /\ drv' = [drv EXCEPT !.due = FALSE, !.owned = TRUE]
       /\ asked' = TRUE
       /\ hold' = IF drv.owned THEN hold ELSE NoHold

\* Board_PwmSetNext: straight into the compares, or left for the underflow.
Drives ==
    LET p == Owned(pwm)
    IN /\ drv.on /\ Enabled
       /\ pwm' = [p EXCEPT !.pending = @ \/ ~p.direct]
       /\ tim' = [tim EXCEPT !.uif = @ /\ drv.owned, !.uie = @ \/ ~drv.owned,
                             !.open = @ /\ ~p.landed]
       /\ ccr' = IF p.direct THEN All(Drive) ELSE ccr
       /\ drv' = [drv EXCEPT !.due = FALSE, !.owned = TRUE]
       /\ asked' = TRUE
       /\ hold' = IF drv.owned THEN hold ELSE NoHold

\* Mutant: the duties given up, the ownership kept.
LetsGoKeeps ==
    /\ tim' = IF drv.owned THEN [tim EXCEPT !.open = TRUE] ELSE tim
    /\ ccr' = IF drv.owned THEN All(Zero) ELSE ccr
    /\ drv' = [drv EXCEPT !.due = FALSE, !.on = FALSE, !.owned = FALSE]
    /\ UNCHANGED <<pwm, hold, asked>>

\* Not driven - off, the stage dropped, the polarity's pulses over: an owner
\* lets go with the bridge open, the compares at zero behind it.
LetsGoOrIdles ==
    /\ pwm' = IF drv.owned
              THEN [pwm EXCEPT !.owns = FALSE, !.pending = FALSE,
                               !.landed = FALSE, !.direct = FALSE,
                               !.toDirect = FALSE]
              ELSE pwm
    /\ tim' = IF drv.owned
              THEN [tim EXCEPT !.open = TRUE, !.rcr = 0,
                               !.uie = pwm.skew \/ pwm.dither]
              ELSE tim
    /\ ccr' = IF drv.owned THEN All(Zero) ELSE ccr
    /\ drv' = [drv EXCEPT !.due = FALSE, !.on = FALSE, !.owned = FALSE]
    /\ UNCHANGED <<hold, asked>>

Sample ==
    /\ drv.due
    /\ Trip \/ Drives \/ LetsGoOrIdles
    /\ UNCHANGED <<act, main, bdtr, calm>>

-----------------------------------------------------------------------------
(* The loop.  An op is refused or begun, then goes on store by store.      *)

Hears(op) == op \in Ops /\ main.op = "none" /\ calm = Pace /\ ~UpdateDue

Begin(op, a, b, n) ==
    /\ main' = [op |-> op, at |-> 1, a |-> a, b |-> b, n |-> n]
    /\ UNCHANGED <<bdtr, tim, ccr, act, pwm, drv, calm, hold, asked>>

\* Mutant: an op let through beside the drive.
DutyBeside ==
    \E op \in {"all", "fine", "alternate"} : \E a, b \in Duties :
        /\ Hears(op) /\ Enabled
        /\ (op = "alternate") = (a # b)
        /\ \E n \in 0..MaxPeriods :
              /\ op = "fine" => n = 0
              /\ Begin(op, a, b, n)

\* compares_refused: the stage is off, or the drive holds the compares.
Duty ==
    \E op \in {"all", "fine", "alternate"} : \E a, b \in Duties :
        /\ Hears(op) /\ Enabled /\ ~pwm.owns
        /\ (op = "alternate") = (a # b)
        /\ \E n \in 0..MaxPeriods :
              /\ op = "fine" => n = 0
              /\ Begin(op, a, b, n)

\* A host that asks again for an armed stage is an instance's choice.
Enable ==
    /\ Hears("enable") /\ ~tim.bif
    /\ Enabled => "rearm" \in Ops
    /\ Begin("enable", Zero, Zero, 0)

Disable == Hears("disable") /\ Begin("disable", Zero, Zero, 0)

\* The thermal ceiling or a silent host: the loop's own disable, at any pass.
Drop ==
    /\ "drop" \in Ops /\ main.op = "none" /\ ~UpdateDue
    /\ Begin("drop", Zero, Zero, 0)

\* op 9 asks for a skew: through zero, then as asked.
Deadtime == \E n \in 0..1 : Hears("deadtime") /\ Begin("unskew", Zero, Zero, n)

In(op, at) == main.op = op /\ main.at = at /\ ~UpdateDue

Next1 == main' = [main EXCEPT !.at = @ + 1]

\* The op's answer: the host's next frame is a while away.
Answered ==
    /\ main' = Quiet
    /\ calm' = IF main.op = "drop" THEN calm ELSE 0

\* Board_PwmSetAll, first half: the update interrupt stands down.
AllStandsDown ==
    /\ In("all", 1)
    /\ pwm' = [pwm EXCEPT !.dither = FALSE, !.alternate = FALSE, !.countdown = 0]
    /\ tim' = [tim EXCEPT !.uie = pwm.skew]
    /\ hold' = NoHold /\ asked' = TRUE
    /\ Next1
    /\ UNCHANGED <<bdtr, ccr, act, drv, calm>>

\* A compare a store: the triple of an "all", the zeros of an "enable".
Store ==
    /\ \E k \in Leg :
          /\ In("all", k + 1) \/ In("enable", k)
          /\ ccr' = [ccr EXCEPT ![k] = main.a]
    /\ Next1
    /\ UNCHANGED <<bdtr, tim, act, pwm, drv, calm, hold, asked>>

\* Mutant: a period more than was asked.
AllCountsOneMore ==
    /\ In("all", Legs + 2)
    /\ pwm' = [pwm EXCEPT !.countdown = IF main.n = 0 THEN 0 ELSE main.n + 1]
    /\ tim' = [tim EXCEPT !.open = FALSE, !.uie = @ \/ main.n # 0]
    /\ hold' = IF main.n = 0 THEN NoHold
               ELSE [of |-> {main.a}, ran |-> 0, want |-> 2 * main.n]
    /\ Answered
    /\ UNCHANGED <<bdtr, ccr, act, drv, asked>>

\* The bridge follows the compares; a counted triple starts its count.
AllCounts ==
    /\ In("all", Legs + 2)
    /\ pwm' = [pwm EXCEPT !.countdown = main.n]
    /\ tim' = [tim EXCEPT !.open = FALSE, !.uie = @ \/ main.n # 0]
    /\ hold' = IF main.n = 0 THEN NoHold
               ELSE [of |-> {main.a}, ran |-> 0, want |-> 2 * main.n]
    /\ Answered
    /\ UNCHANGED <<bdtr, ccr, act, drv, asked>>

\* Board_PwmSetAllFine, its stores under PRIMASK.
FineTakes ==
    /\ In("fine", 1)
    /\ pwm' = [pwm EXCEPT !.dither = TRUE, !.alternate = FALSE, !.countdown = 0,
                          !.a = main.a]
    /\ tim' = [tim EXCEPT !.uif = FALSE, !.uie = TRUE, !.open = FALSE]
    /\ hold' = NoHold /\ asked' = TRUE
    /\ Answered
    /\ UNCHANGED <<bdtr, ccr, act, drv>>

\* Board_PwmSetAlternate, its stores under PRIMASK.
AlternateTakes ==
    /\ In("alternate", 1)
    /\ pwm' = [pwm EXCEPT !.dither = FALSE, !.alternate = TRUE, !.to = 1,
                          !.countdown = main.n, !.a = main.a, !.b = main.b]
    /\ ccr' = All(main.a)
    /\ tim' = [tim EXCEPT !.uif = FALSE, !.uie = TRUE, !.open = FALSE]
    /\ hold' = IF main.n = 0 THEN NoHold
               ELSE [of |-> {main.a, main.b}, ran |-> 0, want |-> 2 * main.n]
    /\ asked' = TRUE
    /\ Answered
    /\ UNCHANGED <<bdtr, act, drv>>

\* Board_PwmEnable, behind its zeros.
EnableArms ==
    /\ In("enable", Legs + 1)
    /\ pwm' = [pwm EXCEPT !.armed = TRUE]
    /\ tim' = [tim EXCEPT !.open = FALSE, !.moe = TRUE]
    /\ asked' = (asked /\ tim.moe)
    /\ Answered
    /\ UNCHANGED <<bdtr, ccr, act, drv, hold>>

\* Board_PwmDisable: the struct, then the timer.
DisableForgets ==
    /\ In("disable", 1) \/ In("drop", 1)
    /\ pwm' = [Down(pwm) EXCEPT !.direct = pwm.direct, !.toDirect = pwm.toDirect]
    /\ hold' = NoHold
    /\ Next1
    /\ UNCHANGED <<bdtr, tim, ccr, act, drv, calm, asked>>

DisableStops ==
    /\ In("disable", 2) \/ In("drop", 2)
    /\ pwm' = [pwm EXCEPT !.direct = FALSE, !.toDirect = FALSE]
    /\ tim' = Off(tim) /\ ccr' = All(Zero)
    /\ Answered
    /\ UNCHANGED <<bdtr, act, drv, hold, asked>>

\* Board_PwmSetDeadTimeSkew, once for zero and once for what was asked: a
\* refused one leaves the zero, as asking for none does.  The update interrupt
\* may come between any two of its stores.
Wanted == main.op = "skew" /\ main.n = 1

InSkew(at) == In("unskew", at) \/ In("skew", at)

SkewSet ==
    /\ InSkew(1)
    /\ pwm' = [pwm EXCEPT !.skew = Wanted]
    /\ Next1
    /\ UNCHANGED <<bdtr, tim, ccr, act, drv, calm, hold, asked>>

\* leave_direct, for a skew under the drive: RCR, then the two flags.
SkewLeavesDirect ==
    /\ InSkew(2) /\ pwm.owns /\ Wanted
    /\ tim' = [tim EXCEPT !.rcr = 0]
    /\ Next1
    /\ UNCHANGED <<bdtr, ccr, act, pwm, drv, calm, hold, asked>>

\* Mutant: the flag left set.
SkewForgetsHalf ==
    /\ Wanted
    /\ \/ InSkew(3) /\ UNCHANGED pwm
       \/ InSkew(4) /\ pwm' = [pwm EXCEPT !.toDirect = FALSE]
    /\ Next1
    /\ UNCHANGED <<bdtr, tim, ccr, act, drv, calm, hold, asked>>

SkewForgetsDirect ==
    /\ Wanted
    /\ \/ InSkew(3) /\ pwm' = [pwm EXCEPT !.direct = FALSE]
       \/ InSkew(4) /\ pwm' = [pwm EXCEPT !.toDirect = FALSE]
    /\ Next1
    /\ UNCHANGED <<bdtr, tim, ccr, act, drv, calm, hold, asked>>

\* None under the drive: straight in again, from the next underflow.
SkewAsksDirect ==
    /\ InSkew(4) /\ ~Wanted
    /\ pwm' = [pwm EXCEPT !.toDirect = TRUE]
    /\ Next1
    /\ UNCHANGED <<bdtr, tim, ccr, act, drv, calm, hold, asked>>

\* What needs no store of the drive's: its triples' way stays as it is.
SkewFinds ==
    /\ InSkew(2) /\ ~(pwm.owns /\ Wanted)
    /\ main' = [main EXCEPT !.at = IF pwm.owns /\ ~pwm.direct THEN 4 ELSE 5]
    /\ UNCHANGED <<bdtr, tim, ccr, act, pwm, drv, calm, hold, asked>>

\* Mutant: an interrupt that stands down for a drive that is landed.
SkewTestsUnlanded ==
    /\ InSkew(5)
    /\ main' = [main EXCEPT !.at = IF pwm.skew \/ pwm.dither THEN 6 ELSE 7]
    /\ UNCHANGED <<bdtr, tim, ccr, act, pwm, drv, calm, hold, asked>>

\* update_irq's argument, read before the bit of DIER is written.
SkewTests ==
    /\ InSkew(5)
    /\ main' = [main EXCEPT !.at =
          IF pwm.skew \/ pwm.dither \/ (pwm.owns /\ ~pwm.direct) THEN 6 ELSE 7]
    /\ UNCHANGED <<bdtr, tim, ccr, act, pwm, drv, calm, hold, asked>>

SkewUpdates ==
    /\ InSkew(6) \/ InSkew(7)
    /\ tim' = [tim EXCEPT !.uie = main.at = 6]
    /\ IF main.op = "skew" THEN Answered
       ELSE main' = [main EXCEPT !.op = "skew", !.at = 1] /\ UNCHANGED calm
    /\ UNCHANGED <<bdtr, ccr, act, pwm, drv, hold, asked>>

Skew ==
    \/ SkewSet \/ SkewLeavesDirect \/ SkewForgetsDirect \/ SkewAsksDirect
    \/ SkewFinds \/ SkewTests \/ SkewUpdates

\* Board_DriveSetMode: any mode but off arms the sync, then asks the stage and
\* the converter's supply, and a refused one leaves the mode it found.
Mode ==
    /\ Hears("mode")
    /\ \/ \E taken \in BOOLEAN :
             /\ taken => Enabled
             /\ drv' = [drv EXCEPT !.sync = TRUE, !.on = @ \/ taken]
       \/ drv' = [drv EXCEPT !.on = FALSE]
    /\ calm' = 0
    /\ UNCHANGED <<bdtr, tim, ccr, act, pwm, main, hold, asked>>

\* op 3 of the gate drivers: the sync armed or disarmed.
Sync ==
    /\ Hears("sync")
    /\ \E on \in BOOLEAN :
          drv' = [drv EXCEPT !.sync = on, !.due = @ /\ on]
    /\ calm' = 0
    /\ UNCHANGED <<bdtr, tim, ccr, act, pwm, main, hold, asked>>

\* Board_PwmClearFault: the latch, nothing armed.
Clear ==
    /\ Hears("clear") /\ tim.bif
    /\ tim' = [tim EXCEPT !.bif = FALSE]
    /\ calm' = 0
    /\ UNCHANGED <<bdtr, ccr, act, pwm, drv, main, hold, asked>>

Loop ==
    \/ AllStandsDown \/ Store \/ AllCounts \/ FineTakes \/ AlternateTakes
    \/ EnableArms \/ DisableForgets \/ DisableStops \/ Skew

Host == Duty \/ Enable \/ Disable \/ Drop \/ Deadtime \/ Mode \/ Sync \/ Clear

Next == Event \/ Break \/ Update \/ WritesBack \/ Sample \/ Loop \/ Host

Spec == Init /\ [][Next]_vars

\* The counter runs, a due interrupt is served and the loop goes on: the host
\* may fall silent at any point.
Fairness == WF_vars(Event) /\ WF_vars(Update \/ WritesBack) /\ WF_vars(Sample) /\ WF_vars(Loop)

FairSpec == Spec /\ Fairness

-----------------------------------------------------------------------------
(* What must hold.                                                         *)

TimState ==
    [down : BOOLEAN, rcr : 0..1, rep : 0..1, uif : BOOLEAN,
     uie : BOOLEAN, moe : BOOLEAN, bif : BOOLEAN, open : BOOLEAN]

Triples == [Leg -> Tags]

PwmState ==
    [armed : BOOLEAN, dither : BOOLEAN, alternate : BOOLEAN,
     to : 0..1, a : Duties \cup {Zero}, b : Duties \cup {Zero},
     half : 0..1, skew : BOOLEAN, countdown : 0..MaxPeriods,
     owns : BOOLEAN, pending : BOOLEAN, landed : BOOLEAN,
     direct : BOOLEAN, toDirect : BOOLEAN]

DrvState == [on : BOOLEAN, owned : BOOLEAN, sync : BOOLEAN, due : BOOLEAN]

MainState ==
    [op : {"none", "all", "fine", "alternate", "enable", "disable", "drop",
           "unskew", "skew"},
     at : 0..(Legs + 7), a : Duties \cup {Zero},
     b : Duties \cup {Zero}, n : 0..MaxPeriods \cup 0..1]

HoldState == [of : SUBSET Duties, ran : Nat, want : Nat]

TypeOK ==
    /\ tim \in TimState /\ ccr \in Triples /\ act \in Triples
    /\ pwm \in PwmState /\ drv \in DrvState /\ main \in MainState
    /\ bdtr \in BOOLEAN \cup {None} /\ calm \in 0..Pace
    /\ hold \in HoldState /\ asked \in BOOLEAN

\* A counted triple, once its count has begun, is in force for no more than
\* its periods: the current a host asked for by the period is bounded.
HoldBounded == hold.ran <= hold.want

\* A stage that was armed applies no duty, from the first whole period on,
\* until one is asked for.
ArmsAtZero ==
    Enabled /\ main.op = "none" /\ ~asked /\ calm >= 2 => act = All(Zero)

\* The compares have one writer: an op that was let through is not still
\* writing once the drive owns them.
OneWriter == main.op \in {"all", "fine", "alternate"} => ~pwm.owns

\* Where the drive's triple goes is agreed in three places: straight into the
\* compares only for an owner with nothing left for the interrupt to land, and
\* with an update a period.
DirectAgrees ==
    pwm.direct /\ main.op = "none" => pwm.owns /\ ~pwm.pending /\ tim.rcr = 1

\* A drive that has its triples landed has the update interrupt, whatever a skew
\* being set and the interrupt's own switch made of each other.  That it then
\* comes at underflows, where it lands them, is SkewIsLanded, and is not so.
LandedByUpdate ==
    pwm.owns /\ ~pwm.direct /\ main.op = "none" => tim.uie

\* board_pwm.c:775, "The skew wants both updates, so the drive's triples go back
\* to being landed".
SkewIsLanded ==
    pwm.skew /\ pwm.owns /\ main.op = "none" => ~pwm.direct /\ tim.rcr = 0

\* board_drive.c:500, "The trip: MOE down in hardware before this returns."
TripHolds == ~pwm.armed /\ main.op = "none" => ~tim.moe

\* The bridge the drive opened closes only on the drive's own triple, whole
\* and in force: never on the zeros left behind it.
ClosesOnDrive ==
    [][Sample /\ tim.open /\ ~tim'.open => act = All(Drive)]_vars

\* board_pwm.c:330, "set drive mode 0 (off) first, and it lets go".
LetsGo == ~drv.on ~> (~pwm.owns \/ drv.on)

\* A drive that stays on over an armed stage has its triple in force, and none
\* left to land, again and again, whatever let go of the compares before.
DriveLands ==
    <>[](drv.on /\ Enabled) => []<>(act = All(Drive) /\ ~pwm.pending)

=============================================================================
