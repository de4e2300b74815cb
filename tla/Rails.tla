------------------------------- MODULE Rails -------------------------------
(***************************************************************************)
(* The switched rail's users and leases (board/src/board_power.c), the     *)
(* thermal observer that borrows it for a sample (board/src/board_thermal.c*)
(* sense_sample) and the host that holds it, within main()'s loop.         *)
(*                                                                         *)
(* A pass of the loop polls the power, then the observer unless the link   *)
(* is mid-frame, then the link.  Stamps are the HAL's ticks, which wrap;   *)
(* the observer's own stamps are kept as ages, capped where they decide    *)
(* nothing more.                                                           *)
(***************************************************************************)
EXTENDS Integers

CONSTANTS
    Span,    \* the HAL's tick counts modulo Span
    Lease,   \* BOARD_POWER_LEASE_MS
    Silence, \* BOARD_POWER_HOST_QUIET_MS
    Every,   \* the observer's sampling period
    Settle,  \* what it gives the reference to come up
    Late     \* bound: ticks a pass of the loop may take

\* cmd_thermal refuses a settle that does not fit the period.  One longer than a
\* lease it takes, and then no sample is ever read.
ASSUME RailsAssumption ==
    /\ {Span, Lease, Silence, Every, Settle, Late} \subseteq Nat \ {0}
    /\ Settle < Every
    /\ 2 * (Lease + Late + 1) < Span /\ Silence + Late < Span

VARIABLES
    tick,   \* HAL_GetTick, and the ticks since this pass began
    rail,   \* board_power.c: the users, their expiries, the pin
    host,   \* drop_host_claims' statics, and the link's count having moved
    sense,  \* the observer's struct
    armed,  \* Board_PwmIsEnabled
    pc,     \* what the loop calls next
    seen    \* how long: the host's silence, the lease, the rail up (history)

vars == <<tick, rail, host, sense, armed, pc, seen>>

HOST == "host"
THERMAL == "thermal"
Users == {HOST, THERMAL}

Lesser(a, b) == IF a < b THEN a ELSE b

\* Unsigned and signed differences of two stamps.
Since(now, then) == (now - then) % Span
Past(now, at) == Since(now, at) < Span \div 2

Init ==
    /\ tick = [now |-> 0, late |-> 0]
    /\ rail = [users |-> {}, expires |-> [u \in Users |-> 0], on |-> FALSE]
    /\ host = [heard |-> FALSE, seenAt |-> 0, told |-> FALSE, busy |-> FALSE]
    /\ sense = [holding |-> FALSE, held |-> 0, sampled |-> 0, up |-> 0,
                afeWas |-> FALSE, ran |-> FALSE]
    /\ armed = FALSE /\ pc = "power"
    /\ seen = [silent |-> 0, leased |-> 0, read |-> FALSE]

-----------------------------------------------------------------------------
(* board_power.c.                                                          *)

\* apply: the pin follows the users.
Apply(r) == [r EXCEPT !.on = r.users # {}]

\* Mutants: the lease that lands on the sentinel is not moved off it; a stamp
\* wider than the tick.
LeaseEndWraps(now) == (now + Lease) % Span
LeaseEndWide(now) == now + Lease

\* Zero says "never expires".
LeaseEnd(now) == LET at == (now + Lease) % Span IN IF at = 0 THEN 1 ELSE at

\* Mutant: a new user of a rail that is down is let in.
TakesBeside(user) == TRUE

\* Only a new hold can be refused.
Takes(user) == user \in rail.users \/ ~armed

\* Board_PowerAcquire, granted.
Acquired(user) ==
    Apply([rail EXCEPT !.users = @ \cup {user},
                       !.expires[user] = IF user = HOST THEN 0 ELSE LeaseEnd(tick.now)])

\* Board_PowerRelease.
Released(r, user) == Apply([r EXCEPT !.users = @ \ {user}, !.expires[user] = 0])

\* Board_PowerReleaseAll: no guard on the gate stage.
ReleasedAll == Apply([rail EXCEPT !.users = {}, !.expires = [u \in Users |-> 0]])

\* expire_leases.
Expired(r) ==
    LET out == {u \in Users : r.expires[u] # 0 /\ Past(tick.now, r.expires[u])} IN
    IF out = {} THEN r
    ELSE Apply([r EXCEPT !.users = @ \ out,
                         !.expires = [u \in Users |-> IF u \in out THEN 0 ELSE @[u]]])

\* Mutant: told stays, whatever is heard since.
LookedOnce ==
    IF host.heard THEN [host EXCEPT !.heard = FALSE, !.seenAt = tick.now] ELSE host

\* drop_host_claims' look at the link's count.
Looked ==
    IF host.heard
    THEN [host EXCEPT !.heard = FALSE, !.seenAt = tick.now, !.told = FALSE] ELSE host

\* Board_PowerPoll: the silent host's claims and stage, then the leases.
PowerPoll ==
    LET silent == ~ Looked.told /\ Since(tick.now, Looked.seenAt) > Silence IN
    /\ pc = "power"
    /\ host' = [Looked EXCEPT !.told = @ \/ silent]
    /\ rail' = Expired(IF silent /\ HOST \in rail.users THEN Released(rail, HOST) ELSE rail)
    /\ armed' = (armed /\ ~ silent)
    /\ tick' = [tick EXCEPT !.late = 0]
    /\ pc' = "observe"
    /\ UNCHANGED <<sense, seen>>

-----------------------------------------------------------------------------
(* sense_sample.                                                           *)

\* Board_ThermalPoll's look at the rail, which is where a sample begins.
Watching ==
    [sense EXCEPT !.up = IF rail.on /\ ~ sense.afeWas THEN 0 ELSE @,
                  !.afeWas = rail.on, !.ran = TRUE]

Due == sense.sampled >= Every

\* sense_read gives figures only with the rail up.
Idles ==
    /\ ~ sense.holding /\ ~ Due
    /\ sense' = Watching
    /\ seen' = [seen EXCEPT !.read = FALSE]
    /\ UNCHANGED rail

\* The rail up by another: read once it has settled, borrow nothing.
ReadsAnothers ==
    /\ ~ sense.holding /\ Due /\ rail.on
    /\ sense' = IF Watching.up >= Settle THEN [Watching EXCEPT !.sampled = 0] ELSE Watching
    /\ seen' = [seen EXCEPT !.read = Watching.up >= Settle]
    /\ UNCHANGED rail

\* Borrowed, or refused: a whole interval's back off.
Borrows ==
    /\ ~ sense.holding /\ Due /\ ~ rail.on
    /\ IF Takes(THERMAL)
       THEN /\ rail' = Acquired(THERMAL)
            /\ sense' = [Watching EXCEPT !.holding = TRUE, !.held = 0]
            /\ seen' = [seen EXCEPT !.leased = 0, !.read = FALSE]
       ELSE /\ sense' = [Watching EXCEPT !.sampled = 0]
            /\ seen' = [seen EXCEPT !.read = FALSE]
            /\ UNCHANGED rail

Settles ==
    /\ sense.holding /\ sense.held < Settle
    /\ sense' = Watching
    /\ seen' = [seen EXCEPT !.read = FALSE]
    /\ UNCHANGED rail

\* Mutant: the observer goes on believing it holds the rail.
GivesBackHolding ==
    /\ sense.holding /\ sense.held >= Settle
    /\ seen' = [seen EXCEPT !.read = rail.on]
    /\ rail' = Released(rail, THERMAL)
    /\ sense' = [Watching EXCEPT !.sampled = 0]

\* Read and given back, whether the lease still runs or not.
GivesBack ==
    /\ sense.holding /\ sense.held >= Settle
    /\ seen' = [seen EXCEPT !.read = rail.on]
    /\ rail' = Released(rail, THERMAL)
    /\ sense' = [Watching EXCEPT !.holding = FALSE, !.sampled = 0]

\* The envelope may drop the stage on the poll's slices.
Observe ==
    /\ pc = "observe" /\ ~ host.busy /\ ~ sense.ran
    /\ Idles \/ ReadsAnothers \/ Borrows \/ Settles \/ GivesBack
    /\ armed' \in {armed, FALSE}
    /\ pc' = "link"
    /\ UNCHANGED <<tick, host>>

\* Mid-frame, or before the observer's next step.
PassesOver ==
    /\ pc = "observe" /\ (host.busy \/ sense.ran)
    /\ pc' = "link"
    /\ UNCHANGED <<tick, rail, host, sense, armed, seen>>

-----------------------------------------------------------------------------
(* The link, as far as it is about the rail and the stage.                 *)

Hears(busy) ==
    /\ pc = "link" /\ pc' = "power"
    /\ host' = [host EXCEPT !.heard = TRUE, !.busy = busy]
    /\ seen' = [seen EXCEPT !.silent = 0]
    /\ UNCHANGED <<tick, sense>>

Quiet ==
    /\ pc = "link" /\ pc' = "power"
    /\ host' = [host EXCEPT !.busy = FALSE]
    /\ UNCHANGED <<tick, rail, sense, armed, seen>>

\* A frame of another node's, or a part of one: it counts as the host's.
Chatter == \E busy \in BOOLEAN : Hears(busy) /\ UNCHANGED <<rail, armed>>

\* h_afe, write_bit and testrig: through the reference count.
AfeOn == Hears(FALSE) /\ rail' = (IF Takes(HOST) THEN Acquired(HOST) ELSE rail) /\ UNCHANGED armed
AfeOff == Hears(FALSE) /\ rail' = Released(rail, HOST) /\ UNCHANGED armed

\* cmd_power op 1.
ReleaseAll == Hears(FALSE) /\ rail' = ReleasedAll /\ UNCHANGED armed

\* Board_PwmEnable and Board_PwmDisable, asked for by the host.
Arm == Hears(FALSE) /\ armed' = TRUE /\ UNCHANGED rail
Disarm == Hears(FALSE) /\ armed' = FALSE /\ UNCHANGED rail

\* A trip or a break.
StageFalls ==
    /\ armed /\ armed' = FALSE
    /\ UNCHANGED <<tick, rail, host, sense, pc, seen>>

\* A tick of the HAL's, while a pass is not too late.
Tick ==
    /\ tick.late < Late
    /\ tick' = [now |-> (tick.now + 1) % Span, late |-> tick.late + 1]
    /\ sense' = [sense EXCEPT !.held = Lesser(@ + 1, Settle),
                              !.sampled = Lesser(@ + 1, Every),
                              !.up = Lesser(@ + 1, Settle), !.ran = FALSE]
    /\ seen' = [seen EXCEPT !.silent = Lesser(@ + 1, Silence + 3 * Late),
                            !.leased = IF THERMAL \in rail.users
                                       THEN Lesser(@ + 1, Lease + 3 * Late) ELSE 0]
    /\ UNCHANGED <<rail, host, armed, pc>>

Loop == PowerPoll \/ Observe \/ PassesOver \/ Quiet

Next ==
    \/ Loop \/ Chatter \/ AfeOn \/ AfeOff \/ ReleaseAll \/ Arm \/ Disarm
    \/ StageFalls \/ Tick

Spec == Init /\ [][Next]_vars

\* The loop turns - through its link's step whether anything came or not - and
\* time passes.
FairSpec ==
    /\ Spec
    /\ WF_vars(PowerPoll) /\ WF_vars(Observe \/ PassesOver) /\ WF_vars(pc = "link" /\ pc' = "power" /\ Next)
    /\ WF_vars(Tick)

-----------------------------------------------------------------------------
(* Properties.                                                             *)

TypeOK ==
    /\ tick \in [now : 0..(Span - 1), late : 0..Late]
    /\ rail \in [users : SUBSET Users, expires : [Users -> 0..(Span - 1)], on : BOOLEAN]
    /\ host \in [heard : BOOLEAN, seenAt : 0..(Span - 1), told : BOOLEAN, busy : BOOLEAN]
    /\ sense \in [holding : BOOLEAN, held : 0..Settle, sampled : 0..Every,
                  up : 0..Settle, afeWas : BOOLEAN, ran : BOOLEAN]
    /\ armed \in BOOLEAN /\ pc \in {"power", "observe", "link"}
    /\ seen \in [silent : 0..(Silence + 3 * Late), leased : 0..(Lease + 3 * Late),
                 read : BOOLEAN]

\* A leased hold ends with its lease and the pass that is under way, however
\* its owner is starved and wherever the tick wraps.
LeasesEnd == seen.leased <= Lease + Late

\* A host that has fallen silent holds no rail and leaves no stage armed.
SilenceDrops == seen.silent > Silence + 2 * Late => HOST \notin rail.users /\ ~ armed

\* The rail never comes up under an armed stage: blocked() asks of new holds
\* only, and a hold that is renewed has the rail up.
NeverUpUnderArmed == [][armed /\ ~ rail.on /\ rail'.on => ~ armed']_vars

\* While the line is quiet and no stage is armed the observer reads, again and
\* again: a lease lost to a starved poll or a release of all holds costs it one
\* interval, never the rail.
SamplesCome == <>[](~ armed /\ ~ host.heard) => []<>seen.read

=============================================================================
