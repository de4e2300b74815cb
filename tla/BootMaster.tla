----------------------------- MODULE BootMaster -----------------------------
(***************************************************************************)
(* The boot master on one segment: host/coaxial/devices/boot.py's          *)
(* Master.run, or from_bootloader on the one node behind a port ("solo"),    *)
(* against nodes that serve boot_core.c's operations whole.  A broadcast   *)
(* is heard by any of the nodes, a request or its reply may be lost, and a *)
(* node may lose its power between any two messages.  What a node does     *)
(* inside an operation, and what a cut leaves behind, is module BootNode.  *)
(*                                                                         *)
(* The host has one image per type, which is named by the type; Old is     *)
(* another build.  Records are left empty, as a unit without one has them. *)
(***************************************************************************)
EXTENDS Naturals, FiniteSets, Sequences, SequencesExt, FiniteSetsExt

CONSTANTS
    Uids,      \* the nodes, each by its unique id: a sequence of bits
    Bits,      \* the bits of a unique id
    Types,     \* the board types the host has images of
    Board,     \* Board[n]: the type node n was built as
    Size,      \* Size[t]: the chunks of type t's image
    Tables,    \* the tables a host may have: uid -> [unit, type]
    Rounds,    \* MISSING_ROUNDS
    Sessions,  \* the sessions a run may name
    Persist,   \* whether the seals persist
    Hosts,     \* what runs: "segment" (Master.run), "solo" (from_bootloader)
    Lossy,     \* whether the wire loses anything
    MaxTrouble, \* bound: power losses and runs tried again
    None, Old

ASSUME MasterAssumption ==
    /\ Bits \in Nat /\ Uids \subseteq [1..Bits -> {0, 1}]
    /\ Board \in [Uids -> Types] /\ Size \in [Types -> Nat \ {0}]
    /\ \A table \in Tables :
          /\ DOMAIN table \subseteq Uids
          /\ \A n \in DOMAIN table : table[n].unit \in 1..246 /\ table[n].type \in Types
          /\ \A n, o \in DOMAIN table : table[n].unit = table[o].unit => n = o
    /\ Rounds \in Nat \ {0} /\ MaxTrouble \in Nat
    /\ Sessions \subseteq Nat \ {0}
    /\ {Persist, Lossy} \subseteq BOOLEAN /\ Hosts \subseteq {"segment", "solo"}
    /\ None # Old /\ {None, Old} \cap Types = {}

VARIABLES
    node,    \* the nodes' boot_core.c state and memory
    table,   \* the master's table
    host,    \* which of the two runs
    run,     \* the run's locals and where it is
    trouble, \* power losses and further runs so far
    clean    \* whether every node has heard all since the hold (history)

vars == <<node, table, host, run, trouble, clean>>

BLANK == 0
HELD == 1
ASSIGNED == 2
ERASED == 3
VERIFIED == 4
SEALED == 5

BlankUnit == 247

\* The unit from_bootloader gives its node back.
SoloUnit == 1
Indices(t) == 0..(Size[t] - 1)
Chunks == UNION {Indices(t) : t \in Types}

-----------------------------------------------------------------------------
(* A node, and what each operation makes of it.                            *)

Filled(i) == [k \in Chunks |-> i]

\* A node out of reset, its store holding `store`, its RAM what was copied
\* from there or nothing.
Fresh(store, ready) ==
    [mode |-> "boot", state |-> BLANK, session |-> 0, unit |-> BlankUnit,
     offer |-> None, landed |-> {}, ram |-> Filled(store), store |-> store,
     verified |-> FALSE, named |-> None, ready |-> ready,
     heard |-> {}]                         \* heard: history

Absent == [Fresh(None, FALSE) EXCEPT !.mode = "off"]

Holds(o, t) == \A k \in Indices(t) : o.ram[k] = t

\* Mutant: the session is the first master's.
HoldFirst(o, session) ==
    IF o.state = BLANK
    THEN [o EXCEPT !.state = HELD, !.session = session, !.heard = @ \cup {"hold"}]
    ELSE [o EXCEPT !.heard = @ \cup {"hold"}]

\* h_boot_hold.
Hold(o, session) ==
    [o EXCEPT !.state = IF @ = BLANK THEN HELD ELSE @, !.session = session,
              !.heard = @ \cup {"hold"}]

\* h_boot_assign, on the node the uid names.
Assign(o, unit) == [o EXCEPT !.unit = unit, !.state = ASSIGNED]

\* offered: what an erase leaves, the image held whole or awaited.
Offered(o, t, whole) ==
    [o EXCEPT !.offer = t, !.landed = IF whole THEN Indices(t) ELSE {},
              !.ram = IF whole THEN Filled(t) ELSE Filled(None),
              !.verified = whole, !.heard = @ \cup {"erase"},
              !.state = IF whole THEN VERIFIED ELSE ERASED]

\* h_boot_erase on node n.
Erase(n, t) ==
    LET o == node[n] IN
    IF Board[n] # t \/ o.state < ASSIGNED THEN o
    ELSE Offered(o, t, Holds(o, t) \/ o.store = t)

\* Mutant: the bitmap is not set.
ChunkUnmarked(o, t, k) ==
    IF o.state \in {ERASED, VERIFIED} /\ k \in Indices(o.offer) /\ k \notin o.landed
    THEN [o EXCEPT !.ram[k] = t]
    ELSE o

\* h_boot_chunk: chunk k, which came from type t's image.
Chunk(o, t, k) ==
    IF o.state \in {ERASED, VERIFIED} /\ k \in Indices(o.offer) /\ k \notin o.landed
    THEN [o EXCEPT !.ram[k] = t, !.landed = @ \cup {k}]
    ELSE o

\* h_boot_missing.
Missing(o) == IF o.offer = None THEN {} ELSE Indices(o.offer) \ o.landed

\* Mutant: a node that was offered nothing misses nothing and is whole.
VerifyHeld(o) == Missing(o) = {} /\ (o.offer = None \/ Holds(o, o.offer))

\* h_boot_verify's answer: the node summed what it was offered.
VerifyOk(o) == o.state >= ERASED /\ Missing(o) = {} /\ Holds(o, o.offer)

Verify(o) ==
    IF VerifyOk(o) THEN [o EXCEPT !.verified = TRUE, !.state = VERIFIED]
    ELSE [o EXCEPT !.verified = @ /\ (o.state < ERASED \/ Missing(o) # {})]

\* h_boot_seal, nothing of it failing.
Seal(o) ==
    IF o.verified
    THEN [o EXCEPT !.state = SEALED, !.named = o.offer,
                   !.store = IF Persist THEN o.offer ELSE @,
                   !.heard = @ \ {"erase", "round"}]
    ELSE o

\* h_boot_go and the jump it is followed by.
Go(n, session) ==
    LET o == [node[n] EXCEPT !.heard = @ \cup {"go"}] IN
    IF o.session = session /\ o.state = SEALED /\ Holds(o, Board[n])
    THEN [o EXCEPT !.mode = "app"]
    ELSE o

-----------------------------------------------------------------------------
(* The wire.                                                               *)

Serving == {n \in Uids : node[n].mode = "boot"}

\* A broadcast: `after` of the nodes that hear it; `whole` is whether all was
\* heard before.
Broadcast(after, whole) ==
    \E hear \in SUBSET Serving :
        /\ Lossy \/ hear = Serving
        /\ node' = [n \in Uids |-> IF n \in hear THEN after[n] ELSE node[n]]
        /\ clean' = (whole /\ hear = Serving)

\* The nodes that answer to a unit.
AtUnit(u) == {n \in Serving : node[n].unit = u}

\* The exchange with one node, answered.
Answered(n, after) == node' = [node EXCEPT ![n] = after] /\ UNCHANGED clean

\* An exchange nothing came back from: nobody at the unit, the request lost,
\* or the reply, the node having done it.
Silent(nodes, after) ==
    /\ Lossy \/ nodes = {}
    /\ \/ UNCHANGED node
       \/ \E n \in nodes : node' = [node EXCEPT ![n] = after[n]]
    /\ clean' = FALSE

-----------------------------------------------------------------------------
(* The master.                                                             *)

NoRun ==
    [pc |-> "hold", session |-> 0, todo |-> <<>>, found |-> {},
     rows |-> <<>>, types |-> {}, units |-> {}, at |-> 0, round |-> 0, left |-> {}]

\* The nodes on the host's port: the segment's, or the one behind it.
OnPort(h) == IF h = "solo" THEN {{n} : n \in Uids} ELSE {Uids}

Init ==
    /\ host \in Hosts
    /\ \E store \in [Uids -> {None, Old}], on \in OnPort(host) :
          node = [n \in Uids |->
                    IF n \in on THEN Fresh(store[n], store[n] # None) ELSE Absent]
    /\ table \in Tables
    /\ run = NoRun
    /\ trouble = 0 /\ clean = FALSE

Raise == run' = [run EXCEPT !.pc = "raised"]

\* run: blank.hold(self.session).
SendHold ==
    /\ run.pc = "hold"
    /\ \E session \in Sessions :
          /\ Broadcast([n \in Uids |-> Hold(node[n], session)], TRUE)
          /\ run' = [run EXCEPT !.pc = "search", !.session = session, !.todo = <<<<>>>>]
    /\ UNCHANGED <<table, host, trouble>>

\* enumerate_blank: the search is over and the found are gone through.
Found(found) ==
    run' = [run EXCEPT !.pc = "assign", !.found = found, !.todo = <<>>]

\* Mutant: the last bit is not searched.
SplitShort(p) ==
    IF Len(p) + 1 < Bits THEN Front(run.todo) \o <<Append(p, 0), Append(p, 1)>> ELSE Front(run.todo)

\* A collision splits the prefix one bit deeper.
SplitAt(p) ==
    IF Len(p) < Bits THEN Front(run.todo) \o <<Append(p, 0), Append(p, 1)>> ELSE Front(run.todo)

\* blank.who(prefix): one answer names a node, two and a corrupted one are a
\* CRC or a frame error, none is None.
Who ==
    /\ run.pc = "search" /\ run.todo # <<>>
    /\ UNCHANGED <<node, table, host, trouble>>
    /\ LET p == Last(run.todo)
           fits == {n \in AtUnit(BlankUnit) : SubSeq(n, 1, Len(p)) = p} IN
       \E hear \in SUBSET fits :
          /\ Lossy \/ hear = fits
          /\ \/ \E n \in hear :
                   /\ hear = {n}
                   /\ IF host = "solo" THEN Found({n})
                      ELSE run' = [run EXCEPT !.found = @ \cup {n}, !.todo = Front(@)]
                   /\ clean' = (clean /\ hear = fits)
             \/ /\ Cardinality(hear) > 1 \/ (Lossy /\ hear # {})
                /\ IF host = "solo" THEN Raise ELSE run' = [run EXCEPT !.todo = SplitAt(p)]
                /\ clean' = (clean /\ hear = fits /\ Cardinality(hear) > 1)
             \/ /\ hear = {} \/ Lossy
                /\ IF host = "solo" THEN Raise ELSE run' = [run EXCEPT !.todo = Front(@)]
                /\ clean' = (clean /\ fits = {})

SearchEnds ==
    /\ run.pc = "search" /\ run.todo = <<>>
    /\ Found(run.found)
    /\ UNCHANGED <<node, table, host, trouble, clean>>

\* What a found node is assigned: its row of the table, or the caller's unit
\* and the type the node named.
Row(n) == IF host = "solo" THEN [unit |-> SoloUnit, type |-> Board[n]] ELSE table[n]
Known == IF host = "solo" THEN Uids ELSE DOMAIN table

\* A uid the table does not name is noted and passed over.
Unknown ==
    /\ run.pc = "assign"
    /\ \E n \in run.found \ Known : run' = [run EXCEPT !.found = @ \ {n}]
    /\ UNCHANGED <<node, table, host, trouble, clean>>

\* blank.assign(uid, unit): the uid's node takes it, wherever 247 is heard.
SendAssign ==
    /\ run.pc = "assign"
    /\ UNCHANGED <<table, host, trouble>>
    /\ \E n \in run.found \cap Known :
          LET u == Row(n).unit
              there == AtUnit(BlankUnit) \cap {n} IN
          \/ /\ n \in there
             /\ Answered(n, Assign(node[n], u))
             /\ run' = [run EXCEPT !.found = @ \ {n},
                                   !.rows = [v \in DOMAIN @ \cup {u} |->
                                                IF v = u THEN Row(n).type ELSE @[v]]]
          \/ Silent(there, [o \in Uids |-> Assign(node[o], u)]) /\ Raise

AssignEnds ==
    /\ run.pc = "assign" /\ run.found = {}
    /\ run' = [run EXCEPT !.pc = "erase", !.types = {run.rows[u] : u \in DOMAIN run.rows}]
    /\ UNCHANGED <<node, table, host, trouble, clean>>

\* blank.erase(type_, image).
SendErase ==
    /\ run.pc = "erase"
    /\ \E t \in run.types :
          /\ Broadcast([n \in Uids |-> Erase(n, t)], clean)
          /\ run' = [run EXCEPT !.pc = "stream", !.types = @ \ {t}, !.left = {t}, !.at = 0]
    /\ UNCHANGED <<table, host, trouble>>

\* blank.chunk(index, piece), the next of the type's image.
SendChunk ==
    /\ run.pc = "stream"
    /\ \E t \in run.left :
          /\ Broadcast([n \in Uids |-> Chunk(node[n], t, run.at)], clean)
          /\ run' = IF run.at + 1 < Size[t] THEN [run EXCEPT !.at = @ + 1]
                    ELSE [run EXCEPT !.pc = "erase", !.left = {}, !.at = 0]
    /\ UNCHANGED <<table, host, trouble>>

\* Mutant: the rounds of one unit count for the next.
ToUnitsCounting(units) ==
    run' = [run EXCEPT !.pc = IF units = {} THEN "go" ELSE "missing",
                       !.units = units, !.left = {}]

\* The next unit of those assigned, or the go.
ToUnits(units) ==
    run' = [run EXCEPT !.pc = IF units = {} THEN "go" ELSE "missing",
                       !.units = units, !.round = 0, !.left = {}]

StreamEnds ==
    /\ run.pc = "erase" /\ run.types = {}
    /\ ToUnits(DOMAIN run.rows)
    /\ UNCHANGED <<node, table, host, trouble, clean>>

Unit == Min(run.units)
Image == run.rows[Unit]

\* The node's answer opens a round: nothing of it is lost yet (history).
RoundOf(o) == [o EXCEPT !.heard = @ \cup {"round"}]

\* Mutant: the rounds are not counted.
NoRound(left) == [run EXCEPT !.pc = IF left = {} THEN "verify" ELSE "resend", !.left = left]

\* A round of missing: none left ends them.
Round(left) ==
    [run EXCEPT !.pc = IF left = {} THEN "verify" ELSE "resend", !.left = left,
                !.round = @ + 1]

AskMissing ==
    /\ run.pc = "missing"
    /\ UNCHANGED <<table, host, trouble>>
    /\ LET there == AtUnit(Unit) IN
       \/ \E n \in there :
             Answered(n, RoundOf(node[n])) /\ run' = Round(Missing(node[n]))
       \/ Silent(there, node) /\ Raise

\* node.chunk(index, ...) for one of them: a broadcast, as every chunk is.
Resend ==
    /\ run.pc = "resend"
    /\ LET k == Min(run.left)
           after == [n \in Uids |-> Chunk(node[n], Image, k)] IN
       \E hear \in SUBSET Serving :
          /\ Lossy \/ hear = Serving
          /\ node' = [n \in Uids |->
                        IF n \in hear THEN after[n]
                        ELSE [node[n] EXCEPT !.heard = @ \ {"round"}]]
          /\ clean' = (clean /\ hear = Serving)
          /\ run' = [run EXCEPT !.left = @ \ {k},
                                !.pc = IF run.left # {k} THEN "resend"
                                       ELSE IF run.round < Rounds THEN "missing" ELSE "verify"]
    /\ UNCHANGED <<table, host, trouble>>

\* node.verify(): not ok raises.
AskVerify ==
    /\ run.pc = "verify"
    /\ UNCHANGED <<table, host, trouble>>
    /\ LET there == AtUnit(Unit) IN
       \/ \E n \in there :
             /\ Answered(n, Verify(node[n]))
             /\ IF VerifyOk(node[n]) THEN run' = [run EXCEPT !.pc = "seal"]
                ELSE Raise
       \/ Silent(there, [n \in Uids |-> Verify(node[n])]) /\ Raise

\* node.seal(persist): refused raises.
AskSeal ==
    /\ run.pc = "seal"
    /\ UNCHANGED <<table, host, trouble>>
    /\ LET there == AtUnit(Unit) IN
       \/ \E n \in there :
             /\ Answered(n, Seal(node[n]))
             /\ IF node[n].verified THEN ToUnits(run.units \ {Unit}) ELSE Raise
       \/ Silent(there, [n \in Uids |-> Seal(node[n])]) /\ Raise

\* blank.go(session).
SendGo ==
    /\ run.pc = "go"
    /\ Broadcast([n \in Uids |-> Go(n, run.session)], clean)
    /\ run' = [run EXCEPT !.pc = IF host = "solo" THEN "wait" ELSE "done"]
    /\ UNCHANGED <<table, host, trouble>>

\* What answers at the assigned unit names the image.
Names(n) == node[n].unit \in DOMAIN run.rows /\ node[n].named = run.rows[node[n].unit]

\* from_bootloader's wait: an answer that names the image ends it, or GO_S.
Wait ==
    /\ run.pc = "wait"
    /\ \/ (\E n \in Uids : Names(n)) /\ run' = [run EXCEPT !.pc = "done"]
       \/ (Lossy \/ \A n \in Uids : ~ Names(n)) /\ Raise
    /\ UNCHANGED <<node, table, host, trouble, clean>>

\* The host tries again.
Again ==
    /\ run.pc \in {"done", "raised"}
    /\ trouble < MaxTrouble /\ trouble' = trouble + 1
    /\ run' = NoRun
    /\ node' = [n \in Uids |-> [node[n] EXCEPT !.heard = {}]]
    /\ clean' = FALSE
    /\ UNCHANGED <<table, host>>

-----------------------------------------------------------------------------
(* The nodes on their own.                                                 *)

\* main's window: ready, asked nothing and never held, the node starts what
\* the gate brought it.
Window(n) ==
    /\ node[n].mode = "boot" /\ node[n].ready /\ node[n].state = BLANK
    /\ node' = [node EXCEPT ![n].mode = "app", ![n].named = node[n].store]
    /\ clean' = FALSE
    /\ UNCHANGED <<table, host, run, trouble>>

\* Power lost and back, or an application sent stay: the boot core as it
\* starts, RAM what the store had.
Reset(n) ==
    /\ node[n].mode # "off" /\ trouble < MaxTrouble
    /\ trouble' = trouble + 1
    /\ \E ready \in BOOLEAN :
          node' = [node EXCEPT ![n] = Fresh(@.store, ready /\ @.store # None)]
    /\ clean' = FALSE
    /\ UNCHANGED <<table, host, run>>

Master ==
    \/ SendHold \/ Who \/ SearchEnds \/ Unknown \/ SendAssign \/ AssignEnds
    \/ SendErase \/ SendChunk \/ StreamEnds \/ AskMissing \/ Resend
    \/ AskVerify \/ AskSeal \/ SendGo \/ Wait

Next ==
    \/ Master \/ Again
    \/ \E n \in Uids : Window(n) \/ Reset(n)

Spec == Init /\ [][Next]_vars
FairSpec == Spec /\ WF_vars(Master)

-----------------------------------------------------------------------------
(* Properties.                                                             *)

NodeState ==
    [mode : {"off", "boot", "app"}, state : BLANK..SEALED,
     session : Sessions \cup {0}, unit : 1..BlankUnit,
     offer : Types \cup {None}, landed : SUBSET Chunks,
     ram : [Chunks -> Types \cup {None, Old}],
     store : Types \cup {None, Old}, verified : BOOLEAN,
     named : Types \cup {None, Old}, ready : BOOLEAN,
     heard : SUBSET {"hold", "erase", "round", "go"}]

\* The units a run may assign, and what those it has assigned were given.
Given == {SoloUnit} \cup UNION {{t[n].unit : n \in DOMAIN t} : t \in Tables}
Rows == UNION {[units -> Types] : units \in SUBSET Given}

RunState ==
    [pc : {"hold", "search", "assign", "erase", "stream", "missing", "resend",
           "verify", "seal", "go", "wait", "done", "raised"},
     session : Sessions \cup {0}, todo : Seq(Seq({0, 1})), found : SUBSET Uids,
     rows : Rows, types : SUBSET Types, units : SUBSET Given, at : Nat,
     round : 0..Rounds, left : SUBSET (Types \cup Chunks)]

TypeOK ==
    /\ node \in [Uids -> NodeState]
    /\ table \in Tables /\ host \in Hosts
    /\ run \in RunState
    /\ trouble \in 0..MaxTrouble /\ clean \in BOOLEAN

\* The units whose node the run has sealed.
Through == IF run.pc \in {"missing", "resend", "verify", "seal"}
           THEN DOMAIN run.rows \ run.units
           ELSE IF run.pc \in {"go", "wait", "done"} THEN DOMAIN run.rows ELSE {}

\* A node the run has gone past is sealed over the whole of its own board's
\* image, whatever was lost on the way, whichever other types were streamed
\* and whatever the table had wrong (Master.run goes on to the next unit only
\* past seal, boot_core.c's verify and seal guard it).
SealedWhole ==
    \A n \in Uids : node[n].unit \in Through =>
        node[n].state = SEALED /\ Holds(node[n], Board[n])

\* Where every node heard all and answered, the prefix search finds every
\* node at unit 247, whichever way their ids collide (enumerate_blank).
SearchFindsAll ==
    run.pc = "search" /\ run.todo = <<>> /\ clean => run.found = AtUnit(BlankUnit)

\* A run that returns leaves no node it assigned in the bootloader that heard
\* both its hold and its go: one that lost the hold keeps another session and
\* ignores the go (h_boot_go).
GoneUnlessDeaf ==
    run.pc = "done" =>
        \A n \in Uids : node[n].unit \in DOMAIN run.rows /\ {"hold", "go"} \subseteq node[n].heard
                       => node[n].mode = "app"

\* A node that heard the erase of its image and every chunk of its last round
\* of missing sums the image right when it is asked to (Master.run's rounds,
\* docs/BOOT.md's "missing per node; re-send").
RoundsRepair ==
    run.pc = "verify" =>
        \A n \in AtUnit(Unit) : {"erase", "round"} \subseteq node[n].heard => VerifyOk(node[n])

\* The same where the table names one type, so that every chunk is of the
\* image every node was offered.
OneTypeRepairs == Cardinality({run.rows[u] : u \in DOMAIN run.rows}) = 1 => RoundsRepair

\* Every run comes to an end, done or raised, however much is lost: the search
\* is of bounded depth and the rounds are counted.
RunEnds == run.pc = "hold" ~> run.pc \in {"done", "raised"}

=============================================================================
