-------------------------- MODULE BootMaster_proof --------------------------
(***************************************************************************)
(* The boot master against any nodes, boards, images, tables and losses:   *)
(* no unit is gone past before its node is sealed over the whole of its    *)
(* own board's image, a run that returns has started every node that heard *)
(* it, the prefix search finds every node, and the rounds of missing       *)
(* repair what was lost.                                                   *)
(***************************************************************************)
EXTENDS BootMaster, WellFoundedInduction, SequenceTheorems, FiniteSetTheorems, TLAPS

-----------------------------------------------------------------------------
(* The constants.                                                          *)

LEMMA States ==
    /\ BLANK \in BLANK..SEALED /\ HELD \in BLANK..SEALED /\ ASSIGNED \in BLANK..SEALED
    /\ ERASED \in BLANK..SEALED /\ VERIFIED \in BLANK..SEALED /\ SEALED \in BLANK..SEALED
    /\ SEALED \notin {BLANK, HELD, ASSIGNED, ERASED, VERIFIED}
    /\ BlankUnit \in 1..BlankUnit /\ SoloUnit \in 1..246
    /\ \A u \in 1..246 : u \in 1..BlankUnit /\ u # BlankUnit
BY DEF BLANK, HELD, ASSIGNED, ERASED, VERIFIED, SEALED, BlankUnit, SoloUnit

LEMMA GivenAre == Given \subseteq 1..246 /\ SoloUnit \in Given /\ BlankUnit \notin Given
<1>1. \A t \in Tables : \A n \in DOMAIN t : t[n].unit \in 1..246
  BY MasterAssumption
<1> QED
  BY <1>1, States DEF Given

LEMMA IndicesAre ==
    ASSUME NEW t \in Types
    PROVE  Indices(t) \subseteq Chunks /\ t # None
BY MasterAssumption DEF Chunks

LEMMA BoundIs == MaxTrouble \in Nat
BY MasterAssumption

\* The least of some units is one of them.
LEMMA LeastIs ==
    ASSUME NEW S \in SUBSET Nat, S # {}
    PROVE  Min(S) \in S
<1> DEFINE R == OpToRel(<, Nat)
<1>1. IsWellFoundedOn(R, Nat)
  BY NatLessThanWellFounded
<1>2. \A x, y \in Nat : <<x, y>> \in R <=> x < y
  BY DEF OpToRel
<1> HIDE DEF R
<1>3. PICK x \in S : \A y \in S : ~(<<y, x>> \in R)
  BY <1>1, WFMin
<1>4. \A y \in S : ~(y < x)
  <2>1. x \in Nat /\ \A y \in S : y \in Nat
    OBVIOUS
  <2> QED
    BY <1>2, <1>3, <2>1, Zenon
<1>5. \A y \in S : x <= y
  BY <1>4
<1> QED
  BY <1>5 DEF Min

LEMMA RowsAre ==
    ASSUME NEW rows
    PROVE  rows \in Rows <=> DOMAIN rows \in SUBSET Given /\ rows \in [DOMAIN rows -> Types]
BY DEF Rows

\* A run starts with no row.
LEMMA NoRowsAre == <<>> \in Rows
<1>1. <<>> \in [{} -> Types] /\ {} \in SUBSET Given
  OBVIOUS
<1> QED
  BY <1>1 DEF Rows

-----------------------------------------------------------------------------
(* What an operation makes of a node.                                      *)

\* An offer is of the node's own board, it comes before any of its chunks, and
\* a node that is verified holds all of it, every chunk ticked off.
Sound(n, o) ==
    /\ o.offer # None => o.offer = Board[n]
    /\ o.state >= ERASED => o.offer # None
    /\ o.verified => /\ o.offer # None /\ Indices(o.offer) \subseteq o.landed
                     /\ Holds(o, o.offer)

\* Where a node is, and whom it listens to.
Stays(o, q) == q.unit = o.unit /\ q.mode = o.mode
HeardNoMore(o, q) == {"hold", "go"} \cap q.heard \subseteq o.heard

LEMMA FilledIs ==
    ASSUME NEW t \in Types \cup {None, Old}
    PROVE  Filled(t) \in [Chunks -> Types \cup {None, Old}]
BY DEF Filled

LEMMA FreshIs ==
    ASSUME NEW n \in Uids, NEW store \in Types \cup {None, Old}, NEW ready \in BOOLEAN
    PROVE  LET o == Fresh(store, ready)
           IN /\ o \in NodeState /\ Sound(n, o) /\ o.unit = BlankUnit
              /\ o.mode = "boot" /\ o.heard = {}
BY FilledIs, States DEF Fresh, NodeState, Sound, BLANK, ERASED

LEMMA HoldIs ==
    ASSUME NEW n \in Uids, NEW o \in NodeState, NEW session \in Sessions
    PROVE  LET q == Hold(o, session)
           IN /\ q \in NodeState /\ Stays(o, q) /\ (Sound(n, o) => Sound(n, q))
              /\ q.session = session /\ q.heard = o.heard \cup {"hold"}
<1> DEFINE state == IF o.state = BLANK THEN HELD ELSE o.state
           heard == o.heard \cup {"hold"}
           q == [o EXCEPT !.state = state, !.session = session, !.heard = heard]
<1>1. Hold(o, session) = q
  BY DEF Hold, NodeState
<1>2. /\ state \in BLANK..SEALED /\ heard \in SUBSET {"hold", "erase", "round", "go"}
      /\ state >= ERASED => o.state >= ERASED
  BY States DEF NodeState, HELD, ERASED
<1> HIDE DEF state, heard
<1>3. /\ q \in NodeState /\ q.unit = o.unit /\ q.mode = o.mode /\ q.session = session
      /\ q.heard = heard /\ q.offer = o.offer /\ q.verified = o.verified
      /\ q.landed = o.landed /\ q.ram = o.ram /\ q.state = state
  BY <1>2 DEF NodeState
<1> QED
  BY <1>1, <1>2, <1>3 DEF Stays, Sound, Holds, heard

LEMMA AssignIs ==
    ASSUME NEW n \in Uids, NEW o \in NodeState, NEW u \in Given
    PROVE  LET q == Assign(o, u)
           IN /\ q \in NodeState /\ q.unit = u /\ q.mode = o.mode
              /\ q.session = o.session /\ q.heard = o.heard
              /\ Sound(n, o) => Sound(n, q)
<1>1. u \in 1..BlankUnit
  BY States, GivenAre
<1>2. LET q == Assign(o, u)
      IN /\ q \in NodeState /\ q.unit = u /\ q.mode = o.mode
         /\ q.session = o.session /\ q.heard = o.heard
         /\ q.offer = o.offer /\ q.verified = o.verified
         /\ q.landed = o.landed /\ q.ram = o.ram /\ q.state = ASSIGNED
  BY <1>1, States DEF Assign, NodeState
<1> QED
  BY <1>2 DEF Sound, Holds, ASSIGNED, ERASED

LEMMA EraseIs ==
    ASSUME NEW n \in Uids, node[n] \in NodeState, NEW t \in Types
    PROVE  LET o == node[n]
               q == Erase(n, t)
           IN /\ q \in NodeState /\ Stays(o, q) /\ (Sound(n, o) => Sound(n, q))
              /\ q.session = o.session /\ HeardNoMore(o, q)
<1> DEFINE o == node[n]
           whole == Holds(o, t) \/ o.store = t
           landed == IF whole THEN Indices(t) ELSE {}
           ram == IF whole THEN Filled(t) ELSE Filled(None)
           heard == o.heard \cup {"erase"}
           state == IF whole THEN VERIFIED ELSE ERASED
           q == [o EXCEPT !.offer = t, !.landed = landed, !.ram = ram,
                          !.verified = whole, !.heard = heard, !.state = state]
<1>1. CASE Board[n] # t \/ o.state < ASSIGNED
  BY <1>1 DEF Erase, Stays, HeardNoMore
<1>2. CASE ~(Board[n] # t \/ o.state < ASSIGNED)
  <2>1. Erase(n, t) = q /\ Board[n] = t
    BY <1>2 DEF Erase, Offered, NodeState
  <2>2. /\ whole \in BOOLEAN /\ landed \in SUBSET Chunks
        /\ ram \in [Chunks -> Types \cup {None, Old}]
        /\ heard \in SUBSET {"hold", "erase", "round", "go"} /\ state \in BLANK..SEALED
    BY IndicesAre, FilledIs, States DEF NodeState, Holds
  <2>3. whole => landed = Indices(t) /\ \A k \in Indices(t) : ram[k] = t
    BY IndicesAre DEF Filled
  <2>4. {"hold", "go"} \cap heard \subseteq o.heard
    OBVIOUS
  <2> HIDE DEF whole, landed, ram, heard, state
  <2>5. /\ q \in NodeState /\ q.unit = o.unit /\ q.mode = o.mode /\ q.session = o.session
        /\ q.offer = t /\ q.landed = landed /\ q.ram = ram /\ q.verified = whole
        /\ q.heard = heard
    BY <2>2 DEF NodeState
  <2>6. Sound(n, q)
    BY <2>1, <2>3, <2>5, IndicesAre DEF Sound, Holds
  <2> QED
    BY <2>1, <2>4, <2>5, <2>6 DEF Stays, HeardNoMore
<1> QED
  BY <1>1, <1>2

LEMMA ChunkIs ==
    ASSUME NEW n \in Uids, NEW o \in NodeState, NEW t \in Types, NEW k, Sound(n, o)
    PROVE  LET q == Chunk(o, t, k)
           IN /\ q \in NodeState /\ Stays(o, q) /\ Sound(n, q)
              /\ q.session = o.session /\ q.heard = o.heard
              /\ o.state = SEALED => q = o
<1> DEFINE landed == o.landed \cup {k}
           ram == [o.ram EXCEPT ![k] = t]
           q == [o EXCEPT !.ram = ram, !.landed = landed]
<1>1. CASE ~(o.state \in {ERASED, VERIFIED} /\ k \in Indices(o.offer) /\ k \notin o.landed)
  BY <1>1 DEF Chunk, Stays
<1>2. CASE o.state \in {ERASED, VERIFIED} /\ k \in Indices(o.offer) /\ k \notin o.landed
  <2>1. Chunk(o, t, k) = q
    BY <1>2 DEF Chunk, NodeState
  <2>2. o.offer \in Types /\ o.state # SEALED /\ ~o.verified /\ o.offer # None
    <3>1. o.state >= ERASED
      BY <1>2 DEF ERASED, VERIFIED
    <3> QED
      BY <1>2, <3>1, States DEF Sound, NodeState
  <2>3. landed \in SUBSET Chunks /\ ram \in [Chunks -> Types \cup {None, Old}]
    BY <1>2, <2>2, IndicesAre DEF NodeState
  <2> HIDE DEF landed, ram
  <2>4. /\ q \in NodeState /\ q.unit = o.unit /\ q.mode = o.mode /\ q.session = o.session
        /\ q.heard = o.heard /\ q.offer = o.offer /\ q.verified = o.verified
        /\ q.state = o.state
    BY <2>3 DEF NodeState
  <2> QED
    BY <2>1, <2>2, <2>4 DEF Stays, Sound
<1> QED
  BY <1>1, <1>2

LEMMA VerifyIs ==
    ASSUME NEW n \in Uids, NEW o \in NodeState
    PROVE  LET q == Verify(o)
           IN /\ q \in NodeState /\ Stays(o, q) /\ (Sound(n, o) => Sound(n, q))
              /\ q.session = o.session /\ q.heard = o.heard
<1> DEFINE v == o.verified /\ (o.state < ERASED \/ Missing(o) # {})
<1>1. CASE VerifyOk(o)
  <2> DEFINE q == [o EXCEPT !.verified = TRUE, !.state = VERIFIED]
  <2>1. Verify(o) = q
    BY <1>1 DEF Verify
  <2>2. /\ q \in NodeState /\ q.unit = o.unit /\ q.mode = o.mode /\ q.session = o.session
        /\ q.heard = o.heard /\ q.offer = o.offer /\ q.landed = o.landed /\ q.ram = o.ram
    BY States DEF NodeState
  <2>3. Sound(n, o) => o.offer # None /\ Indices(o.offer) \subseteq o.landed /\ Holds(o, o.offer)
    BY <1>1 DEF VerifyOk, Sound, Missing
  <2> QED
    BY <2>1, <2>2, <2>3 DEF Stays, Sound, Holds
<1>2. CASE ~VerifyOk(o)
  <2> DEFINE q == [o EXCEPT !.verified = v]
  <2>1. Verify(o) = q /\ v \in BOOLEAN /\ (v => o.verified)
    BY <1>2 DEF Verify, NodeState
  <2> HIDE DEF v
  <2>2. /\ q \in NodeState /\ q.unit = o.unit /\ q.mode = o.mode /\ q.session = o.session
        /\ q.heard = o.heard /\ q.offer = o.offer /\ q.landed = o.landed /\ q.ram = o.ram
        /\ q.state = o.state /\ q.verified = v
    BY <2>1 DEF NodeState
  <2> QED
    BY <2>1, <2>2 DEF Stays, Sound, Holds
<1> QED
  BY <1>1, <1>2

LEMMA SealIs ==
    ASSUME NEW n \in Uids, NEW o \in NodeState, Sound(n, o)
    PROVE  LET q == Seal(o)
           IN /\ q \in NodeState /\ Stays(o, q) /\ Sound(n, q)
              /\ q.session = o.session /\ HeardNoMore(o, q)
              /\ o.verified => q.state = SEALED /\ Holds(q, Board[n])
<1>1. CASE ~o.verified
  BY <1>1 DEF Seal, Stays, HeardNoMore
<1>2. CASE o.verified
  <2> DEFINE store == IF Persist THEN o.offer ELSE o.store
             heard == o.heard \ {"erase", "round"}
             q == [o EXCEPT !.state = SEALED, !.named = o.offer, !.store = store,
                            !.heard = heard]
  <2>1. Seal(o) = q
    BY <1>2 DEF Seal, NodeState
  <2>2. /\ o.offer = Board[n] /\ o.offer \in Types /\ o.offer # None
        /\ Indices(o.offer) \subseteq o.landed /\ Holds(o, o.offer)
    BY <1>2 DEF Sound, NodeState
  <2>3. store \in Types \cup {None, Old} /\ heard \in SUBSET {"hold", "erase", "round", "go"}
        /\ {"hold", "go"} \cap heard \subseteq o.heard
    BY <2>2 DEF NodeState
  <2> HIDE DEF store, heard
  <2>4. /\ q \in NodeState /\ q.unit = o.unit /\ q.mode = o.mode /\ q.session = o.session
        /\ q.heard = heard /\ q.offer = o.offer /\ q.landed = o.landed /\ q.ram = o.ram
        /\ q.state = SEALED /\ q.verified = o.verified
    BY <2>2, <2>3, States DEF NodeState
  <2> QED
    BY <2>1, <2>2, <2>3, <2>4 DEF Stays, HeardNoMore, Sound, Holds
<1> QED
  BY <1>1, <1>2

LEMMA GoIs ==
    ASSUME NEW n \in Uids, node[n] \in NodeState, NEW session, node[n].mode = "boot"
    PROVE  LET o == node[n]
               q == Go(n, session)
           IN /\ q \in NodeState /\ q.unit = o.unit /\ q.mode # "off"
              /\ Sound(n, o) => Sound(n, q)
              /\ q.session = o.session /\ q.state = o.state /\ q.ram = o.ram
              /\ q.heard = o.heard \cup {"go"}
              /\ o.session = session /\ o.state = SEALED /\ Holds(o, Board[n])
                   => q.mode = "app"
<1> DEFINE o == node[n]
           heard == o.heard \cup {"go"}
           p == [o EXCEPT !.heard = heard]
           r == [p EXCEPT !.mode = "app"]
<1>1. heard \in SUBSET {"hold", "erase", "round", "go"}
  BY DEF NodeState
<1>2. Go(n, session) = IF p.session = session /\ p.state = SEALED /\ Holds(p, Board[n])
                       THEN r ELSE p
  BY DEF Go, NodeState
<1> HIDE DEF heard
<1>3. /\ p \in NodeState /\ p.unit = o.unit /\ p.mode = o.mode /\ p.session = o.session
      /\ p.heard = heard /\ p.offer = o.offer /\ p.landed = o.landed /\ p.ram = o.ram
      /\ p.state = o.state /\ p.verified = o.verified
  BY <1>1 DEF NodeState
<1> HIDE DEF p
<1>4. /\ r \in NodeState /\ r.unit = p.unit /\ r.mode = "app" /\ r.session = p.session
      /\ r.heard = p.heard /\ r.offer = p.offer /\ r.landed = p.landed /\ r.ram = p.ram
      /\ r.state = p.state /\ r.verified = p.verified
  BY <1>3 DEF NodeState
<1>5. Sound(n, o) => Sound(n, p) /\ Sound(n, r)
  BY <1>3, <1>4 DEF Sound, Holds
<1> HIDE DEF r
<1>6. Holds(o, Board[n]) => Holds(p, Board[n])
  BY <1>3 DEF Holds
<1> QED
  BY <1>2, <1>3, <1>4, <1>5, <1>6 DEF heard

LEMMA HearsIs ==
    ASSUME NEW n \in Uids, NEW o \in NodeState, NEW heard,
           heard \in SUBSET {"hold", "erase", "round", "go"}
    PROVE  LET q == [o EXCEPT !.heard = heard]
           IN /\ q \in NodeState /\ Stays(o, q) /\ (Sound(n, o) => Sound(n, q))
              /\ q.session = o.session /\ q.heard = heard
              /\ q.state = o.state /\ q.ram = o.ram
<1>1. LET q == [o EXCEPT !.heard = heard]
      IN /\ q \in NodeState /\ q.unit = o.unit /\ q.mode = o.mode /\ q.session = o.session
         /\ q.heard = heard /\ q.offer = o.offer /\ q.landed = o.landed /\ q.ram = o.ram
         /\ q.state = o.state /\ q.verified = o.verified
  BY DEF NodeState
<1> QED
  BY <1>1 DEF Stays, Sound, Holds

-----------------------------------------------------------------------------
(* The inductive invariant.                                                *)

\* A unit other than the blank one is its row's.
Placed ==
    \A n \in Uids : node[n].unit # BlankUnit =>
        n \in Known /\ node[n].unit = Row(n).unit /\ node[n].mode # "off"

\* One node behind the port of a solo run.
Alone ==
    host = "solo" =>
        \A n, m \in Uids : node[n].mode # "off" /\ node[m].mode # "off" => n = m

Sounds == \A n \in Uids : Sound(n, node[n])

InTurn == {"missing", "resend", "verify", "seal"}

\* Where the run is, and what it has in hand there.
RunFits ==
    /\ run.units \subseteq DOMAIN run.rows
    /\ run.pc \in InTurn => run.units # {}
    /\ run.pc = "stream" => run.left \subseteq Types
    /\ run.pc = "missing" => run.round < Rounds

\* Who heard the hold has the run's session, and none has heard the go before
\* it was sent.
Listens ==
    /\ run.pc = "hold" => \A n \in Uids : node[n].heard = {}
    /\ run.pc # "hold" =>
          \A n \in Uids : "hold" \in node[n].heard => node[n].session = run.session
    /\ run.pc \notin {"wait", "done", "raised"} => \A n \in Uids : "go" \notin node[n].heard

\* Past the go, who heard it and the hold has gone.
Gone ==
    run.pc \in {"wait", "done"} =>
        \A n \in Uids : node[n].unit \in DOMAIN run.rows /\ {"hold", "go"} \subseteq node[n].heard
                       => node[n].mode = "app"

MasterInv ==
    TypeOK /\ Placed /\ Alone /\ Sounds /\ RunFits /\ SealedWhole /\ Listens /\ Gone

LEMMA RowIs ==
    ASSUME host \in Hosts, table \in Tables, NEW n \in Known
    PROVE  n \in Uids /\ Row(n).unit \in Given /\ Row(n).type \in Types
<1>1. CASE host = "solo"
  BY <1>1, GivenAre, MasterAssumption DEF Row, Known
<1>2. CASE host # "solo"
  <2>1. n \in DOMAIN table /\ Row(n) = table[n]
    BY <1>2 DEF Row, Known
  <2>2. n \in Uids /\ table[n].type \in Types
    BY <2>1, MasterAssumption
  <2>3. table[n].unit \in Given
    BY <2>1 DEF Given
  <2> QED
    BY <2>1, <2>2, <2>3
<1> QED
  BY <1>1, <1>2

\* No two nodes answer to one unit but the blank one.
LEMMA OneAtUnit ==
    ASSUME MasterInv, NEW n \in Uids, NEW m \in Uids,
           node[n].unit = node[m].unit, node[n].unit # BlankUnit
    PROVE  n = m
<1>1. /\ n \in Known /\ node[n].unit = Row(n).unit /\ node[n].mode # "off"
      /\ m \in Known /\ node[m].unit = Row(m).unit /\ node[m].mode # "off"
  BY DEF MasterInv, Placed
<1>2. CASE host = "solo"
  BY <1>1, <1>2 DEF MasterInv, Alone
<1>3. CASE host # "solo"
  <2>1. n \in DOMAIN table /\ m \in DOMAIN table /\ table[n].unit = table[m].unit
    BY <1>1, <1>3 DEF Known, Row
  <2> QED
    BY <2>1, MasterAssumption DEF MasterInv, TypeOK
<1> QED
  BY <1>2, <1>3

\* The units gone past were assigned, and the one in hand is not among them.
LEMMA ThroughIs ==
    ASSUME MasterInv
    PROVE  /\ Through \subseteq Given
           /\ run.pc \in InTurn => Unit \in run.units /\ Unit \notin Through
<1>1. run \in RunState /\ run.rows \in Rows /\ run.units \in SUBSET Given
  BY DEF MasterInv, TypeOK, RunState
<1>2. DOMAIN run.rows \subseteq Given
  BY <1>1, RowsAre
<1>3. run.pc \in InTurn => Unit \in run.units
  <2>1. run.units \in SUBSET Nat
    <3>1. \A u \in 1..246 : u \in Nat
      OBVIOUS
    <3> QED
      BY <1>1, <3>1, GivenAre
  <2> QED
    BY <2>1, LeastIs DEF MasterInv, RunFits, Unit
<1> QED
  BY <1>2, <1>3 DEF Through, InTurn

\* The nodes' part of the invariant, for a step that moves none of them to a
\* unit.
LEMMA NodesKeep ==
    ASSUME MasterInv, host' = host, table' = table,
           node' = [n \in Uids |-> node'[n]],
           \A n \in Uids :
              /\ node'[n] \in NodeState /\ Sound(n, node'[n])
              /\ node'[n].unit \in {node[n].unit, BlankUnit}
              /\ node'[n].mode = "off" <=> node[n].mode = "off"
    PROVE  /\ node' \in [Uids -> NodeState] /\ table' \in Tables /\ host' \in Hosts
           /\ Placed' /\ Alone' /\ Sounds'
<1>1. node' \in [Uids -> NodeState] /\ table' \in Tables /\ host' \in Hosts
  BY DEF MasterInv, TypeOK
<1>2. Placed'
  <2>1. Known' = Known /\ \A n \in Uids : Row(n)' = Row(n)
    BY DEF Known, Row
  <2> QED
    BY <2>1 DEF MasterInv, Placed
<1>3. Alone' /\ Sounds'
  BY DEF MasterInv, Alone, Sounds
<1> QED
  BY <1>1, <1>2, <1>3

\* The nodes themselves left alone.
LEMMA NodesLeft ==
    ASSUME MasterInv, host' = host, table' = table, node' = node
    PROVE  /\ node' \in [Uids -> NodeState] /\ table' \in Tables /\ host' \in Hosts
           /\ Placed' /\ Alone' /\ Sounds'
<1>1. /\ node' = [n \in Uids |-> node'[n]]
      /\ \A n \in Uids : node'[n] = node[n] /\ node[n] \in NodeState /\ Sound(n, node[n])
  BY DEF MasterInv, TypeOK, Sounds
<1> QED
  BY <1>1, NodesKeep

\* What a step of the run's before the go leaves of what the nodes heard.
LEMMA ListensOn ==
    ASSUME MasterInv, run.pc \notin {"hold", "go", "wait", "done", "raised"},
           run'.pc \notin {"hold", "wait", "done"}, run'.session = run.session,
           \A n \in Uids : HeardNoMore(node[n], node'[n])
                             /\ node'[n].session = node[n].session
    PROVE  Listens' /\ Gone'
<1>1. \A n \in Uids : /\ "hold" \in node'[n].heard => node'[n].session = run'.session
                      /\ "go" \notin node'[n].heard
  BY DEF MasterInv, Listens, HeardNoMore
<1> QED
  BY <1>1 DEF Listens, Gone

LEMMA BroadcastIs ==
    ASSUME node \in [Uids -> NodeState], NEW after, NEW whole, Broadcast(after, whole)
    PROVE  /\ clean' \in BOOLEAN /\ node' = [n \in Uids |-> node'[n]]
           /\ \A n \in Uids : \/ node'[n] = node[n]
                              \/ node'[n] = after[n] /\ node[n].mode = "boot"
BY DEF Broadcast, Serving

LEMMA SilentIs ==
    ASSUME node \in [Uids -> NodeState], NEW nodes, NEW after, nodes \subseteq Uids,
           Silent(nodes, after)
    PROVE  /\ clean' = FALSE /\ node' = [n \in Uids |-> node'[n]]
           /\ \A n \in Uids : \/ node'[n] = node[n]
                              \/ node'[n] = after[n] /\ n \in nodes
BY DEF Silent

LEMMA AnsweredIs ==
    ASSUME node \in [Uids -> NodeState], NEW n \in Uids, NEW after, Answered(n, after)
    PROVE  /\ clean' = clean /\ node' = [m \in Uids |-> node'[m]]
           /\ node'[n] = after /\ \A m \in Uids \ {n} : node'[m] = node[m]
BY DEF Answered

\* A run that gives up.
LEMMA RaiseIs ==
    ASSUME MasterInv, Raise
    PROVE  /\ run' \in RunState /\ run'.pc = "raised" /\ run'.session = run.session
           /\ RunFits' /\ SealedWhole'
<1>1. /\ run' \in RunState /\ run'.pc = "raised" /\ run'.session = run.session
      /\ run'.rows = run.rows /\ run'.units = run.units
  BY DEF Raise, MasterInv, TypeOK, RunState
<1> QED
  BY <1>1 DEF MasterInv, RunFits, InTurn, SealedWhole, Through

-----------------------------------------------------------------------------
(* The hold and the search.                                                *)

LEMMA SendHoldKeeps ==
    ASSUME MasterInv, SendHold
    PROVE  MasterInv'
<1> DEFINE After(session) == [n \in Uids |-> Hold(node[n], session)]
<1>1. PICK session \in Sessions :
          /\ Broadcast(After(session), TRUE)
          /\ run' = [run EXCEPT !.pc = "search", !.session = session, !.todo = <<<<>>>>]
  BY DEF SendHold
<1>2. /\ run.pc = "hold" /\ table' = table /\ host' = host /\ trouble' = trouble
      /\ run \in RunState /\ node \in [Uids -> NodeState]
  BY DEF SendHold, MasterInv, TypeOK
<1>3. /\ clean' \in BOOLEAN /\ node' = [n \in Uids |-> node'[n]]
      /\ \A n \in Uids : node'[n] = node[n] \/ node'[n] = Hold(node[n], session)
  <2>1. \A n \in Uids : After(session)[n] = Hold(node[n], session)
    OBVIOUS
  <2> HIDE DEF After
  <2>2. /\ clean' \in BOOLEAN /\ node' = [n \in Uids |-> node'[n]]
        /\ \A n \in Uids : node'[n] = node[n] \/ node'[n] = After(session)[n]
    BY <1>1, <1>2, BroadcastIs
  <2> QED
    BY <2>1, <2>2
<1>4. \A n \in Uids : /\ node'[n] \in NodeState /\ Sound(n, node'[n])
                      /\ Stays(node[n], node'[n])
                      /\ "go" \notin node'[n].heard
                      /\ "hold" \in node'[n].heard => node'[n].session = session
  <2> SUFFICES ASSUME NEW n \in Uids
               PROVE  /\ node'[n] \in NodeState /\ Sound(n, node'[n])
                      /\ Stays(node[n], node'[n])
                      /\ "go" \notin node'[n].heard
                      /\ "hold" \in node'[n].heard => node'[n].session = session
    OBVIOUS
  <2>1. node[n] \in NodeState /\ Sound(n, node[n]) /\ node[n].heard = {}
    BY <1>2 DEF MasterInv, Sounds, Listens
  <2>2. CASE node'[n] = node[n]
    BY <2>1, <2>2 DEF Stays
  <2>3. CASE node'[n] = Hold(node[n], session)
    BY <2>1, <2>3, HoldIs
  <2> QED
    BY <1>3, <2>2, <2>3
<1>5. /\ run' \in RunState /\ run'.pc = "search" /\ run'.session = session
      /\ run'.rows = run.rows /\ run'.units = run.units
  <2>1. <<<<>>>> \in Seq(Seq({0, 1}))
    OBVIOUS
  <2> QED
    BY <1>1, <1>2, <2>1 DEF RunState
<1>6. TypeOK' /\ Placed' /\ Alone' /\ Sounds'
  <2>1. /\ node' \in [Uids -> NodeState] /\ table' \in Tables /\ host' \in Hosts
        /\ Placed' /\ Alone' /\ Sounds'
    BY <1>2, <1>3, <1>4, NodesKeep DEF Stays
  <2> QED
    BY <1>2, <1>3, <1>5, <2>1 DEF MasterInv, TypeOK
<1>7. RunFits' /\ SealedWhole' /\ Gone'
  BY <1>5 DEF MasterInv, RunFits, InTurn, SealedWhole, Through, Gone
<1>8. Listens'
  BY <1>4, <1>5 DEF Listens
<1> QED
  BY <1>6, <1>7, <1>8 DEF MasterInv

\* A step of the run's alone, between the hold and the go, that goes past no
\* unit.
LEMMA RunSteps ==
    ASSUME MasterInv, UNCHANGED <<node, table, host, trouble>>, clean' \in BOOLEAN,
           run' \in RunState, run'.session = run.session,
           run.pc \notin {"hold", "go", "wait", "done", "raised"},
           run'.pc \notin {"hold", "wait", "done"}, RunFits', SealedWhole'
    PROVE  MasterInv'
<1>1. /\ node' \in [Uids -> NodeState] /\ table' \in Tables /\ host' \in Hosts
      /\ Placed' /\ Alone' /\ Sounds'
  BY NodesLeft
<1>2. TypeOK'
  BY <1>1 DEF MasterInv, TypeOK
<1>3. Listens' /\ Gone'
  BY ListensOn DEF HeardNoMore
<1> QED
  BY <1>1, <1>2, <1>3 DEF MasterInv

LEMMA FoundIs ==
    ASSUME MasterInv, NEW found \in SUBSET Uids, Found(found)
    PROVE  /\ run' \in RunState /\ run'.session = run.session /\ run'.pc = "assign"
           /\ RunFits' /\ SealedWhole'
<1>1. /\ run' \in RunState /\ run'.pc = "assign" /\ run'.session = run.session
      /\ run'.rows = run.rows /\ run'.units = run.units
  <2>1. <<>> \in Seq(Seq({0, 1}))
    OBVIOUS
  <2> QED
    BY <2>1 DEF Found, MasterInv, TypeOK, RunState
<1> QED
  BY <1>1 DEF MasterInv, RunFits, InTurn, SealedWhole, Through

LEMMA WhoKeeps ==
    ASSUME MasterInv, Who
    PROVE  MasterInv'
<1> DEFINE p == Last(run.todo)
           fits == {n \in AtUnit(BlankUnit) : SubSeq(n, 1, Len(p)) = p}
           front == Front(run.todo)
<1>1. /\ run.pc = "search" /\ run.todo # <<>> /\ run \in RunState
      /\ UNCHANGED <<node, table, host, trouble>> /\ clean \in BOOLEAN
      /\ fits \subseteq Uids
  BY DEF Who, MasterInv, TypeOK, AtUnit, Serving
<1>2. front \in Seq(Seq({0, 1})) /\ SplitAt(p) \in Seq(Seq({0, 1}))
  <2>1. /\ run.todo \in Seq(Seq({0, 1})) /\ Len(run.todo) \in Nat \ {0}
        /\ p \in Seq({0, 1})
    BY <1>1, EmptySeq DEF RunState, Last
  <2>2. front \in Seq(Seq({0, 1}))
    BY <2>1 DEF Front
  <2>3. Append(p, 0) \in Seq({0, 1}) /\ Append(p, 1) \in Seq({0, 1})
    BY <2>1
  <2> HIDE DEF p, front
  <2>4. <<Append(p, 0), Append(p, 1)>> \in Seq(Seq({0, 1}))
    BY <2>3
  <2>5. front \o <<Append(p, 0), Append(p, 1)>> \in Seq(Seq({0, 1}))
    BY <2>2, <2>4, ConcatProperties
  <2> QED
    BY <2>2, <2>5 DEF SplitAt, front
<1>3. PICK hear \in SUBSET fits :
          \/ \E n \in hear :
                /\ IF host = "solo" THEN Found({n})
                   ELSE run' = [run EXCEPT !.found = @ \cup {n}, !.todo = front]
                /\ clean' = (clean /\ hear = fits)
          \/ /\ IF host = "solo" THEN Raise ELSE run' = [run EXCEPT !.todo = SplitAt(p)]
             /\ clean' = (clean /\ hear = fits /\ Cardinality(hear) > 1)
          \/ /\ IF host = "solo" THEN Raise ELSE run' = [run EXCEPT !.todo = front]
             /\ clean' = (clean /\ fits = {})
  BY <1>1 DEF Who, RunState
<1>4. clean' \in BOOLEAN
  BY <1>3
<1> HIDE DEF front, fits, p
<1>5. \/ \E n \in Uids : Found({n})
      \/ Raise
      \/ \E found \in SUBSET Uids, todo \in Seq(Seq({0, 1})) :
            run' = [run EXCEPT !.found = found, !.todo = todo]
  <2>1. CASE \E n \in hear :
                IF host = "solo" THEN Found({n})
                ELSE run' = [run EXCEPT !.found = @ \cup {n}, !.todo = front]
    <3>1. PICK n \in hear :
              IF host = "solo" THEN Found({n})
              ELSE run' = [run EXCEPT !.found = run.found \cup {n}, !.todo = front]
      BY <1>1, <2>1 DEF RunState
    <3>2. n \in Uids /\ run.found \cup {n} \in SUBSET Uids
      BY <1>1 DEF RunState
    <3> QED
      BY <1>2, <3>1, <3>2
  <2>2. CASE IF host = "solo" THEN Raise ELSE run' = [run EXCEPT !.todo = SplitAt(p)]
    <3>1. [run EXCEPT !.todo = SplitAt(p)] = [run EXCEPT !.found = run.found, !.todo = SplitAt(p)]
      BY <1>1 DEF RunState
    <3>2. run.found \in SUBSET Uids
      BY <1>1 DEF RunState
    <3> QED
      BY <1>2, <2>2, <3>1, <3>2
  <2>3. CASE IF host = "solo" THEN Raise ELSE run' = [run EXCEPT !.todo = front]
    <3>1. [run EXCEPT !.todo = front] = [run EXCEPT !.found = run.found, !.todo = front]
      BY <1>1 DEF RunState
    <3>2. run.found \in SUBSET Uids
      BY <1>1 DEF RunState
    <3> QED
      BY <1>2, <2>3, <3>1, <3>2
  <2> QED
    BY <1>3, <2>1, <2>2, <2>3
<1>6. CASE \E n \in Uids : Found({n})
  BY <1>1, <1>4, <1>6, FoundIs, RunSteps
<1>7. CASE Raise
  BY <1>1, <1>4, <1>7, RaiseIs, RunSteps
<1>8. CASE \E found \in SUBSET Uids, todo \in Seq(Seq({0, 1})) :
              run' = [run EXCEPT !.found = found, !.todo = todo]
  <2>1. PICK found \in SUBSET Uids, todo \in Seq(Seq({0, 1})) :
            run' = [run EXCEPT !.found = found, !.todo = todo]
    BY <1>8
  <2>2. /\ run' \in RunState /\ run'.pc = "search" /\ run'.session = run.session
        /\ run'.rows = run.rows /\ run'.units = run.units
    BY <1>1, <2>1 DEF RunState
  <2>3. RunFits' /\ SealedWhole'
    BY <2>2 DEF MasterInv, RunFits, InTurn, SealedWhole, Through
  <2> QED
    BY <1>1, <1>4, <2>2, <2>3, RunSteps
<1> QED
  BY <1>5, <1>6, <1>7, <1>8

LEMMA SearchEndsKeeps ==
    ASSUME MasterInv, SearchEnds
    PROVE  MasterInv'
<1>1. /\ run.pc = "search" /\ Found(run.found)
      /\ UNCHANGED <<node, table, host, trouble, clean>>
      /\ clean \in BOOLEAN /\ run.found \in SUBSET Uids
  BY DEF SearchEnds, MasterInv, TypeOK, RunState
<1>2. clean' \in BOOLEAN
  BY <1>1
<1> QED
  BY <1>1, <1>2, FoundIs, RunSteps

-----------------------------------------------------------------------------
(* The units.                                                              *)

LEMMA UnknownKeeps ==
    ASSUME MasterInv, Unknown
    PROVE  MasterInv'
<1>1. PICK n : run' = [run EXCEPT !.found = @ \ {n}]
  BY DEF Unknown
<1>2. /\ run.pc = "assign" /\ run \in RunState /\ clean' \in BOOLEAN
      /\ UNCHANGED <<node, table, host, trouble>>
  BY DEF Unknown, MasterInv, TypeOK
<1>3. /\ run' \in RunState /\ run'.pc = "assign" /\ run'.session = run.session
      /\ run'.rows = run.rows /\ run'.units = run.units
  BY <1>1, <1>2 DEF RunState
<1>4. RunFits' /\ SealedWhole'
  BY <1>3 DEF MasterInv, RunFits, InTurn, SealedWhole, Through
<1> QED
  BY <1>2, <1>3, <1>4, RunSteps

\* A row more, and the node at its unit.
LEMMA SendAssignKeeps ==
    ASSUME MasterInv, SendAssign
    PROVE  MasterInv'
<1>1. /\ run.pc = "assign" /\ UNCHANGED <<table, host, trouble>>
      /\ run \in RunState /\ node \in [Uids -> NodeState] /\ clean \in BOOLEAN
      /\ table \in Tables /\ host \in Hosts
  BY DEF SendAssign, MasterInv, TypeOK
<1>2. PICK n \in run.found \cap Known :
          LET u == Row(n).unit
              there == AtUnit(BlankUnit) \cap {n} IN
          \/ /\ n \in there
             /\ Answered(n, Assign(node[n], u))
             /\ run' = [run EXCEPT !.found = @ \ {n},
                                   !.rows = [v \in DOMAIN @ \cup {u} |->
                                                IF v = u THEN Row(n).type ELSE @[v]]]
          \/ Silent(there, [o \in Uids |-> Assign(node[o], u)]) /\ Raise
  BY DEF SendAssign
<1> DEFINE u == Row(n).unit
           there == AtUnit(BlankUnit) \cap {n}
           after == [o \in Uids |-> Assign(node[o], u)]
           rows == [v \in DOMAIN run.rows \cup {u} |->
                      IF v = u THEN Row(n).type ELSE run.rows[v]]
           found == run.found \ {n}
<1>3. n \in Uids /\ u \in Given /\ Row(n).type \in Types
  BY <1>1, RowIs
<1>4. there \subseteq Uids /\ (n \in there => node[n].mode = "boot" /\ node[n].unit = BlankUnit)
  BY DEF AtUnit, Serving
<1>5. /\ node[n] \in NodeState /\ Sound(n, node[n])
      /\ LET q == Assign(node[n], u)
         IN /\ q \in NodeState /\ Sound(n, q) /\ q.unit = u /\ q.mode = node[n].mode
            /\ q.session = node[n].session /\ q.heard = node[n].heard
  BY <1>1, <1>3, AssignIs DEF MasterInv, Sounds
<1>6. /\ node' = [m \in Uids |-> node'[m]] /\ clean' \in BOOLEAN
      /\ \A m \in Uids : \/ node'[m] = node[m]
                         \/ m = n /\ n \in there /\ node'[m] = Assign(node[m], u)
  <2>1. CASE Answered(n, Assign(node[n], u)) /\ n \in there
    BY <1>1, <1>3, <2>1, AnsweredIs
  <2>2. CASE Silent(there, after)
    <3>1. \A m \in Uids : after[m] = Assign(node[m], u)
      OBVIOUS
    <3> HIDE DEF after
    <3>2. /\ node' = [m \in Uids |-> node'[m]] /\ clean' = FALSE
          /\ \A m \in Uids : node'[m] = node[m] \/ (node'[m] = after[m] /\ m \in there)
      BY <1>1, <1>4, <2>2, SilentIs
    <3> QED
      BY <3>1, <3>2
  <2> QED
    BY <1>2, <2>1, <2>2
<1> HIDE DEF after
<1>7. \A m \in Uids : /\ node'[m] \in NodeState /\ Sound(m, node'[m])
                      /\ node'[m].mode = node[m].mode
                      /\ node'[m].session = node[m].session
                      /\ node'[m].heard = node[m].heard
                      /\ node'[m].unit # node[m].unit =>
                            m = n /\ node'[m].unit = u /\ node[m].mode = "boot"
  <2> SUFFICES ASSUME NEW m \in Uids
               PROVE  /\ node'[m] \in NodeState /\ Sound(m, node'[m])
                      /\ node'[m].mode = node[m].mode
                      /\ node'[m].session = node[m].session
                      /\ node'[m].heard = node[m].heard
                      /\ node'[m].unit # node[m].unit =>
                            m = n /\ node'[m].unit = u /\ node[m].mode = "boot"
    OBVIOUS
  <2>1. CASE node'[m] = node[m]
    BY <1>1, <2>1 DEF MasterInv, Sounds
  <2>2. CASE m = n /\ n \in there /\ node'[m] = Assign(node[m], u)
    BY <1>4, <1>5, <2>2
  <2> QED
    BY <1>6, <2>1, <2>2
<1>8. /\ node' \in [Uids -> NodeState] /\ table' \in Tables /\ host' \in Hosts
      /\ Placed' /\ Alone' /\ Sounds'
  <2>1. node' \in [Uids -> NodeState] /\ table' \in Tables /\ host' \in Hosts
    BY <1>1, <1>6, <1>7
  <2>2. Placed'
    <3>1. Known' = Known /\ \A m \in Uids : Row(m)' = Row(m)
      BY <1>1 DEF Known, Row
    <3> QED
      BY <1>2, <1>7, <3>1 DEF MasterInv, Placed
  <2>3. Alone' /\ Sounds'
    BY <1>1, <1>7 DEF MasterInv, Alone, Sounds
  <2> QED
    BY <2>1, <2>2, <2>3
<1>9. /\ run' \in RunState /\ run'.session = run.session /\ run'.pc \in {"assign", "raised"}
      /\ RunFits' /\ SealedWhole'
  <2>1. CASE Raise
    BY <2>1, RaiseIs
  <2>2. CASE run' = [run EXCEPT !.found = @ \ {n},
                                !.rows = [v \in DOMAIN @ \cup {u} |->
                                             IF v = u THEN Row(n).type ELSE @[v]]]
    <3>1. run' = [run EXCEPT !.found = found, !.rows = rows]
      BY <1>1, <2>2 DEF RunState
    <3>2. run.rows \in Rows
      BY <1>1 DEF RunState
    <3>3. DOMAIN run.rows \in SUBSET Given /\ run.rows \in [DOMAIN run.rows -> Types]
      BY <3>2, RowsAre
    <3>4. /\ DOMAIN rows \in SUBSET Given /\ rows \in [DOMAIN rows -> Types]
          /\ DOMAIN run.rows \subseteq DOMAIN rows
      BY <1>3, <3>3
    <3> HIDE DEF rows
    <3>5. rows \in Rows /\ found \in SUBSET Uids
      BY <1>1, <3>4, RowsAre DEF RunState
    <3> HIDE DEF found
    <3>6. /\ run' \in RunState /\ run'.pc = "assign" /\ run'.session = run.session
          /\ run'.rows = rows /\ run'.units = run.units
      BY <1>1, <3>1, <3>5 DEF RunState
    <3>7. RunFits' /\ SealedWhole'
      BY <3>4, <3>6 DEF MasterInv, RunFits, InTurn, SealedWhole, Through
    <3> QED
      BY <3>6, <3>7
  <2> QED
    BY <1>2, <2>1, <2>2
<1>10. Listens' /\ Gone'
  BY <1>1, <1>7, <1>9, ListensOn DEF HeardNoMore
<1>11. TypeOK'
  BY <1>1, <1>6, <1>8, <1>9 DEF MasterInv, TypeOK
<1> QED
  BY <1>8, <1>9, <1>10, <1>11 DEF MasterInv

LEMMA AssignEndsKeeps ==
    ASSUME MasterInv, AssignEnds
    PROVE  MasterInv'
<1> DEFINE types == {run.rows[u] : u \in DOMAIN run.rows}
<1>1. /\ run.pc = "assign" /\ run \in RunState /\ clean' \in BOOLEAN
      /\ UNCHANGED <<node, table, host, trouble>>
      /\ run' = [run EXCEPT !.pc = "erase", !.types = types]
  BY DEF AssignEnds, MasterInv, TypeOK
<1>2. types \in SUBSET Types
  <2>1. run.rows \in [DOMAIN run.rows -> Types]
    BY <1>1, RowsAre DEF RunState
  <2> QED
    BY <2>1
<1> HIDE DEF types
<1>3. /\ run' \in RunState /\ run'.pc = "erase" /\ run'.session = run.session
      /\ run'.rows = run.rows /\ run'.units = run.units
  BY <1>1, <1>2 DEF RunState
<1>4. RunFits' /\ SealedWhole'
  BY <1>3 DEF MasterInv, RunFits, InTurn, SealedWhole, Through
<1> QED
  BY <1>1, <1>3, <1>4, RunSteps

\* A broadcast of the run's that moves no node to a unit or past a session.
LEMMA CastSteps ==
    ASSUME MasterInv, UNCHANGED <<table, host, trouble>>, clean' \in BOOLEAN,
           node' = [n \in Uids |-> node'[n]],
           \A n \in Uids :
              /\ node'[n] \in NodeState /\ Sound(n, node'[n]) /\ Stays(node[n], node'[n])
              /\ node'[n].session = node[n].session /\ HeardNoMore(node[n], node'[n]),
           run' \in RunState, run'.session = run.session,
           run.pc \notin {"hold", "go", "wait", "done", "raised"},
           run'.pc \notin {"hold", "wait", "done"}, RunFits', SealedWhole'
    PROVE  MasterInv'
<1>1. /\ node' \in [Uids -> NodeState] /\ table' \in Tables /\ host' \in Hosts
      /\ Placed' /\ Alone' /\ Sounds'
  BY NodesKeep DEF Stays
<1>2. TypeOK'
  BY <1>1 DEF MasterInv, TypeOK
<1>3. Listens' /\ Gone'
  BY ListensOn
<1> QED
  BY <1>1, <1>2, <1>3 DEF MasterInv

-----------------------------------------------------------------------------
(* The image.                                                              *)

LEMMA SendEraseKeeps ==
    ASSUME MasterInv, SendErase
    PROVE  MasterInv'
<1> DEFINE After(t) == [n \in Uids |-> Erase(n, t)]
<1>1. PICK t \in run.types :
          /\ Broadcast(After(t), clean)
          /\ run' = [run EXCEPT !.pc = "stream", !.types = @ \ {t}, !.left = {t}, !.at = 0]
  BY DEF SendErase
<1>2. /\ run.pc = "erase" /\ UNCHANGED <<table, host, trouble>>
      /\ run \in RunState /\ node \in [Uids -> NodeState] /\ t \in Types
  BY DEF SendErase, MasterInv, TypeOK, RunState
<1>3. /\ clean' \in BOOLEAN /\ node' = [n \in Uids |-> node'[n]]
      /\ \A n \in Uids : node'[n] = node[n] \/ node'[n] = Erase(n, t)
  <2>1. \A n \in Uids : After(t)[n] = Erase(n, t)
    OBVIOUS
  <2> HIDE DEF After
  <2>2. /\ clean' \in BOOLEAN /\ node' = [n \in Uids |-> node'[n]]
        /\ \A n \in Uids : node'[n] = node[n] \/ node'[n] = After(t)[n]
    BY <1>1, <1>2, BroadcastIs
  <2> QED
    BY <2>1, <2>2
<1>4. \A n \in Uids :
         /\ node'[n] \in NodeState /\ Sound(n, node'[n]) /\ Stays(node[n], node'[n])
         /\ node'[n].session = node[n].session /\ HeardNoMore(node[n], node'[n])
  <2> SUFFICES ASSUME NEW n \in Uids
               PROVE  /\ node'[n] \in NodeState /\ Sound(n, node'[n])
                      /\ Stays(node[n], node'[n])
                      /\ node'[n].session = node[n].session /\ HeardNoMore(node[n], node'[n])
    OBVIOUS
  <2>1. node[n] \in NodeState /\ Sound(n, node[n])
    BY <1>2 DEF MasterInv, Sounds
  <2>2. CASE node'[n] = node[n]
    BY <2>1, <2>2 DEF Stays, HeardNoMore
  <2>3. CASE node'[n] = Erase(n, t)
    BY <1>2, <2>1, <2>3, EraseIs
  <2> QED
    BY <1>3, <2>2, <2>3
<1>5. /\ run' \in RunState /\ run'.pc = "stream" /\ run'.session = run.session
      /\ run'.rows = run.rows /\ run'.units = run.units /\ run'.left = {t}
  <2> DEFINE types == run.types \ {t}
             left == {t}
  <2>1. types \in SUBSET Types /\ left \in SUBSET (Types \cup Chunks)
    BY <1>2 DEF RunState
  <2>2. run' = [run EXCEPT !.pc = "stream", !.types = types, !.left = left, !.at = 0]
    BY <1>1, <1>2 DEF RunState
  <2> HIDE DEF types, left
  <2>3. /\ run' \in RunState /\ run'.pc = "stream" /\ run'.session = run.session
        /\ run'.rows = run.rows /\ run'.units = run.units /\ run'.left = left
    BY <1>2, <2>1, <2>2 DEF RunState
  <2> QED
    BY <2>3 DEF left
<1>6. RunFits' /\ SealedWhole'
  BY <1>2, <1>5 DEF MasterInv, RunFits, InTurn, SealedWhole, Through
<1> QED
  BY <1>2, <1>3, <1>4, <1>5, <1>6, CastSteps

LEMMA SendChunkKeeps ==
    ASSUME MasterInv, SendChunk
    PROVE  MasterInv'
<1> DEFINE After(t) == [n \in Uids |-> Chunk(node[n], t, run.at)]
<1>1. PICK t \in run.left :
          /\ Broadcast(After(t), clean)
          /\ run' = IF run.at + 1 < Size[t] THEN [run EXCEPT !.at = @ + 1]
                    ELSE [run EXCEPT !.pc = "erase", !.left = {}, !.at = 0]
  BY DEF SendChunk
<1>2. /\ run.pc = "stream" /\ UNCHANGED <<table, host, trouble>>
      /\ run \in RunState /\ node \in [Uids -> NodeState] /\ t \in Types
  BY DEF SendChunk, MasterInv, TypeOK, RunFits
<1>3. /\ clean' \in BOOLEAN /\ node' = [n \in Uids |-> node'[n]]
      /\ \A n \in Uids : node'[n] = node[n] \/ node'[n] = Chunk(node[n], t, run.at)
  <2>1. \A n \in Uids : After(t)[n] = Chunk(node[n], t, run.at)
    OBVIOUS
  <2> HIDE DEF After
  <2>2. /\ clean' \in BOOLEAN /\ node' = [n \in Uids |-> node'[n]]
        /\ \A n \in Uids : node'[n] = node[n] \/ node'[n] = After(t)[n]
    BY <1>1, <1>2, BroadcastIs
  <2> QED
    BY <2>1, <2>2
<1>4. \A n \in Uids :
         /\ node'[n] \in NodeState /\ Sound(n, node'[n]) /\ Stays(node[n], node'[n])
         /\ node'[n].session = node[n].session /\ HeardNoMore(node[n], node'[n])
  <2> SUFFICES ASSUME NEW n \in Uids
               PROVE  /\ node'[n] \in NodeState /\ Sound(n, node'[n])
                      /\ Stays(node[n], node'[n])
                      /\ node'[n].session = node[n].session /\ HeardNoMore(node[n], node'[n])
    OBVIOUS
  <2>1. node[n] \in NodeState /\ Sound(n, node[n])
    BY <1>2 DEF MasterInv, Sounds
  <2>2. CASE node'[n] = node[n]
    BY <2>1, <2>2 DEF Stays, HeardNoMore
  <2>3. CASE node'[n] = Chunk(node[n], t, run.at)
    BY <1>2, <2>1, <2>3, ChunkIs DEF HeardNoMore
  <2> QED
    BY <1>3, <2>2, <2>3
<1>5. /\ run' \in RunState /\ run'.pc \in {"stream", "erase"} /\ run'.session = run.session
      /\ run'.rows = run.rows /\ run'.units = run.units /\ run'.left \subseteq run.left
  <2>1. CASE run' = [run EXCEPT !.at = @ + 1]
    BY <1>2, <2>1 DEF RunState
  <2>2. CASE run' = [run EXCEPT !.pc = "erase", !.left = {}, !.at = 0]
    BY <1>2, <2>2 DEF RunState
  <2> QED
    BY <1>1, <2>1, <2>2
<1>6. RunFits' /\ SealedWhole'
  BY <1>2, <1>5 DEF MasterInv, RunFits, InTurn, SealedWhole, Through
<1> QED
  BY <1>2, <1>3, <1>4, <1>5, <1>6, CastSteps

-----------------------------------------------------------------------------
(* The units in turn.                                                      *)

LEMMA ToUnitsIs ==
    ASSUME MasterInv, NEW units \in SUBSET (DOMAIN run.rows), ToUnits(units)
    PROVE  /\ run' \in RunState /\ run'.session = run.session /\ run'.rows = run.rows
           /\ run'.units = units
           /\ run'.pc = IF units = {} THEN "go" ELSE "missing"
           /\ RunFits'
<1> DEFINE pc == IF units = {} THEN "go" ELSE "missing"
<1>1. run \in RunState /\ units \in SUBSET Given /\ 0 \in 0..Rounds /\ 0 < Rounds
  <2>1. run \in RunState /\ run.rows \in Rows
    BY DEF MasterInv, TypeOK, RunState
  <2>2. DOMAIN run.rows \in SUBSET Given
    BY <2>1, RowsAre
  <2> QED
    BY <2>1, <2>2, MasterAssumption
<1>2. /\ run' = [run EXCEPT !.pc = pc, !.units = units, !.round = 0, !.left = {}]
      /\ pc \in {"go", "missing"}
  BY DEF ToUnits
<1> HIDE DEF pc
<1>3. /\ run' \in RunState /\ run'.session = run.session /\ run'.rows = run.rows
      /\ run'.units = units /\ run'.round = 0 /\ run'.pc = pc
  BY <1>1, <1>2 DEF RunState
<1>4. RunFits'
  BY <1>1, <1>2, <1>3 DEF RunFits, InTurn, pc
<1> QED
  BY <1>3, <1>4 DEF pc

LEMMA StreamEndsKeeps ==
    ASSUME MasterInv, StreamEnds
    PROVE  MasterInv'
<1>1. /\ run.pc = "erase" /\ ToUnits(DOMAIN run.rows) /\ clean' \in BOOLEAN
      /\ UNCHANGED <<node, table, host, trouble>>
  BY DEF StreamEnds, MasterInv, TypeOK
<1>2. /\ run' \in RunState /\ run'.session = run.session /\ run'.rows = run.rows
      /\ run'.units = DOMAIN run.rows
      /\ run'.pc = (IF DOMAIN run.rows = {} THEN "go" ELSE "missing")
      /\ RunFits'
  BY <1>1, ToUnitsIs
<1>3. SealedWhole'
  BY <1>2 DEF SealedWhole, Through
<1> QED
  BY <1>1, <1>2, <1>3, RunSteps

\* Units gone past stay sealed, as their nodes are left alone.
LEMMA SealedOn ==
    ASSUME MasterInv, run.pc \in InTurn, run'.pc \in InTurn,
           run'.rows = run.rows, run'.units = run.units,
           \A n \in Uids :
              /\ node'[n].unit = node[n].unit
              /\ node[n].unit \in Through /\ node[n].state = SEALED =>
                    node'[n].state = node[n].state /\ node'[n].ram = node[n].ram
    PROVE  SealedWhole'
<1>1. Through' = Through
  BY DEF Through, InTurn
<1> QED
  BY <1>1 DEF MasterInv, SealedWhole, Holds

LEMMA AskMissingKeeps ==
    ASSUME MasterInv, AskMissing
    PROVE  MasterInv'
<1> DEFINE there == AtUnit(Unit)
<1>1. /\ run.pc = "missing" /\ UNCHANGED <<table, host, trouble>>
      /\ run \in RunState /\ node \in [Uids -> NodeState] /\ clean \in BOOLEAN
      /\ \/ \E n \in there :
               Answered(n, RoundOf(node[n])) /\ run' = Round(Missing(node[n]))
         \/ Silent(there, node) /\ Raise
  BY DEF AskMissing, MasterInv, TypeOK
<1>2. there \subseteq Uids
  BY DEF AtUnit, Serving
<1>3. CASE Silent(there, node) /\ Raise
  <2>1. node' = node /\ clean' = FALSE
    <3>1. /\ clean' = FALSE /\ node' = [n \in Uids |-> node'[n]]
          /\ \A n \in Uids : node'[n] = node[n]
      BY <1>1, <1>2, <1>3, SilentIs
    <3> QED
      BY <1>1, <3>1
  <2> QED
    BY <1>1, <1>3, <2>1, RaiseIs, RunSteps
<1>4. CASE \E n \in there :
              Answered(n, RoundOf(node[n])) /\ run' = Round(Missing(node[n]))
  <2>1. PICK n \in there : Answered(n, RoundOf(node[n])) /\ run' = Round(Missing(node[n]))
    BY <1>4
  <2> DEFINE heard == node[n].heard \cup {"round"}
             q == [node[n] EXCEPT !.heard = heard]
             left == Missing(node[n])
             pc == IF left = {} THEN "verify" ELSE "resend"
             round == run.round + 1
  <2>2. n \in Uids /\ node[n] \in NodeState /\ Sound(n, node[n])
    BY <1>1, <1>2 DEF MasterInv, Sounds
  <2>3. /\ q \in NodeState /\ Stays(node[n], q) /\ Sound(n, q) /\ q.session = node[n].session
        /\ q.heard = heard /\ q.state = node[n].state /\ q.ram = node[n].ram
    <3>1. heard \in SUBSET {"hold", "erase", "round", "go"}
      BY <2>2 DEF NodeState
    <3> HIDE DEF heard
    <3> QED
      BY <2>2, <3>1, HearsIs
  <2>4. /\ clean' = clean /\ node' = [m \in Uids |-> node'[m]]
        /\ node'[n] = q /\ \A m \in Uids \ {n} : node'[m] = node[m]
    <3>1. RoundOf(node[n]) = q
      BY <2>2 DEF RoundOf, NodeState
    <3> QED
      BY <1>1, <2>1, <2>2, <3>1, AnsweredIs
  <2>5. HeardNoMore(node[n], q)
    BY <2>3 DEF HeardNoMore
  <2> HIDE DEF q
  <2>6. \A m \in Uids :
           /\ node'[m] \in NodeState /\ Sound(m, node'[m]) /\ Stays(node[m], node'[m])
           /\ node'[m].session = node[m].session /\ HeardNoMore(node[m], node'[m])
           /\ node'[m].state = node[m].state /\ node'[m].ram = node[m].ram
    <3> SUFFICES ASSUME NEW m \in Uids
                 PROVE  /\ node'[m] \in NodeState /\ Sound(m, node'[m])
                        /\ Stays(node[m], node'[m])
                        /\ node'[m].session = node[m].session
                        /\ HeardNoMore(node[m], node'[m])
                        /\ node'[m].state = node[m].state /\ node'[m].ram = node[m].ram
      OBVIOUS
    <3>1. CASE m = n
      BY <2>3, <2>4, <2>5, <3>1
    <3>2. CASE m # n
      BY <1>1, <2>4, <3>2 DEF MasterInv, Sounds, Stays, HeardNoMore
    <3> QED
      BY <3>1, <3>2
  <2>7. left \in SUBSET (Types \cup Chunks) /\ round \in 0..Rounds
    <3>1. left \in SUBSET (Types \cup Chunks)
      BY <2>2, IndicesAre DEF Missing, NodeState
    <3>2. run.round < Rounds /\ run.round \in 0..Rounds
      BY <1>1 DEF MasterInv, RunFits, RunState
    <3> QED
      BY <3>1, <3>2, MasterAssumption
  <2>8. run' = [run EXCEPT !.pc = pc, !.left = left, !.round = round]
        /\ pc \in {"verify", "resend"}
    BY <1>1, <2>1 DEF Round, RunState
  <2> HIDE DEF pc, left, round
  <2>9. /\ run' \in RunState /\ run'.pc = pc /\ run'.session = run.session
        /\ run'.rows = run.rows /\ run'.units = run.units
    BY <1>1, <2>7, <2>8 DEF RunState
  <2>10. RunFits' /\ SealedWhole'
    <3>1. RunFits'
      BY <1>1, <2>8, <2>9 DEF MasterInv, RunFits, InTurn
    <3>2. SealedWhole'
      BY <1>1, <2>6, <2>8, <2>9, SealedOn DEF InTurn, Stays
    <3> QED
      BY <3>1, <3>2
  <2> QED
    BY <1>1, <2>4, <2>6, <2>8, <2>9, <2>10, CastSteps
<1> QED
  BY <1>1, <1>3, <1>4

LEMMA ResendKeeps ==
    ASSUME MasterInv, Resend
    PROVE  MasterInv'
<1> DEFINE k == Min(run.left)
           after == [n \in Uids |-> Chunk(node[n], Image, k)]
           deaf(n) == [node[n] EXCEPT !.heard = @ \ {"round"}]
           left == run.left \ {k}
           pc == IF run.left # {k} THEN "resend"
                 ELSE IF run.round < Rounds THEN "missing" ELSE "verify"
<1>1. /\ run.pc = "resend" /\ UNCHANGED <<table, host, trouble>>
      /\ run \in RunState /\ node \in [Uids -> NodeState] /\ clean' \in BOOLEAN
      /\ run' = [run EXCEPT !.left = left, !.pc = pc]
      /\ \E hear \in SUBSET Serving :
            node' = [n \in Uids |-> IF n \in hear THEN after[n] ELSE deaf(n)]
  BY DEF Resend, MasterInv, TypeOK, RunState
<1>2. Image \in Types
  <2>1. Unit \in DOMAIN run.rows
    BY <1>1, ThroughIs DEF InTurn, MasterInv, RunFits
  <2>2. run.rows \in [DOMAIN run.rows -> Types]
    BY <1>1, RowsAre DEF RunState
  <2> QED
    BY <2>1, <2>2 DEF Image
<1>3. /\ node' = [n \in Uids |-> node'[n]]
      /\ \A n \in Uids : node'[n] = Chunk(node[n], Image, k) \/ node'[n] = deaf(n)
  <2>1. PICK hear : node' = [n \in Uids |-> IF n \in hear THEN after[n] ELSE deaf(n)]
    BY <1>1
  <2>2. \A n \in Uids : after[n] = Chunk(node[n], Image, k)
    OBVIOUS
  <2> HIDE DEF after, deaf, k
  <2> QED
    BY <2>1, <2>2
<1> HIDE DEF after, k
<1>4. \A n \in Uids :
         /\ node'[n] \in NodeState /\ Sound(n, node'[n]) /\ Stays(node[n], node'[n])
         /\ node'[n].session = node[n].session /\ HeardNoMore(node[n], node'[n])
         /\ node[n].state = SEALED =>
               node'[n].state = node[n].state /\ node'[n].ram = node[n].ram
  <2> SUFFICES ASSUME NEW n \in Uids
               PROVE  /\ node'[n] \in NodeState /\ Sound(n, node'[n])
                      /\ Stays(node[n], node'[n])
                      /\ node'[n].session = node[n].session /\ HeardNoMore(node[n], node'[n])
                      /\ node[n].state = SEALED =>
                            node'[n].state = node[n].state /\ node'[n].ram = node[n].ram
    OBVIOUS
  <2>1. node[n] \in NodeState /\ Sound(n, node[n])
    BY <1>1 DEF MasterInv, Sounds
  <2>2. CASE node'[n] = Chunk(node[n], Image, k)
    BY <1>2, <2>1, <2>2, ChunkIs DEF HeardNoMore
  <2>3. CASE node'[n] = deaf(n)
    <3> DEFINE heard == node[n].heard \ {"round"}
               q == [node[n] EXCEPT !.heard = heard]
    <3>1. deaf(n) = q /\ heard \in SUBSET {"hold", "erase", "round", "go"}
      BY <2>1 DEF NodeState
    <3>2. /\ q \in NodeState /\ Stays(node[n], q) /\ (Sound(n, node[n]) => Sound(n, q))
          /\ q.session = node[n].session /\ q.heard = heard
          /\ q.state = node[n].state /\ q.ram = node[n].ram
      <4> HIDE DEF heard
      <4> QED
        BY <2>1, <3>1, HearsIs
    <3>3. HeardNoMore(node[n], q)
      BY <3>2 DEF HeardNoMore
    <3> HIDE DEF q, deaf
    <3> QED
      BY <2>1, <2>3, <3>1, <3>2, <3>3
  <2> QED
    BY <1>3, <2>2, <2>3
<1>5. /\ run' \in RunState /\ run'.session = run.session
      /\ run'.rows = run.rows /\ run'.units = run.units /\ run'.round = run.round
      /\ run'.pc = pc /\ pc \in {"resend", "missing", "verify"}
      /\ pc = "missing" => run.round < Rounds
  <2>1. left \in SUBSET (Types \cup Chunks)
    BY <1>1 DEF RunState
  <2>2. pc \in {"resend", "missing", "verify"} /\ (pc = "missing" => run.round < Rounds)
    OBVIOUS
  <2> HIDE DEF left, pc
  <2> QED
    BY <1>1, <2>1, <2>2 DEF RunState
<1> HIDE DEF pc
<1>6. RunFits' /\ SealedWhole'
  <2>1. RunFits'
    BY <1>1, <1>5 DEF MasterInv, RunFits, InTurn
  <2>2. SealedWhole'
    BY <1>1, <1>4, <1>5, SealedOn DEF InTurn, Stays
  <2> QED
    BY <2>1, <2>2
<1> QED
  BY <1>1, <1>3, <1>4, <1>5, <1>6, CastSteps

\* What an exchange with the node in hand leaves of the others.
LEMMA InHandIs ==
    ASSUME MasterInv, run.pc \in InTurn, NEW after,
           \A n \in AtUnit(Unit) :
              /\ after[n] \in NodeState /\ Sound(n, after[n]) /\ Stays(node[n], after[n])
              /\ after[n].session = node[n].session /\ HeardNoMore(node[n], after[n]),
           \A n \in Uids : \/ node'[n] = node[n]
                           \/ node'[n] = after[n] /\ n \in AtUnit(Unit)
    PROVE  \A n \in Uids :
              /\ node'[n] \in NodeState /\ Sound(n, node'[n]) /\ Stays(node[n], node'[n])
              /\ node'[n].session = node[n].session /\ HeardNoMore(node[n], node'[n])
              /\ node[n].unit \in Through => node'[n] = node[n]
<1> SUFFICES ASSUME NEW n \in Uids
             PROVE  /\ node'[n] \in NodeState /\ Sound(n, node'[n])
                    /\ Stays(node[n], node'[n])
                    /\ node'[n].session = node[n].session /\ HeardNoMore(node[n], node'[n])
                    /\ node[n].unit \in Through => node'[n] = node[n]
  OBVIOUS
<1>1. CASE node'[n] = node[n]
  BY <1>1 DEF MasterInv, TypeOK, Sounds, Stays, HeardNoMore
<1>2. CASE node'[n] = after[n] /\ n \in AtUnit(Unit)
  <2>1. node[n].unit = Unit
    BY <1>2 DEF AtUnit
  <2> QED
    BY <1>2, <2>1, ThroughIs
<1> QED
  BY <1>1, <1>2

LEMMA AskVerifyKeeps ==
    ASSUME MasterInv, AskVerify
    PROVE  MasterInv'
<1> DEFINE there == AtUnit(Unit)
           after == [n \in Uids |-> Verify(node[n])]
<1>1. /\ run.pc = "verify" /\ UNCHANGED <<table, host, trouble>>
      /\ run \in RunState /\ node \in [Uids -> NodeState] /\ clean \in BOOLEAN
      /\ \/ \E n \in there :
               /\ Answered(n, Verify(node[n]))
               /\ IF VerifyOk(node[n]) THEN run' = [run EXCEPT !.pc = "seal"] ELSE Raise
         \/ Silent(there, after) /\ Raise
  BY DEF AskVerify, MasterInv, TypeOK
<1>2. there \subseteq Uids /\ \A n \in Uids : after[n] = Verify(node[n])
  BY DEF AtUnit, Serving
<1> HIDE DEF after
<1>3. /\ node' = [n \in Uids |-> node'[n]] /\ clean' \in BOOLEAN
      /\ \A n \in Uids : node'[n] = node[n] \/ (node'[n] = after[n] /\ n \in there)
  <2>1. CASE \E n \in there : Answered(n, Verify(node[n]))
    BY <1>1, <1>2, <2>1, AnsweredIs
  <2>2. CASE Silent(there, after)
    BY <1>1, <1>2, <2>2, SilentIs
  <2> QED
    BY <1>1, <2>1, <2>2
<1>4. \A n \in there :
         /\ after[n] \in NodeState /\ Sound(n, after[n]) /\ Stays(node[n], after[n])
         /\ after[n].session = node[n].session /\ HeardNoMore(node[n], after[n])
  BY <1>1, <1>2, VerifyIs DEF HeardNoMore, MasterInv, Sounds
<1>5. \A n \in Uids :
         /\ node'[n] \in NodeState /\ Sound(n, node'[n]) /\ Stays(node[n], node'[n])
         /\ node'[n].session = node[n].session /\ HeardNoMore(node[n], node'[n])
         /\ node[n].unit \in Through => node'[n] = node[n]
  BY <1>1, <1>3, <1>4, InHandIs DEF InTurn
<1>6. /\ run' \in RunState /\ run'.session = run.session /\ run'.pc \in {"seal", "raised"}
      /\ RunFits' /\ SealedWhole'
  <2>1. CASE Raise
    BY <2>1, RaiseIs
  <2>2. CASE run' = [run EXCEPT !.pc = "seal"]
    <3>1. /\ run' \in RunState /\ run'.session = run.session /\ run'.pc = "seal"
          /\ run'.rows = run.rows /\ run'.units = run.units
      BY <1>1, <2>2 DEF RunState
    <3>2. RunFits'
      BY <1>1, <3>1 DEF MasterInv, RunFits, InTurn
    <3>3. SealedWhole'
      BY <1>1, <1>5, <3>1, SealedOn DEF InTurn, Stays
    <3> QED
      BY <3>1, <3>2, <3>3
  <2> QED
    BY <1>1, <2>1, <2>2
<1> QED
  BY <1>1, <1>3, <1>5, <1>6, CastSteps

\* The node in hand sealed, its unit is gone past with the rest.
LEMMA AskSealKeeps ==
    ASSUME MasterInv, AskSeal
    PROVE  MasterInv'
<1> DEFINE there == AtUnit(Unit)
           after == [n \in Uids |-> Seal(node[n])]
           units == run.units \ {Unit}
<1>1. /\ run.pc = "seal" /\ UNCHANGED <<table, host, trouble>>
      /\ run \in RunState /\ node \in [Uids -> NodeState] /\ clean \in BOOLEAN
      /\ \/ \E n \in there :
               /\ Answered(n, Seal(node[n]))
               /\ IF node[n].verified THEN ToUnits(units) ELSE Raise
         \/ Silent(there, after) /\ Raise
  BY DEF AskSeal, MasterInv, TypeOK
<1>2. there \subseteq Uids /\ \A n \in Uids : after[n] = Seal(node[n])
  BY DEF AtUnit, Serving
<1> HIDE DEF after
<1>3. /\ node' = [n \in Uids |-> node'[n]] /\ clean' \in BOOLEAN
      /\ \A n \in Uids : node'[n] = node[n] \/ (node'[n] = after[n] /\ n \in there)
  <2>1. CASE \E n \in there : Answered(n, Seal(node[n]))
    BY <1>1, <1>2, <2>1, AnsweredIs
  <2>2. CASE Silent(there, after)
    BY <1>1, <1>2, <2>2, SilentIs
  <2> QED
    BY <1>1, <2>1, <2>2
<1>4. \A n \in there :
         /\ after[n] \in NodeState /\ Sound(n, after[n]) /\ Stays(node[n], after[n])
         /\ after[n].session = node[n].session /\ HeardNoMore(node[n], after[n])
         /\ node[n].verified => after[n].state = SEALED /\ Holds(after[n], Board[n])
  BY <1>1, <1>2, SealIs DEF MasterInv, Sounds
<1>5. \A n \in Uids :
         /\ node'[n] \in NodeState /\ Sound(n, node'[n]) /\ Stays(node[n], node'[n])
         /\ node'[n].session = node[n].session /\ HeardNoMore(node[n], node'[n])
         /\ node[n].unit \in Through => node'[n] = node[n]
  BY <1>1, <1>3, <1>4, InHandIs DEF InTurn
<1>6. /\ run' \in RunState /\ run'.session = run.session
      /\ run'.pc \in {"go", "missing", "raised"} /\ RunFits' /\ SealedWhole'
  <2>1. CASE Raise
    BY <2>1, RaiseIs
  <2>2. CASE ~ Raise
    <3>1. PICK n \in there : Answered(n, Seal(node[n])) /\ node[n].verified /\ ToUnits(units)
      BY <1>1, <2>2
    <3>2. /\ n \in Uids /\ node[n].unit = Unit /\ node'[n] = after[n]
          /\ Unit \in Given /\ Unit # BlankUnit
      <4>1. Unit \in run.units /\ run.units \subseteq Given
        BY <1>1, ThroughIs DEF InTurn, RunState
      <4> QED
        BY <1>1, <1>2, <3>1, <4>1, AnsweredIs, GivenAre DEF AtUnit
    <3>3. units \in SUBSET (DOMAIN run.rows)
      BY DEF MasterInv, RunFits
    <3>4. /\ run' \in RunState /\ run'.session = run.session /\ run'.rows = run.rows
          /\ run'.units = units
          /\ run'.pc = (IF units = {} THEN "go" ELSE "missing")
          /\ RunFits'
      BY <3>1, <3>3, ToUnitsIs
    <3>5. Through' \subseteq Through \cup {Unit}
      BY <1>1, <3>4 DEF Through
    <3>6. ASSUME NEW m \in Uids, node'[m].unit \in Through'
          PROVE  node'[m].state = SEALED /\ Holds(node'[m], Board[m])
      <4>1. node'[m].unit = node[m].unit
        BY <1>5 DEF Stays
      <4>2. CASE node[m].unit \in Through
        BY <1>5, <4>2 DEF MasterInv, SealedWhole
      <4>3. CASE node[m].unit = Unit
        <5>1. m = n
          BY <3>2, <4>3, OneAtUnit
        <5> QED
          BY <1>4, <3>1, <3>2, <5>1
      <4> QED
        BY <3>5, <3>6, <4>1, <4>2, <4>3
    <3>7. SealedWhole'
      BY <3>6 DEF SealedWhole, Holds
    <3> QED
      BY <3>4, <3>7
  <2> QED
    BY <2>1, <2>2
<1> QED
  BY <1>1, <1>3, <1>5, <1>6, CastSteps

-----------------------------------------------------------------------------
(* The go, and what comes after it.                                        *)

LEMMA SendGoKeeps ==
    ASSUME MasterInv, SendGo
    PROVE  MasterInv'
<1> DEFINE after == [n \in Uids |-> Go(n, run.session)]
           pc == IF host = "solo" THEN "wait" ELSE "done"
<1>1. /\ run.pc = "go" /\ UNCHANGED <<table, host, trouble>>
      /\ run \in RunState /\ node \in [Uids -> NodeState]
      /\ Broadcast(after, clean) /\ run' = [run EXCEPT !.pc = pc]
  BY DEF SendGo, MasterInv, TypeOK
<1>2. \A n \in Uids : after[n] = Go(n, run.session)
  OBVIOUS
<1> HIDE DEF after
<1>3. /\ clean' \in BOOLEAN /\ node' = [n \in Uids |-> node'[n]]
      /\ \A n \in Uids : \/ node'[n] = node[n]
                         \/ node'[n] = Go(n, run.session) /\ node[n].mode = "boot"
  BY <1>1, <1>2, BroadcastIs
<1>4. /\ run' \in RunState /\ run'.pc \in {"wait", "done"} /\ run'.session = run.session
      /\ run'.rows = run.rows /\ run'.units = run.units
  <2>1. pc \in {"wait", "done"}
    OBVIOUS
  <2> HIDE DEF pc
  <2> QED
    BY <1>1, <2>1 DEF RunState
<1>5. \A n \in Uids :
         /\ node'[n] \in NodeState /\ Sound(n, node'[n]) /\ node'[n].unit = node[n].unit
         /\ node'[n].mode = "off" <=> node[n].mode = "off"
         /\ node'[n].session = node[n].session
         /\ "hold" \in node'[n].heard => "hold" \in node[n].heard
         /\ node'[n].state = node[n].state /\ node'[n].ram = node[n].ram
         /\ "go" \in node'[n].heard /\ node[n].session = run.session
            /\ node[n].state = SEALED /\ Holds(node[n], Board[n])
               => node'[n].mode = "app"
  <2> SUFFICES ASSUME NEW n \in Uids
               PROVE  /\ node'[n] \in NodeState /\ Sound(n, node'[n])
                      /\ node'[n].unit = node[n].unit
                      /\ node'[n].mode = "off" <=> node[n].mode = "off"
                      /\ node'[n].session = node[n].session
                      /\ "hold" \in node'[n].heard => "hold" \in node[n].heard
                      /\ node'[n].state = node[n].state /\ node'[n].ram = node[n].ram
                      /\ "go" \in node'[n].heard /\ node[n].session = run.session
                         /\ node[n].state = SEALED /\ Holds(node[n], Board[n])
                            => node'[n].mode = "app"
    OBVIOUS
  <2>1. node[n] \in NodeState /\ Sound(n, node[n]) /\ "go" \notin node[n].heard
    BY <1>1 DEF MasterInv, Sounds, Listens
  <2>2. CASE node'[n] = node[n]
    BY <2>1, <2>2
  <2>3. CASE node'[n] = Go(n, run.session) /\ node[n].mode = "boot"
    BY <2>1, <2>3, GoIs
  <2> QED
    BY <1>3, <2>2, <2>3
<1>6. /\ node' \in [Uids -> NodeState] /\ table' \in Tables /\ host' \in Hosts
      /\ Placed' /\ Alone' /\ Sounds'
  BY <1>1, <1>3, <1>5, NodesKeep
<1>7. TypeOK' /\ RunFits'
  BY <1>1, <1>3, <1>4, <1>6 DEF MasterInv, TypeOK, RunFits, InTurn
<1>8. SealedWhole'
  <2>1. Through' = DOMAIN run.rows /\ Through = DOMAIN run.rows
    BY <1>1, <1>4 DEF Through
  <2> QED
    BY <1>5, <2>1 DEF MasterInv, SealedWhole, Holds
<1>9. Listens'
  BY <1>1, <1>4, <1>5 DEF MasterInv, Listens
<1>10. Gone'
  <2> SUFFICES ASSUME NEW n \in Uids, node'[n].unit \in DOMAIN run'.rows,
                      {"hold", "go"} \subseteq node'[n].heard
               PROVE  node'[n].mode = "app"
    BY DEF Gone
  <2>1. node[n].unit \in Through
    BY <1>1, <1>4, <1>5 DEF Through
  <2>2. node[n].state = SEALED /\ Holds(node[n], Board[n])
    BY <2>1 DEF MasterInv, SealedWhole
  <2>3. node[n].session = run.session
    BY <1>1, <1>5 DEF MasterInv, Listens
  <2> QED
    BY <1>5, <2>2, <2>3
<1> QED
  BY <1>6, <1>7, <1>8, <1>9, <1>10 DEF MasterInv

LEMMA WaitKeeps ==
    ASSUME MasterInv, Wait
    PROVE  MasterInv'
<1>1. /\ run.pc = "wait" /\ UNCHANGED <<node, table, host, trouble, clean>>
      /\ run \in RunState
      /\ run' = [run EXCEPT !.pc = "done"] \/ run' = [run EXCEPT !.pc = "raised"]
  BY DEF Wait, Raise, MasterInv, TypeOK
<1>2. /\ run' \in RunState /\ run'.pc \in {"done", "raised"} /\ run'.session = run.session
      /\ run'.rows = run.rows /\ run'.units = run.units
  BY <1>1 DEF RunState
<1>3. /\ node' \in [Uids -> NodeState] /\ table' \in Tables /\ host' \in Hosts
      /\ Placed' /\ Alone' /\ Sounds'
  BY <1>1, NodesLeft
<1>4. TypeOK' /\ RunFits'
  BY <1>1, <1>2, <1>3 DEF MasterInv, TypeOK, RunFits, InTurn
<1>5. SealedWhole' /\ Listens' /\ Gone'
  BY <1>1, <1>2 DEF MasterInv, SealedWhole, Through, Listens, Gone
<1> QED
  BY <1>3, <1>4, <1>5 DEF MasterInv

-----------------------------------------------------------------------------
(* A further run, and the nodes on their own.                              *)

LEMMA AgainKeeps ==
    ASSUME MasterInv, Again
    PROVE  MasterInv'
<1>1. /\ run' = NoRun /\ trouble' \in 0..MaxTrouble /\ clean' \in BOOLEAN
      /\ node' = [n \in Uids |-> [node[n] EXCEPT !.heard = {}]]
      /\ UNCHANGED <<table, host>> /\ node \in [Uids -> NodeState]
  <2>1. trouble' \in 0..MaxTrouble
    BY BoundIs DEF Again, MasterInv, TypeOK
  <2>2. clean' = FALSE
    BY DEF Again
  <2> QED
    BY <2>1, <2>2 DEF Again, MasterInv, TypeOK
<1>2. \A n \in Uids :
         /\ node'[n] \in NodeState /\ Sound(n, node'[n]) /\ Stays(node[n], node'[n])
         /\ node'[n].heard = {}
  <2> SUFFICES ASSUME NEW n \in Uids
               PROVE  /\ node'[n] \in NodeState /\ Sound(n, node'[n])
                      /\ Stays(node[n], node'[n]) /\ node'[n].heard = {}
    OBVIOUS
  <2> DEFINE heard == {}
             q == [node[n] EXCEPT !.heard = heard]
  <2>1. node'[n] = q /\ heard \in SUBSET {"hold", "erase", "round", "go"}
        /\ node[n] \in NodeState /\ Sound(n, node[n])
    BY <1>1 DEF MasterInv, Sounds
  <2>2. heard = {}
    OBVIOUS
  <2> HIDE DEF heard
  <2>3. q \in NodeState /\ Stays(node[n], q) /\ Sound(n, q) /\ q.heard = heard
    BY <2>1, HearsIs
  <2> QED
    BY <2>1, <2>2, <2>3
<1>3. /\ run' \in RunState /\ run'.pc = "hold" /\ run'.units = {}
  <2>1. <<>> \in Rows
    BY NoRowsAre
  <2>2. <<>> \in Seq(Seq({0, 1})) /\ 0 \in 0..Rounds
    BY MasterAssumption
  <2> QED
    BY <1>1, <2>1, <2>2 DEF NoRun, RunState
<1>4. /\ node' \in [Uids -> NodeState] /\ table' \in Tables /\ host' \in Hosts
      /\ Placed' /\ Alone' /\ Sounds'
  <2>1. node' = [n \in Uids |-> node'[n]]
    BY <1>1
  <2> QED
    BY <1>1, <1>2, <2>1, NodesKeep DEF Stays
<1>5. TypeOK' /\ RunFits'
  BY <1>1, <1>3, <1>4 DEF TypeOK, RunFits, InTurn
<1>6. SealedWhole' /\ Listens' /\ Gone'
  BY <1>2, <1>3 DEF SealedWhole, Through, Listens, Gone
<1> QED
  BY <1>4, <1>5, <1>6 DEF MasterInv

\* A node out of its window was never held: no unit gone past is its.
LEMMA WindowKeeps ==
    ASSUME MasterInv, NEW n \in Uids, Window(n)
    PROVE  MasterInv'
<1> DEFINE o == node[n]
           q == [o EXCEPT !.mode = "app", !.named = o.store]
<1>1. /\ o.mode = "boot" /\ o.state = BLANK /\ clean' = FALSE
      /\ UNCHANGED <<table, host, run, trouble>>
      /\ node \in [Uids -> NodeState] /\ o \in NodeState /\ Sound(n, o)
      /\ node' = [node EXCEPT ![n] = q]
  BY DEF Window, MasterInv, TypeOK, Sounds, NodeState
<1>2. /\ q \in NodeState /\ q.unit = o.unit /\ q.mode = "app" /\ q.session = o.session
      /\ q.heard = o.heard /\ q.state = o.state /\ q.ram = o.ram
      /\ q.offer = o.offer /\ q.verified = o.verified /\ q.landed = o.landed
  BY <1>1 DEF NodeState
<1>3. Sound(n, q)
  BY <1>1, <1>2 DEF Sound, Holds
<1>4. /\ node' = [m \in Uids |-> node'[m]] /\ node'[n] = q
      /\ \A m \in Uids \ {n} : node'[m] = node[m]
  BY <1>1
<1> HIDE DEF q
<1>5. \A m \in Uids :
         /\ node'[m] \in NodeState /\ Sound(m, node'[m]) /\ node'[m].unit = node[m].unit
         /\ node'[m].mode = "off" <=> node[m].mode = "off"
         /\ node'[m].session = node[m].session /\ node'[m].heard = node[m].heard
         /\ node'[m].state = node[m].state /\ node'[m].ram = node[m].ram
         /\ node[m].mode = "app" => node'[m].mode = "app"
  <2> SUFFICES ASSUME NEW m \in Uids
               PROVE  /\ node'[m] \in NodeState /\ Sound(m, node'[m])
                      /\ node'[m].unit = node[m].unit
                      /\ node'[m].mode = "off" <=> node[m].mode = "off"
                      /\ node'[m].session = node[m].session
                      /\ node'[m].heard = node[m].heard
                      /\ node'[m].state = node[m].state /\ node'[m].ram = node[m].ram
                      /\ node[m].mode = "app" => node'[m].mode = "app"
    OBVIOUS
  <2>1. CASE m = n
    BY <1>1, <1>2, <1>3, <1>4, <2>1
  <2>2. CASE m # n
    BY <1>1, <1>4, <2>2 DEF MasterInv, Sounds
  <2> QED
    BY <2>1, <2>2
<1>6. /\ node' \in [Uids -> NodeState] /\ table' \in Tables /\ host' \in Hosts
      /\ Placed' /\ Alone' /\ Sounds'
  BY <1>1, <1>4, <1>5, NodesKeep
<1>7. TypeOK' /\ RunFits'
  BY <1>1, <1>6 DEF MasterInv, TypeOK, RunFits, InTurn
<1>8. SealedWhole'
  BY <1>1, <1>5 DEF MasterInv, SealedWhole, Through, Holds
<1>9. Listens' /\ Gone'
  BY <1>1, <1>5 DEF MasterInv, Listens, Gone
<1> QED
  BY <1>6, <1>7, <1>8, <1>9 DEF MasterInv

\* A node that lost its power answers at the blank unit, which no run assigns.
LEMMA ResetKeeps ==
    ASSUME MasterInv, NEW n \in Uids, Reset(n)
    PROVE  MasterInv'
<1>1. PICK ready \in BOOLEAN :
          node' = [node EXCEPT ![n] = Fresh(@.store, ready /\ @.store # None)]
  BY DEF Reset
<1>2. /\ node[n].mode # "off" /\ clean' = FALSE /\ trouble' \in 0..MaxTrouble
      /\ UNCHANGED <<table, host, run>> /\ node \in [Uids -> NodeState]
  BY BoundIs DEF Reset, MasterInv, TypeOK
<1> DEFINE q == Fresh(node[n].store, ready /\ node[n].store # None)
<1>3. /\ q \in NodeState /\ Sound(n, q) /\ q.unit = BlankUnit
      /\ q.mode = "boot" /\ q.heard = {}
  <2>1. node[n].store \in Types \cup {None, Old} /\ (ready /\ node[n].store # None) \in BOOLEAN
    BY <1>2 DEF NodeState
  <2> QED
    BY <2>1, FreshIs
<1>4. /\ node' = [m \in Uids |-> node'[m]] /\ node'[n] = q
      /\ \A m \in Uids \ {n} : node'[m] = node[m]
  BY <1>1, <1>2
<1> HIDE DEF q
<1>5. \A m \in Uids :
         /\ node'[m] \in NodeState /\ Sound(m, node'[m])
         /\ node'[m].unit \in {node[m].unit, BlankUnit}
         /\ node'[m].mode = "off" <=> node[m].mode = "off"
         /\ node'[m] = node[m] \/ (node'[m].unit = BlankUnit /\ node'[m].heard = {})
  <2> SUFFICES ASSUME NEW m \in Uids
               PROVE  /\ node'[m] \in NodeState /\ Sound(m, node'[m])
                      /\ node'[m].unit \in {node[m].unit, BlankUnit}
                      /\ node'[m].mode = "off" <=> node[m].mode = "off"
                      /\ \/ node'[m] = node[m]
                         \/ node'[m].unit = BlankUnit /\ node'[m].heard = {}
    OBVIOUS
  <2>1. CASE m = n
    BY <1>2, <1>3, <1>4, <2>1
  <2>2. CASE m # n
    BY <1>2, <1>4, <2>2 DEF MasterInv, Sounds
  <2> QED
    BY <2>1, <2>2
<1>6. /\ node' \in [Uids -> NodeState] /\ table' \in Tables /\ host' \in Hosts
      /\ Placed' /\ Alone' /\ Sounds'
  BY <1>2, <1>4, <1>5, NodesKeep
<1>7. TypeOK' /\ RunFits'
  BY <1>2, <1>6 DEF MasterInv, TypeOK, RunFits, InTurn
<1>8. SealedWhole'
  <2>1. Through' = Through /\ BlankUnit \notin Through
    BY <1>2, ThroughIs, GivenAre DEF Through
  <2> QED
    BY <1>5, <2>1 DEF MasterInv, SealedWhole, Holds
<1>9. Listens' /\ Gone'
  BY <1>2, <1>5 DEF MasterInv, Listens, Gone
<1> QED
  BY <1>6, <1>7, <1>8, <1>9 DEF MasterInv

-----------------------------------------------------------------------------
(* The theorems.                                                           *)

LEMMA InitHolds ==
    ASSUME Init
    PROVE  MasterInv
<1>1. PICK store \in [Uids -> {None, Old}], on \in OnPort(host) :
          node = [n \in Uids |->
                    IF n \in on THEN Fresh(store[n], store[n] # None) ELSE Absent]
  BY DEF Init
<1>2. /\ host \in Hosts /\ table \in Tables /\ run = NoRun
      /\ trouble \in 0..MaxTrouble /\ clean \in BOOLEAN
  <2>1. trouble \in 0..MaxTrouble
    BY BoundIs DEF Init
  <2>2. clean = FALSE
    BY DEF Init
  <2> QED
    BY <2>1, <2>2 DEF Init
<1>3. \A n \in Uids :
         /\ node[n] \in NodeState /\ Sound(n, node[n]) /\ node[n].unit = BlankUnit
         /\ node[n].heard = {} /\ (node[n].mode # "off" => n \in on)
  <2> SUFFICES ASSUME NEW n \in Uids
               PROVE  /\ node[n] \in NodeState /\ Sound(n, node[n])
                      /\ node[n].unit = BlankUnit
                      /\ node[n].heard = {} /\ (node[n].mode # "off" => n \in on)
    OBVIOUS
  <2>1. CASE n \in on
    <3> DEFINE ready == store[n] # None
    <3>1. node[n] = Fresh(store[n], ready) /\ store[n] \in Types \cup {None, Old}
          /\ ready \in BOOLEAN
      BY <1>1, <2>1
    <3> HIDE DEF ready
    <3> QED
      BY <2>1, <3>1, FreshIs
  <2>2. CASE n \notin on
    <3> DEFINE o == Fresh(None, FALSE)
               q == [o EXCEPT !.mode = "off"]
    <3>1. node[n] = q
      BY <1>1, <2>2 DEF Absent
    <3>2. o \in NodeState /\ Sound(n, o) /\ o.unit = BlankUnit /\ o.heard = {}
      BY FreshIs
    <3> HIDE DEF o
    <3>3. /\ q \in NodeState /\ q.unit = o.unit /\ q.heard = o.heard /\ q.mode = "off"
          /\ q.state = o.state /\ q.ram = o.ram
          /\ q.offer = o.offer /\ q.verified = o.verified /\ q.landed = o.landed
      BY <3>2 DEF NodeState
    <3>4. Sound(n, q)
      BY <3>2, <3>3 DEF Sound, Holds
    <3> QED
      BY <3>1, <3>2, <3>3, <3>4
  <2> QED
    BY <2>1, <2>2
<1>4. run \in RunState /\ run.pc = "hold" /\ run.units = {}
  <2>1. <<>> \in Rows
    BY NoRowsAre
  <2>2. <<>> \in Seq(Seq({0, 1})) /\ 0 \in 0..Rounds
    BY MasterAssumption
  <2> QED
    BY <1>2, <2>1, <2>2 DEF NoRun, RunState
<1>5. TypeOK
  BY <1>1, <1>2, <1>3, <1>4 DEF TypeOK
<1>6. Placed /\ Sounds /\ Alone
  BY <1>1, <1>3 DEF Placed, Sounds, Alone, OnPort
<1>7. RunFits /\ SealedWhole /\ Listens /\ Gone
  BY <1>3, <1>4 DEF RunFits, InTurn, SealedWhole, Through, Listens, Gone
<1> QED
  BY <1>5, <1>6, <1>7 DEF MasterInv

LEMMA NextKeeps ==
    ASSUME MasterInv, [Next]_vars
    PROVE  MasterInv'
<1>1. CASE Master
  BY <1>1, SendHoldKeeps, WhoKeeps, SearchEndsKeeps, UnknownKeeps, SendAssignKeeps,
     AssignEndsKeeps, SendEraseKeeps, SendChunkKeeps, StreamEndsKeeps, AskMissingKeeps,
     ResendKeeps, AskVerifyKeeps, AskSealKeeps, SendGoKeeps, WaitKeeps DEF Master
<1>2. CASE Again
  BY <1>2, AgainKeeps
<1>3. CASE \E n \in Uids : Window(n) \/ Reset(n)
  BY <1>3, WindowKeeps, ResetKeeps
<1>4. CASE UNCHANGED vars
  <2>1. UNCHANGED <<node, table, host, run, trouble, clean>>
    BY <1>4 DEF vars
  <2>2. /\ TypeOK' /\ Placed' /\ Alone' /\ Sounds'
    <3>1. TypeOK'
      BY <2>1 DEF MasterInv, TypeOK
    <3> QED
      BY <2>1, <3>1, NodesLeft
  <2>3. RunFits' /\ SealedWhole'
    BY <2>1 DEF MasterInv, RunFits, SealedWhole, Through, Holds
  <2>4. Listens' /\ Gone'
    BY <2>1 DEF MasterInv, Listens, Gone
  <2> QED
    BY <2>2, <2>3, <2>4 DEF MasterInv
<1> QED
  BY <1>1, <1>2, <1>3, <1>4 DEF Next

\* The whole invariant holds, for any nodes, images and tables, whatever the
\* wire loses and however often power is lost (Master.run, from_bootloader).
THEOREM MasterInvariant == Spec => []MasterInv
<1>1. Init => MasterInv
  BY InitHolds
<1>2. MasterInv /\ [Next]_vars => MasterInv'
  BY NextKeeps
<1> QED
  BY <1>1, <1>2, PTL DEF Spec

\* The types of the nodes' and of the run's state (boot_core.c's statics,
\* Master.run's locals): the table's rows stay within the units it names, and
\* no unit is asked for its missing chunks more than MISSING_ROUNDS times.
THEOREM TypeCorrect == Spec => []TypeOK
<1>1. MasterInv => TypeOK
  BY DEF MasterInv
<1> QED
  BY <1>1, MasterInvariant, PTL

\* No unit is gone past before its node is sealed over the whole of its own
\* board's image (Master.run's seal, boot_core.c's verify and seal).
THEOREM SealedBeforeNext == Spec => []SealedWhole
<1>1. MasterInv => SealedWhole
  BY DEF MasterInv
<1> QED
  BY <1>1, MasterInvariant, PTL

\* A run that returns has started every node it assigned that heard both its
\* hold and its go (Master.run's end, h_boot_go).
THEOREM NoneLeftBehind == Spec => []GoneUnlessDeaf
<1>1. MasterInv => GoneUnlessDeaf
  BY DEF MasterInv, Gone, GoneUnlessDeaf
<1> QED
  BY <1>1, MasterInvariant, PTL

-----------------------------------------------------------------------------
(* The prefix search.                                                      *)

Fits(n, p) == SubSeq(n, 1, Len(p)) = p

\* A node that has heard no loss is found, or its prefix is still to be asked
\* for; none is found that is not there.
Searched ==
    /\ run.found \subseteq AtUnit(BlankUnit)
    /\ \A n \in AtUnit(BlankUnit) :
          n \in run.found \/ \E i \in 1..Len(run.todo) : Fits(n, run.todo[i])

SearchInv ==
    /\ run.pc = "hold" => run.found = {}
    /\ run.pc = "search" => \A i \in 1..Len(run.todo) : Len(run.todo[i]) <= Bits
    /\ run.pc = "search" /\ clean => Searched

\* A prefix, bit by bit.
LEMMA FitsIs ==
    ASSUME NEW n \in Uids, NEW p \in Seq({0, 1}), Len(p) <= Bits
    PROVE  Fits(n, p) <=> \A i \in 1..Len(p) : n[i] = p[i]
<1>1. n \in [1..Bits -> {0, 1}] /\ Bits \in Nat /\ Len(p) \in Nat
  BY MasterAssumption
<1>2. \A i \in 1..Len(p) : n[i] \in {0, 1}
  BY <1>1
<1> DEFINE s == SubSeq(n, 1, Len(p))
<1>3. /\ s \in Seq({0, 1}) /\ Len(s) = Len(p)
      /\ \A i \in 1..Len(p) : s[i] = n[i]
  <2>1. /\ s \in Seq({0, 1}) /\ Len(s) = IF 1 <= Len(p) THEN Len(p) - 1 + 1 ELSE 0
        /\ \A i \in 1..(Len(p) - 1 + 1) : s[i] = n[1 + i - 1]
    BY <1>1, <1>2, SubSeqProperties
  <2> QED
    BY <1>1, <2>1
<1> HIDE DEF s
<1>4. s = p <=> \A i \in 1..Len(p) : s[i] = p[i]
  <2>1. ASSUME \A i \in 1..Len(p) : s[i] = p[i] PROVE s = p
    BY <1>1, <1>3, <2>1, SeqEqual
  <2> QED
    BY <2>1
<1> QED
  BY <1>3, <1>4 DEF Fits, s

\* A whole id is one node's.
LEMMA OneFits ==
    ASSUME NEW n \in Uids, NEW m \in Uids, NEW p \in Seq({0, 1}), Len(p) = Bits,
           Fits(n, p), Fits(m, p)
    PROVE  n = m
<1>1. n \in [1..Bits -> {0, 1}] /\ m \in [1..Bits -> {0, 1}] /\ Bits \in Nat
  BY MasterAssumption
<1>2. \A i \in 1..Bits : n[i] = p[i] /\ m[i] = p[i]
  BY <1>1, FitsIs
<1> QED
  BY <1>1, <1>2

\* One bit deeper, a node goes one way or the other.
LEMMA Deeper ==
    ASSUME NEW n \in Uids, NEW p \in Seq({0, 1}), Len(p) < Bits, Fits(n, p)
    PROVE  Fits(n, Append(p, 0)) \/ Fits(n, Append(p, 1))
<1>1. n \in [1..Bits -> {0, 1}] /\ Bits \in Nat /\ Len(p) \in Nat
  BY MasterAssumption
<1> DEFINE b == n[Len(p) + 1]
           q == Append(p, b)
<1>2. b \in {0, 1}
  BY <1>1
<1>3. /\ q \in Seq({0, 1}) /\ Len(q) = Len(p) + 1
      /\ \A i \in 1..Len(p) : q[i] = p[i]
      /\ q[Len(p) + 1] = b
  BY <1>2, AppendProperties
<1>4. \A i \in 1..Len(p) : n[i] = p[i]
  BY <1>1, FitsIs
<1> HIDE DEF q
<1>5. \A i \in 1..Len(q) : n[i] = q[i]
  <2>1. SUFFICES ASSUME NEW i \in 1..Len(q) PROVE n[i] = q[i]
    OBVIOUS
  <2>2. i \in 1..Len(p) \/ i = Len(p) + 1
    BY <1>1, <1>3
  <2> QED
    BY <1>3, <1>4, <2>2
<1>6. Fits(n, q)
  BY <1>1, <1>3, <1>5, FitsIs
<1> QED
  BY <1>2, <1>6 DEF q

LEMMA NoneFits == ASSUME NEW n \in Uids PROVE Fits(n, <<>>)
<1> DEFINE p == <<>>
<1>1. p \in Seq({0, 1}) /\ Len(p) = 0 /\ Bits \in Nat
  BY MasterAssumption
<1> HIDE DEF p
<1>2. Len(p) <= Bits /\ \A i \in 1..Len(p) : n[i] = p[i]
  BY <1>1
<1>3. Fits(n, p) <=> \A i \in 1..Len(p) : n[i] = p[i]
  BY <1>1, <1>2, FitsIs
<1>4. Fits(n, p)
  BY <1>2, <1>3
<1> QED
  BY <1>4 DEF p

\* The prefix asked for last, and those behind it.
LEMMA Behind ==
    ASSUME NEW todo \in Seq(Seq({0, 1})), todo # <<>>
    PROVE  /\ Len(todo) \in Nat \ {0} /\ Last(todo) = todo[Len(todo)]
           /\ Last(todo) \in Seq({0, 1})
           /\ Front(todo) \in Seq(Seq({0, 1})) /\ Len(Front(todo)) = Len(todo) - 1
           /\ \A i \in 1..(Len(todo) - 1) : Front(todo)[i] = todo[i]
<1>1. Len(todo) \in Nat \ {0}
  BY EmptySeq
<1>2. todo[Len(todo)] \in Seq({0, 1})
  BY <1>1
<1> DEFINE j == Len(todo) - 1
<1>3. j \in Nat /\ \A i \in 1..j : todo[i] \in Seq({0, 1})
  BY <1>1
<1> HIDE DEF j
<1>4. /\ SubSeq(todo, 1, j) \in Seq(Seq({0, 1}))
      /\ Len(SubSeq(todo, 1, j)) = IF 1 <= j THEN j - 1 + 1 ELSE 0
      /\ \A i \in 1..(j - 1 + 1) : SubSeq(todo, 1, j)[i] = todo[1 + i - 1]
  BY <1>3, SubSeqProperties
<1>5. Len(SubSeq(todo, 1, j)) = j /\ \A i \in 1..j : SubSeq(todo, 1, j)[i] = todo[i]
  BY <1>3, <1>4
<1>6. Front(todo) = SubSeq(todo, 1, j)
  BY DEF Front, j
<1> QED
  BY <1>1, <1>2, <1>4, <1>5, <1>6 DEF Last, j

\* A prefix asked for: those behind it stay, and a collision asks for the two
\* under it.
LEMMA SplitIs ==
    ASSUME NEW todo \in Seq(Seq({0, 1})), run.todo = todo, todo # <<>>,
           \A i \in 1..Len(todo) : Len(todo[i]) <= Bits
    PROVE  LET p == Last(todo)
               split == SplitAt(p)
               front == Front(todo)
           IN /\ split \in Seq(Seq({0, 1}))
              /\ \A i \in 1..Len(split) : Len(split[i]) <= Bits
              /\ \A n \in Uids :
                    (\E i \in 1..Len(todo) : Fits(n, todo[i])) =>
                       \/ \E i \in 1..Len(front) : Fits(n, front[i])
                       \/ Fits(n, p)
              /\ \A n \in Uids :
                    (\E i \in 1..Len(front) : Fits(n, front[i])) =>
                       \E i \in 1..Len(split) : Fits(n, split[i])
              /\ Len(p) < Bits =>
                    \A n \in Uids : Fits(n, p) => \E i \in 1..Len(split) : Fits(n, split[i])
<1> DEFINE p == Last(todo)
           split == SplitAt(p)
           front == Front(todo)
           two == <<Append(p, 0), Append(p, 1)>>
<1>1. /\ Len(todo) \in Nat \ {0} /\ p = todo[Len(todo)] /\ p \in Seq({0, 1})
      /\ front \in Seq(Seq({0, 1})) /\ Len(front) = Len(todo) - 1
      /\ \A i \in 1..(Len(todo) - 1) : front[i] = todo[i]
  BY Behind
<1>2. Len(p) <= Bits /\ Len(p) \in Nat /\ Bits \in Nat
  BY <1>1, MasterAssumption
<1>3. \A i \in 1..Len(front) : Len(front[i]) <= Bits
  BY <1>1
<1>4. split = IF Len(p) < Bits THEN front \o two ELSE front
  BY DEF SplitAt
<1> HIDE DEF p, front, split
<1>5. /\ two \in Seq(Seq({0, 1})) /\ Len(two) = 2
      /\ two[1] = Append(p, 0) /\ two[2] = Append(p, 1)
      /\ Len(Append(p, 0)) = Len(p) + 1 /\ Len(Append(p, 1)) = Len(p) + 1
  <2>1. /\ Append(p, 0) \in Seq({0, 1}) /\ Append(p, 1) \in Seq({0, 1})
        /\ Len(Append(p, 0)) = Len(p) + 1 /\ Len(Append(p, 1)) = Len(p) + 1
    BY <1>1, AppendProperties
  <2> QED
    BY <2>1
<1> HIDE DEF two
<1>6. /\ front \o two \in Seq(Seq({0, 1})) /\ Len(front \o two) = Len(front) + 2
      /\ \A i \in 1..(Len(front) + 2) :
            (front \o two)[i] = IF i <= Len(front) THEN front[i] ELSE two[i - Len(front)]
  <2>1. /\ front \o two \in Seq(Seq({0, 1}))
        /\ Len(front \o two) = Len(front) + Len(two)
        /\ \A i \in 1..(Len(front) + Len(two)) :
              (front \o two)[i] = IF i <= Len(front) THEN front[i] ELSE two[i - Len(front)]
    <3>1. front \in Seq(Seq({0, 1})) /\ two \in Seq(Seq({0, 1}))
      BY <1>1, <1>5
    <3> QED
      BY <3>1, ConcatProperties
  <2> QED
    BY <1>5, <2>1
<1>7. Len(front) \in Nat
  BY <1>1
<1>8. split \in Seq(Seq({0, 1}))
  BY <1>1, <1>4, <1>6
<1>9. \A i \in 1..Len(split) : Len(split[i]) <= Bits
  <2>1. CASE Len(p) < Bits
    <3>1. SUFFICES ASSUME NEW i \in 1..(Len(front) + 2) PROVE Len((front \o two)[i]) <= Bits
      BY <1>4, <1>6, <2>1
    <3>2. CASE i <= Len(front)
      BY <1>3, <1>6, <1>7, <3>2
    <3>3. CASE ~(i <= Len(front))
      <4>1. i - Len(front) \in {1, 2}
        BY <1>7, <3>3
      <4> DEFINE x == (front \o two)[i]
      <4>2. x = Append(p, 0) \/ x = Append(p, 1)
        BY <1>5, <1>6, <3>3, <4>1
      <4>3. Len(p) + 1 <= Bits
        BY <1>2, <2>1
      <4> HIDE DEF x
      <4>4. Len(x) = Len(p) + 1
        BY <1>5, <4>2
      <4> QED
        BY <4>3, <4>4 DEF x
    <3> QED
      BY <3>2, <3>3
  <2>2. CASE ~(Len(p) < Bits)
    BY <1>3, <1>4, <2>2
  <2> QED
    BY <2>1, <2>2
<1>10. \A n \in Uids :
          (\E i \in 1..Len(todo) : Fits(n, todo[i])) =>
             \/ \E i \in 1..Len(front) : Fits(n, front[i])
             \/ Fits(n, p)
  <2>1. SUFFICES ASSUME NEW n \in Uids, NEW i \in 1..Len(todo), Fits(n, todo[i])
                 PROVE  (\E j \in 1..Len(front) : Fits(n, front[j])) \/ Fits(n, p)
    OBVIOUS
  <2>2. CASE i = Len(todo)
    BY <1>1, <2>1, <2>2
  <2>3. CASE i # Len(todo)
    <3>1. i \in 1..(Len(todo) - 1)
      BY <1>1, <2>3
    <3>2. i \in 1..Len(front) /\ front[i] = todo[i]
      BY <1>1, <3>1
    <3> QED
      BY <2>1, <3>2
  <2> QED
    BY <2>2, <2>3
<1>11. \A n \in Uids :
          (\E i \in 1..Len(front) : Fits(n, front[i])) =>
             \E i \in 1..Len(split) : Fits(n, split[i])
  <2>1. SUFFICES ASSUME NEW n \in Uids, NEW i \in 1..Len(front), Fits(n, front[i])
                 PROVE  \E j \in 1..Len(split) : Fits(n, split[j])
    OBVIOUS
  <2>2. i \in 1..Len(split) /\ split[i] = front[i]
    <3>1. CASE Len(p) < Bits
      BY <1>4, <1>6, <1>7, <3>1
    <3>2. CASE ~(Len(p) < Bits)
      BY <1>4, <3>2
    <3> QED
      BY <3>1, <3>2
  <2> QED
    BY <2>1, <2>2
<1>12. Len(p) < Bits =>
          \A n \in Uids : Fits(n, p) => \E i \in 1..Len(split) : Fits(n, split[i])
  <2>1. SUFFICES ASSUME Len(p) < Bits, NEW n \in Uids, Fits(n, p)
                 PROVE  \E i \in 1..Len(split) : Fits(n, split[i])
    OBVIOUS
  <2>2. Fits(n, Append(p, 0)) \/ Fits(n, Append(p, 1))
    BY <1>1, <2>1, Deeper
  <2> DEFINE a == Len(front) + 1
             b == Len(front) + 2
  <2>3. a \in 1..Len(split) /\ b \in 1..Len(split) /\ a - Len(front) = 1 /\ b - Len(front) = 2
    BY <1>4, <1>6, <1>7, <2>1
  <2>4. split[a] = Append(p, 0) /\ split[b] = Append(p, 1)
    BY <1>4, <1>5, <1>6, <1>7, <2>1, <2>3
  <2> QED
    BY <2>2, <2>3, <2>4
<1> QED
  BY <1>8, <1>9, <1>10, <1>11, <1>12 DEF p, front, split

\* A run past the search, or before it.
LEMMA SearchOver ==
    ASSUME run'.pc \notin {"hold", "search"}
    PROVE  SearchInv'
BY DEF SearchInv

LEMMA SendHoldSearches ==
    ASSUME MasterInv, SearchInv, SendHold
    PROVE  SearchInv'
<1> DEFINE p == <<>>
           todo == <<p>>
<1>1. PICK session \in Sessions :
          run' = [run EXCEPT !.pc = "search", !.session = session, !.todo = todo]
  BY DEF SendHold
<1>2. run.pc = "hold" /\ run \in RunState /\ run.found = {}
  BY DEF SendHold, MasterInv, TypeOK, SearchInv
<1>3. Len(p) <= Bits /\ \A n \in Uids : Fits(n, p)
  <2>1. Len(p) = 0 /\ Bits \in Nat
    BY MasterAssumption
  <2>2. \A n \in Uids : Fits(n, p)
    BY NoneFits
  <2> HIDE DEF p
  <2> QED
    BY <2>1, <2>2
<1> HIDE DEF p
<1>4. Len(todo) = 1 /\ todo[1] = p
  OBVIOUS
<1> HIDE DEF todo
<1>5. run'.pc = "search" /\ run'.todo = todo /\ run'.found = {}
  BY <1>1, <1>2 DEF RunState
<1>6. AtUnit(BlankUnit)' \subseteq Uids
  BY DEF AtUnit, Serving
<1>7. Searched'
  <2>1. \A n \in Uids : \E i \in 1..Len(todo) : Fits(n, todo[i])
    BY <1>3, <1>4
  <2> QED
    BY <1>5, <1>6, <2>1 DEF Searched
<1>8. \A i \in 1..Len(todo) : Len(todo[i]) <= Bits
  BY <1>3, <1>4
<1> QED
  BY <1>5, <1>7, <1>8 DEF SearchInv

\* Two nodes under a prefix need more bits to be told apart.
LEMMA TwoNeedBits ==
    ASSUME NEW p \in Seq({0, 1}), Len(p) <= Bits,
           NEW fits \in SUBSET Uids, \A n \in fits : Fits(n, p), Cardinality(fits) > 1
    PROVE  Len(p) < Bits
<1> SUFFICES ASSUME ~(Len(p) < Bits) PROVE FALSE
  OBVIOUS
<1>1. Len(p) = Bits
  BY MasterAssumption
<1>2. \A n, m \in fits : n = m
  BY <1>1, OneFits
<1>3. CASE fits = {}
  <2>1. Cardinality(fits) = 0
    BY <1>3, FS_EmptySet
  <2> QED
    BY <2>1
<1>4. CASE fits # {}
  <2>1. PICK n \in fits : fits = {n}
    BY <1>2, <1>4
  <2>2. Cardinality(fits) = 1
    BY <2>1, FS_Singleton
  <2> QED
    BY <2>2
<1> QED
  BY <1>3, <1>4

LEMMA WhoSearches ==
    ASSUME MasterInv, SearchInv, Who
    PROVE  SearchInv'
<1> DEFINE todo == run.todo
           p == Last(todo)
           front == Front(todo)
           split == SplitAt(p)
           blank == AtUnit(BlankUnit)
           fits == {n \in blank : Fits(n, p)}
<1>1. /\ run.pc = "search" /\ todo # <<>> /\ run \in RunState
      /\ todo \in Seq(Seq({0, 1})) /\ node' = node /\ clean \in BOOLEAN
      /\ \A i \in 1..Len(todo) : Len(todo[i]) <= Bits
      /\ run.found \in SUBSET Uids
  BY DEF Who, MasterInv, TypeOK, RunState, SearchInv
<1>2. blank \subseteq Uids /\ fits \subseteq blank
  BY DEF AtUnit, Serving
<1>3. AtUnit(BlankUnit)' = blank
  BY <1>1 DEF AtUnit, Serving
<1>4. PICK hear \in SUBSET fits :
          \/ \E n \in hear :
                /\ hear = {n}
                /\ IF host = "solo" THEN Found({n})
                   ELSE run' = [run EXCEPT !.found = @ \cup {n}, !.todo = front]
                /\ clean' = (clean /\ hear = fits)
          \/ /\ IF host = "solo" THEN Raise ELSE run' = [run EXCEPT !.todo = split]
             /\ clean' = (clean /\ hear = fits /\ Cardinality(hear) > 1)
          \/ /\ IF host = "solo" THEN Raise ELSE run' = [run EXCEPT !.todo = front]
             /\ clean' = (clean /\ fits = {})
  BY <1>1 DEF Who, RunState, Fits
<1>5. /\ Len(todo) \in Nat \ {0} /\ p = todo[Len(todo)] /\ p \in Seq({0, 1})
      /\ front \in Seq(Seq({0, 1})) /\ Len(front) = Len(todo) - 1
      /\ \A i \in 1..(Len(todo) - 1) : front[i] = todo[i]
  BY <1>1, Behind, Zenon
<1>6. /\ split \in Seq(Seq({0, 1}))
      /\ \A i \in 1..Len(split) : Len(split[i]) <= Bits
      /\ \A n \in Uids :
            (\E i \in 1..Len(todo) : Fits(n, todo[i])) =>
               \/ \E i \in 1..Len(front) : Fits(n, front[i])
               \/ Fits(n, p)
      /\ \A n \in Uids :
            (\E i \in 1..Len(front) : Fits(n, front[i])) =>
               \E i \in 1..Len(split) : Fits(n, split[i])
      /\ Len(p) < Bits =>
            \A n \in Uids : Fits(n, p) => \E i \in 1..Len(split) : Fits(n, split[i])
  BY <1>1, SplitIs, Zenon
<1> HIDE DEF front, split, p, todo
<1>7. /\ Len(p) <= Bits
      /\ \A i \in 1..Len(front) : Len(front[i]) <= Bits
  BY <1>1, <1>5
<1>8. clean => /\ run.found \subseteq blank
               /\ \A n \in blank :
                     \/ n \in run.found
                     \/ \E i \in 1..Len(front) : Fits(n, front[i])
                     \/ n \in fits
  <2>1. clean => Searched
    BY <1>1 DEF SearchInv
  <2>2. clean => /\ run.found \subseteq blank
                 /\ \A n \in blank :
                       n \in run.found \/ \E i \in 1..Len(todo) : Fits(n, todo[i])
    BY <2>1 DEF Searched, todo
  <2> QED
    BY <1>2, <1>6, <2>2
<1> HIDE DEF blank
<1>9. CASE host = "solo"
  <2>1. run'.pc \in {"assign", "raised"}
    BY <1>1, <1>4, <1>9 DEF Found, Raise, RunState
  <2> QED
    BY <2>1, SearchOver
<1>10. CASE host # "solo" /\ \E n \in hear :
                /\ hear = {n}
                /\ run' = [run EXCEPT !.found = @ \cup {n}, !.todo = front]
                /\ clean' = (clean /\ hear = fits)
  <2>1. PICK n \in hear :
                /\ hear = {n}
                /\ run' = [run EXCEPT !.found = run.found \cup {n}, !.todo = front]
                /\ clean' = (clean /\ hear = fits)
    BY <1>1, <1>10 DEF RunState
  <2>2. run'.pc = "search" /\ run'.todo = front /\ run'.found = run.found \cup {n}
    <3> DEFINE found == run.found \cup {n}
    <3>1. run' = [run EXCEPT !.found = found, !.todo = front]
      BY <2>1
    <3> HIDE DEF found
    <3>2. run'.pc = "search" /\ run'.todo = front /\ run'.found = found
      BY <1>1, <3>1 DEF RunState
    <3> QED
      BY <3>2 DEF found
  <2>3. clean' => Searched'
    BY <1>2, <1>3, <1>8, <2>1, <2>2 DEF Searched
  <2> QED
    BY <1>7, <2>2, <2>3 DEF SearchInv
<1>11. CASE host # "solo" /\ run' = [run EXCEPT !.todo = split]
               /\ clean' = (clean /\ hear = fits /\ Cardinality(hear) > 1)
  <2>1. run'.pc = "search" /\ run'.todo = split /\ run'.found = run.found
    BY <1>1, <1>11 DEF RunState
  <2>2. clean' => clean /\ hear = fits /\ Cardinality(hear) > 1
    BY <1>11
  <2>3. clean' => Len(p) < Bits
    <3>1. SUFFICES ASSUME clean' PROVE Len(p) < Bits
      OBVIOUS
    <3>2. Cardinality(fits) > 1 /\ fits \in SUBSET Uids /\ \A n \in fits : Fits(n, p)
      BY <1>2, <2>2, <3>1
    <3> HIDE DEF fits
    <3> QED
      BY <1>5, <1>7, <3>2, TwoNeedBits
  <2>4. clean' => \A n \in blank : n \in run.found \/ \E i \in 1..Len(split) : Fits(n, split[i])
    BY <1>2, <1>6, <1>8, <2>2, <2>3
  <2>5. clean' => Searched'
    BY <1>3, <1>8, <2>1, <2>2, <2>4 DEF Searched
  <2> QED
    BY <1>6, <2>1, <2>5 DEF SearchInv
<1>12. CASE host # "solo" /\ run' = [run EXCEPT !.todo = front]
               /\ clean' = (clean /\ fits = {})
  <2>1. run'.pc = "search" /\ run'.todo = front /\ run'.found = run.found
    BY <1>1, <1>12 DEF RunState
  <2>2. clean' => clean /\ fits = {}
    BY <1>12
  <2>3. clean' => Searched'
    BY <1>3, <1>8, <2>1, <2>2 DEF Searched
  <2> QED
    BY <1>7, <2>1, <2>3 DEF SearchInv
<1> QED
  BY <1>4, <1>9, <1>10, <1>11, <1>12

\* Who else moves leaves the search behind, or is no part of it.
LEMMA SearchKeeps ==
    ASSUME MasterInv, SearchInv, [Next]_vars
    PROVE  SearchInv'
<1> USE DEF MasterInv, TypeOK
<1>1. CASE SendHold
  BY <1>1, SendHoldSearches
<1>2. CASE Who
  BY <1>2, WhoSearches
<1>3. CASE SearchEnds \/ Unknown \/ SendAssign
  <2>1. run'.pc \in {"assign", "raised"}
    BY <1>3 DEF SearchEnds, Found, Unknown, SendAssign, Raise, RunState
  <2> QED
    BY <2>1, SearchOver
<1>4. CASE AssignEnds \/ SendErase \/ SendChunk
  <2>1. run'.pc \in {"erase", "stream"}
    BY <1>4 DEF AssignEnds, SendErase, SendChunk, RunState
  <2> QED
    BY <2>1, SearchOver
<1>5. CASE StreamEnds \/ AskMissing \/ Resend \/ AskVerify \/ AskSeal
  <2>1. run'.pc \notin {"hold", "search"}
    BY <1>5 DEF StreamEnds, ToUnits, AskMissing, Round, Resend, AskVerify, AskSeal, Raise, RunState
  <2> QED
    BY <2>1, SearchOver
<1>6. CASE SendGo \/ Wait
  <2>1. run'.pc \notin {"hold", "search"}
    BY <1>6 DEF SendGo, Wait, Raise, RunState
  <2> QED
    BY <2>1, SearchOver
<1>7. CASE Again
  <2>1. run'.pc = "hold" /\ run'.found = {}
    BY <1>7 DEF Again, NoRun
  <2> QED
    BY <2>1 DEF SearchInv
<1>8. CASE \E n \in Uids : Window(n) \/ Reset(n)
  <2>1. run' = run /\ clean' = FALSE
    BY <1>8 DEF Window, Reset
  <2> QED
    BY <2>1 DEF SearchInv
<1>9. CASE UNCHANGED vars
  <2>1. run' = run /\ clean' = clean /\ AtUnit(BlankUnit)' = AtUnit(BlankUnit)
    BY <1>9 DEF vars, AtUnit, Serving
  <2> QED
    BY <2>1 DEF SearchInv, Searched
<1> QED
  BY <1>1, <1>2, <1>3, <1>4, <1>5, <1>6, <1>7, <1>8, <1>9 DEF Next, Master

\* Where every node heard the hold and every answer came whole, the search
\* ends with every node at the blank unit found, however their ids collide:
\* who has not been found lies under a prefix still to be asked for, and a
\* collision is never at a whole id (enumerate_blank).
THEOREM FindsAll == Spec => []SearchFindsAll
<1>1. Init => MasterInv /\ SearchInv
  <2>1. Init => run.pc = "hold" /\ run.found = {}
    BY DEF Init, NoRun
  <2>2. run.pc = "hold" /\ run.found = {} => SearchInv
    BY DEF SearchInv
  <2> QED
    BY <2>1, <2>2, InitHolds
<1>2. (MasterInv /\ SearchInv) /\ [Next]_vars => (MasterInv /\ SearchInv)'
  BY NextKeeps, SearchKeeps
<1>3. SearchInv => SearchFindsAll
  <2>1. SUFFICES ASSUME Searched, run.todo = <<>> PROVE run.found = AtUnit(BlankUnit)
    BY DEF SearchInv, SearchFindsAll
  <2>2. Len(run.todo) = 0
    BY <2>1
  <2>3. ~(\E i \in 1..Len(run.todo) : TRUE)
    BY <2>2
  <2>4. run.found \subseteq AtUnit(BlankUnit)
    BY <2>1 DEF Searched
  <2>5. \A n \in AtUnit(BlankUnit) : n \in run.found
    BY <2>1, <2>3 DEF Searched
  <2> QED
    BY <2>4, <2>5
<1> QED
  BY <1>1, <1>2, <1>3, PTL DEF Spec

-----------------------------------------------------------------------------
(* The rounds of missing, where the table names one type.                  *)

RowTypes == {run.rows[u] : u \in DOMAIN run.rows}

Early == {"hold", "search", "assign"}
Streaming == {"erase", "stream"} \cup InTurn

\* A node that heard its erase takes chunks, of the offer alone.
Offers(o) == "erase" \in o.heard => o.state \in {ERASED, VERIFIED} /\ o.offer \in Types

\* All that has landed since is of one type.
OfType(o, T) == "erase" \in o.heard => o.offer = T /\ \A k \in o.landed : o.ram[k] = T

\* The streams are of types the rows name.
InRows ==
    /\ run.pc \in {"erase", "stream"} => run.types \subseteq RowTypes
    /\ run.pc = "stream" => run.left \subseteq RowTypes

\* What the node in hand misses is still to be sent again.
Repairs ==
    /\ run.pc = "resend" => run.left # {}
    /\ run.pc = "verify" => run.left = {}
    /\ run.pc \in {"resend", "verify"} =>
          \A n \in Uids : node[n].unit = Unit /\ {"erase", "round"} \subseteq node[n].heard
                            => Missing(node[n]) \subseteq run.left

RepairInv ==
    /\ \A n \in Uids : Offers(node[n])
    /\ run.pc \in Early => \A n \in Uids : "erase" \notin node[n].heard
    /\ InRows
    /\ \A T \in Types : RowTypes = {T} /\ run.pc \in Streaming =>
                           \A n \in Uids : OfType(node[n], T)
    /\ Repairs

\* A step of a node's that leaves what it has been offered and what landed.
Kept(o, q) ==
    "erase" \in q.heard =>
        /\ "erase" \in o.heard /\ q.state \in {o.state, VERIFIED}
        /\ q.offer = o.offer /\ q.landed = o.landed /\ q.ram = o.ram

LEMMA KeptIs ==
    ASSUME NEW o, NEW q, Kept(o, q), Offers(o)
    PROVE  Offers(q) /\ \A T \in Types : OfType(o, T) => OfType(q, T)
BY DEF Kept, Offers, OfType

LEMMA SameKept == ASSUME NEW o, NEW q, q = o PROVE Kept(o, q)
BY DEF Kept

LEMMA HearsKept ==
    ASSUME NEW o \in NodeState, NEW heard, "erase" \in heard => "erase" \in o.heard
    PROVE  Kept(o, [o EXCEPT !.heard = heard])
BY DEF Kept, NodeState

LEMMA HoldKept ==
    ASSUME NEW o \in NodeState, NEW session, Offers(o)
    PROVE  Kept(o, Hold(o, session))
<1> DEFINE state == IF o.state = BLANK THEN HELD ELSE o.state
           heard == o.heard \cup {"hold"}
           q == [o EXCEPT !.state = state, !.session = session, !.heard = heard]
<1>1. Hold(o, session) = q
  BY DEF Hold, NodeState
<1>2. "erase" \in heard => "erase" \in o.heard /\ state = o.state
  BY DEF Offers, BLANK, ERASED, VERIFIED
<1> HIDE DEF state, heard
<1>3. /\ q.heard = heard /\ q.state = state /\ q.offer = o.offer
      /\ q.landed = o.landed /\ q.ram = o.ram
  BY DEF NodeState
<1> QED
  BY <1>1, <1>2, <1>3 DEF Kept

LEMMA AssignKept ==
    ASSUME NEW o \in NodeState, NEW u, "erase" \notin o.heard
    PROVE  Kept(o, Assign(o, u))
BY DEF Assign, Kept, NodeState

LEMMA VerifyKept ==
    ASSUME NEW o \in NodeState
    PROVE  Kept(o, Verify(o))
<1> DEFINE v == o.verified /\ (o.state < ERASED \/ Missing(o) # {})
           q == [o EXCEPT !.verified = TRUE, !.state = VERIFIED]
           r == [o EXCEPT !.verified = v]
<1>1. Verify(o) = IF VerifyOk(o) THEN q ELSE r
  BY DEF Verify, NodeState
<1> HIDE DEF v
<1>2. Kept(o, q) /\ Kept(o, r)
  BY DEF Kept, NodeState
<1> QED
  BY <1>1, <1>2

LEMMA SealKept ==
    ASSUME NEW o \in NodeState
    PROVE  Kept(o, Seal(o))
<1> DEFINE store == IF Persist THEN o.offer ELSE o.store
           heard == o.heard \ {"erase", "round"}
           q == [o EXCEPT !.state = SEALED, !.named = o.offer, !.store = store,
                          !.heard = heard]
<1>1. Seal(o) = IF o.verified THEN q ELSE o
  BY DEF Seal, NodeState
<1>2. "erase" \notin heard
  OBVIOUS
<1> HIDE DEF store, heard
<1>3. q.heard = heard
  BY DEF NodeState
<1> QED
  BY <1>1, <1>2, <1>3 DEF Kept

LEMMA GoKept ==
    ASSUME NEW n \in Uids, node[n] \in NodeState, NEW session
    PROVE  Kept(node[n], Go(n, session))
<1> DEFINE o == node[n]
           heard == o.heard \cup {"go"}
           p == [o EXCEPT !.heard = heard]
           r == [p EXCEPT !.mode = "app"]
<1>1. "erase" \in heard => "erase" \in o.heard
  OBVIOUS
<1>2. Go(n, session) = IF p.session = session /\ p.state = SEALED /\ Holds(p, Board[n])
                       THEN r ELSE p
  BY DEF Go, NodeState
<1> HIDE DEF heard
<1>3. Kept(o, p) /\ Kept(o, r)
  BY <1>1 DEF Kept, NodeState
<1> QED
  BY <1>2, <1>3

\* An erase offers the whole of the image, or none of it.
LEMMA EraseOffers ==
    ASSUME NEW n \in Uids, node[n] \in NodeState, NEW t \in Types, Offers(node[n])
    PROVE  /\ Offers(Erase(n, t))
           /\ OfType(node[n], t) => OfType(Erase(n, t), t)
<1> DEFINE o == node[n]
           whole == Holds(o, t) \/ o.store = t
           landed == IF whole THEN Indices(t) ELSE {}
           ram == IF whole THEN Filled(t) ELSE Filled(None)
           heard == o.heard \cup {"erase"}
           state == IF whole THEN VERIFIED ELSE ERASED
           q == [o EXCEPT !.offer = t, !.landed = landed, !.ram = ram,
                          !.verified = whole, !.heard = heard, !.state = state]
<1>1. CASE Board[n] # t \/ o.state < ASSIGNED
  BY <1>1 DEF Erase
<1>2. CASE ~(Board[n] # t \/ o.state < ASSIGNED)
  <2>1. Erase(n, t) = q
    BY <1>2 DEF Erase, Offered, NodeState
  <2>2. state \in {ERASED, VERIFIED} /\ \A k \in landed : ram[k] = t
    BY IndicesAre DEF Filled
  <2> HIDE DEF whole, landed, ram, heard, state
  <2>3. q.offer = t /\ q.landed = landed /\ q.ram = ram /\ q.state = state
    BY DEF NodeState
  <2> QED
    BY <2>1, <2>2, <2>3 DEF Offers, OfType
<1> QED
  BY <1>1, <1>2

\* A chunk a node takes is missing no more; what else it misses it missed.
LEMMA ChunkOffers ==
    ASSUME NEW n \in Uids, NEW o \in NodeState, NEW t \in Types, NEW k, Offers(o),
           Sound(n, o)
    PROVE  LET q == Chunk(o, t, k)
           IN /\ Offers(q) /\ (OfType(o, t) => OfType(q, t))
              /\ q.unit = o.unit /\ q.heard = o.heard
              /\ "erase" \in o.heard => Missing(q) \subseteq Missing(o) \ {k}
<1> DEFINE landed == o.landed \cup {k}
           ram == [o.ram EXCEPT ![k] = t]
           q == [o EXCEPT !.ram = ram, !.landed = landed]
<1>1. CASE ~(o.state \in {ERASED, VERIFIED} /\ k \in Indices(o.offer) /\ k \notin o.landed)
  <2>1. Chunk(o, t, k) = o
    BY <1>1 DEF Chunk
  <2>2. "erase" \in o.heard => ~(k \in Indices(o.offer) /\ k \notin o.landed)
    BY <1>1 DEF Offers
  <2>3. "erase" \in o.heard => k \notin Missing(o)
    BY <2>2 DEF Missing
  <2> QED
    BY <2>1, <2>3
<1>2. CASE o.state \in {ERASED, VERIFIED} /\ k \in Indices(o.offer) /\ k \notin o.landed
  <2>1. Chunk(o, t, k) = q
    BY <1>2 DEF Chunk, NodeState
  <2>2. /\ q.landed = landed /\ q.ram = ram /\ q.offer = o.offer /\ q.state = o.state
        /\ q.unit = o.unit /\ q.heard = o.heard
    BY DEF NodeState
  <2>3. o.ram \in [Chunks -> Types \cup {None, Old}] /\ o.landed \subseteq Chunks
    BY DEF NodeState
  <2>4. "erase" \in o.heard => k \in Chunks
    <3>1. "erase" \in o.heard => o.offer \in Types
      BY DEF Offers
    <3> QED
      BY <1>2, <3>1, IndicesAre
  <2>5. OfType(o, t) => OfType(q, t)
    BY <2>2, <2>3, <2>4 DEF OfType
  <2>6. Missing(q) \subseteq Missing(o) \ {k}
    BY <2>2 DEF Missing
  <2> QED
    BY <2>1, <2>2, <2>5, <2>6 DEF Offers
<1> QED
  BY <1>1, <1>2

-----------------------------------------------------------------------------
(* The steps.                                                              *)

\* A step after the assigning, in which the nodes keep what they were offered
\* and no round is on.
LEMMA KeptSteps ==
    ASSUME RepairInv, \A n \in Uids : Kept(node[n], node'[n]),
           run'.pc \notin Early \cup {"erase", "stream", "resend", "verify"},
           run'.pc \in Streaming => run.pc \in Streaming /\ run'.rows = run.rows
    PROVE  RepairInv'
<1>1. /\ \A n \in Uids : Offers(node'[n])
      /\ \A n \in Uids : \A T \in Types : OfType(node[n], T) => OfType(node'[n], T)
  BY KeptIs DEF RepairInv
<1>2. run'.pc \in Streaming => RowTypes' = RowTypes /\ run.pc \in Streaming
  BY DEF RowTypes
<1>3. \A T \in Types : RowTypes' = {T} /\ run'.pc \in Streaming =>
                           \A n \in Uids : OfType(node'[n], T)
  <2>1. SUFFICES ASSUME NEW T \in Types, RowTypes' = {T}, run'.pc \in Streaming, NEW n \in Uids
                 PROVE  OfType(node'[n], T)
    OBVIOUS
  <2>2. OfType(node[n], T)
    BY <1>2, <2>1 DEF RepairInv
  <2> QED
    BY <1>1, <2>2
<1>4. InRows' /\ Repairs'
  BY DEF InRows, Repairs
<1> QED
  BY <1>1, <1>3, <1>4 DEF RepairInv, Offers, OfType

\* A step before it.
LEMMA EarlySteps ==
    ASSUME RepairInv, \A n \in Uids : Kept(node[n], node'[n]),
           run'.pc \in Early, \A n \in Uids : "erase" \notin node'[n].heard
    PROVE  RepairInv'
BY DEF RepairInv, Early, Streaming, InTurn, InRows, Repairs, Offers, Kept

\* A run that stays where it is, a node moving on its own.
LEMMA NodeSteps ==
    ASSUME RepairInv, run' = run,
           \A n \in Uids : node'[n] = node[n] \/ node'[n].heard = {}
                             \/ (Kept(node[n], node'[n]) /\ node'[n].unit = node[n].unit
                                   /\ node'[n].heard = node[n].heard)
    PROVE  RepairInv'
<1>1. \A n \in Uids : Kept(node[n], node'[n])
  BY DEF Kept
<1>2. /\ \A n \in Uids : Offers(node'[n])
      /\ \A n \in Uids : \A T \in Types : OfType(node[n], T) => OfType(node'[n], T)
  BY <1>1, KeptIs DEF RepairInv
<1>3. RowTypes' = RowTypes
  BY DEF RowTypes
<1>4. \A T \in Types : RowTypes' = {T} /\ run'.pc \in Streaming =>
                           \A n \in Uids : OfType(node'[n], T)
  BY <1>2, <1>3 DEF RepairInv
<1>5. InRows'
  BY <1>3 DEF RepairInv, InRows
<1>6. run'.pc \in Early => \A n \in Uids : "erase" \notin node'[n].heard
  BY <1>1 DEF RepairInv, Kept
<1>7. Repairs'
  <2>1. Unit' = Unit
    BY DEF Unit
  <2>2. run.pc \in {"resend", "verify"} =>
          \A n \in Uids : node'[n].unit = Unit /\ {"erase", "round"} \subseteq node'[n].heard
                            => Missing(node'[n]) \subseteq run.left
    <3>1. SUFFICES ASSUME run.pc \in {"resend", "verify"}, NEW n \in Uids,
                          node'[n].unit = Unit, {"erase", "round"} \subseteq node'[n].heard
                   PROVE  Missing(node'[n]) \subseteq run.left
      OBVIOUS
    <3>2. node'[n].heard = node[n].heard /\ node[n].unit = Unit
      BY <3>1
    <3>3. Missing(node'[n]) = Missing(node[n])
      BY <1>1, <3>1 DEF Kept, Missing
    <3> QED
      BY <3>1, <3>2, <3>3 DEF RepairInv, Repairs
  <2> QED
    BY <2>1, <2>2 DEF RepairInv, Repairs
<1> QED
  BY <1>2, <1>4, <1>5, <1>6, <1>7 DEF RepairInv, Offers, OfType

LEMMA NodesAre ==
    ASSUME MasterInv, RepairInv, NEW n \in Uids
    PROVE  /\ node \in [Uids -> NodeState] /\ node[n] \in NodeState /\ Sound(n, node[n])
           /\ Offers(node[n]) /\ run \in RunState
BY DEF MasterInv, TypeOK, Sounds, RepairInv

LEMMA HoldRepairs ==
    ASSUME MasterInv, RepairInv, SendHold
    PROVE  RepairInv'
<1> DEFINE After(session) == [n \in Uids |-> Hold(node[n], session)]
<1>1. PICK session \in Sessions :
          /\ Broadcast(After(session), TRUE)
          /\ run' = [run EXCEPT !.pc = "search", !.session = session, !.todo = <<<<>>>>]
  BY DEF SendHold
<1>2. run.pc = "hold" /\ run \in RunState /\ node \in [Uids -> NodeState]
  BY DEF SendHold, MasterInv, TypeOK
<1>3. run'.pc = "search"
  BY <1>1, <1>2 DEF RunState
<1>4. \A n \in Uids : node'[n] = node[n] \/ node'[n] = Hold(node[n], session)
  <2>1. \A n \in Uids : After(session)[n] = Hold(node[n], session)
    OBVIOUS
  <2> HIDE DEF After
  <2>2. \A n \in Uids : node'[n] = node[n] \/ node'[n] = After(session)[n]
    BY <1>1, <1>2, BroadcastIs
  <2> QED
    BY <2>1, <2>2
<1>5. \A n \in Uids : Kept(node[n], node'[n])
  BY <1>4, NodesAre, HoldKept, SameKept
<1>6. \A n \in Uids : "erase" \notin node'[n].heard
  BY <1>2, <1>5 DEF RepairInv, Early, Kept
<1> QED
  BY <1>3, <1>5, <1>6, EarlySteps DEF Early

\* The search, and what is noted of the found.
LEMMA SearchRepairs ==
    ASSUME MasterInv, RepairInv, Who \/ SearchEnds \/ Unknown
    PROVE  RepairInv'
<1>1. node' = node /\ run.pc \in Early /\ run \in RunState
  BY DEF Who, SearchEnds, Unknown, Early, MasterInv, TypeOK
<1>2. run'.pc \in Early \cup {"raised"}
  BY <1>1 DEF Who, SearchEnds, Unknown, Early, Found, Raise, RunState
<1>3. \A n \in Uids : Kept(node[n], node'[n]) /\ "erase" \notin node'[n].heard
  BY <1>1, SameKept DEF RepairInv
<1>4. CASE run'.pc \in Early
  BY <1>3, <1>4, EarlySteps
<1>5. CASE run'.pc = "raised"
  BY <1>3, <1>5, KeptSteps DEF Early, Streaming, InTurn
<1> QED
  BY <1>2, <1>4, <1>5

LEMMA AssignRepairs ==
    ASSUME MasterInv, RepairInv, SendAssign
    PROVE  RepairInv'
<1>1. run.pc = "assign" /\ run \in RunState /\ node \in [Uids -> NodeState]
  BY DEF SendAssign, MasterInv, TypeOK
<1>2. PICK n \in run.found \cap Known :
          LET u == Row(n).unit
              there == AtUnit(BlankUnit) \cap {n} IN
          \/ /\ n \in there
             /\ Answered(n, Assign(node[n], u))
             /\ run' = [run EXCEPT !.found = @ \ {n},
                                   !.rows = [v \in DOMAIN @ \cup {u} |->
                                                IF v = u THEN Row(n).type ELSE @[v]]]
          \/ Silent(there, [o \in Uids |-> Assign(node[o], u)]) /\ Raise
  BY DEF SendAssign
<1> DEFINE u == Row(n).unit
           there == AtUnit(BlankUnit) \cap {n}
           after == [o \in Uids |-> Assign(node[o], u)]
<1>3. run'.pc \in {"assign", "raised"}
  BY <1>1, <1>2 DEF Raise, RunState
<1>4. there \subseteq Uids
  BY DEF AtUnit, Serving
<1>5. \A m \in Uids : node'[m] = node[m] \/ node'[m] = Assign(node[m], u)
  <2>1. CASE Answered(n, Assign(node[n], u)) /\ n \in there
    BY <1>1, <1>4, <2>1, AnsweredIs
  <2>2. CASE Silent(there, after)
    <3>1. \A m \in Uids : after[m] = Assign(node[m], u)
      OBVIOUS
    <3> HIDE DEF after
    <3>2. \A m \in Uids : node'[m] = node[m] \/ (node'[m] = after[m] /\ m \in there)
      BY <1>1, <1>4, <2>2, SilentIs
    <3> QED
      BY <3>1, <3>2
  <2> QED
    BY <1>2, <2>1, <2>2
<1>6. \A m \in Uids : "erase" \notin node[m].heard
  BY <1>1 DEF RepairInv, Early
<1> HIDE DEF u
<1>7. \A m \in Uids : Kept(node[m], node'[m])
  BY <1>5, <1>6, NodesAre, AssignKept, SameKept
<1>8. \A m \in Uids : "erase" \notin node'[m].heard
  BY <1>6, <1>7 DEF Kept
<1>9. CASE run'.pc = "assign"
  BY <1>7, <1>8, <1>9, EarlySteps DEF Early
<1>10. CASE run'.pc = "raised"
  BY <1>7, <1>10, KeptSteps DEF Early, Streaming, InTurn
<1> QED
  BY <1>3, <1>9, <1>10

LEMMA AssignEndsRepairs ==
    ASSUME MasterInv, RepairInv, AssignEnds
    PROVE  RepairInv'
<1>1. /\ run.pc = "assign" /\ run \in RunState /\ node' = node
      /\ run' = [run EXCEPT !.pc = "erase", !.types = RowTypes]
  BY DEF AssignEnds, MasterInv, TypeOK, RowTypes
<1>2. run'.pc = "erase" /\ run'.types = RowTypes /\ run'.rows = run.rows
  <2> DEFINE types == RowTypes
  <2>1. run' = [run EXCEPT !.pc = "erase", !.types = types]
    BY <1>1
  <2> HIDE DEF types
  <2>2. run'.pc = "erase" /\ run'.types = types /\ run'.rows = run.rows
    BY <1>1, <2>1 DEF RunState
  <2> QED
    BY <2>2 DEF types
<1>3. InRows'
  <2>1. RowTypes' = RowTypes
    BY <1>2 DEF RowTypes
  <2> QED
    BY <1>2, <2>1 DEF InRows
<1>4. \A n \in Uids : "erase" \notin node'[n].heard
  BY <1>1 DEF RepairInv, Early
<1> QED
  BY <1>2, <1>3, <1>4 DEF RepairInv, Early, Repairs, Offers, OfType

LEMMA EraseRepairs ==
    ASSUME MasterInv, RepairInv, SendErase
    PROVE  RepairInv'
<1> DEFINE After(t) == [n \in Uids |-> Erase(n, t)]
<1>1. PICK t \in run.types :
          /\ Broadcast(After(t), clean)
          /\ run' = [run EXCEPT !.pc = "stream", !.types = @ \ {t}, !.left = {t}, !.at = 0]
  BY DEF SendErase
<1>2. /\ run.pc = "erase" /\ run \in RunState /\ node \in [Uids -> NodeState] /\ t \in Types
      /\ t \in RowTypes
  BY DEF SendErase, MasterInv, TypeOK, RunState, RepairInv, InRows
<1>3. \A n \in Uids : node'[n] = node[n] \/ node'[n] = Erase(n, t)
  <2>1. \A n \in Uids : After(t)[n] = Erase(n, t)
    OBVIOUS
  <2> HIDE DEF After
  <2>2. \A n \in Uids : node'[n] = node[n] \/ node'[n] = After(t)[n]
    BY <1>1, <1>2, BroadcastIs
  <2> QED
    BY <2>1, <2>2
<1>4. /\ run'.pc = "stream" /\ run'.types \subseteq run.types /\ run'.left = {t}
      /\ run'.rows = run.rows
  <2> DEFINE types == run.types \ {t}
             left == {t}
  <2>1. run' = [run EXCEPT !.pc = "stream", !.types = types, !.left = left, !.at = 0]
    BY <1>1, <1>2 DEF RunState
  <2>2. types \subseteq run.types
    OBVIOUS
  <2> HIDE DEF types, left
  <2>3. run'.pc = "stream" /\ run'.types = types /\ run'.left = left /\ run'.rows = run.rows
    BY <1>2, <2>1 DEF RunState
  <2> QED
    BY <2>2, <2>3 DEF left
<1>5. RowTypes' = RowTypes
  BY <1>4 DEF RowTypes
<1>6. InRows'
  BY <1>2, <1>4, <1>5 DEF InRows, RepairInv
<1>7. \A n \in Uids : Offers(node'[n]) /\ (OfType(node[n], t) => OfType(node'[n], t))
  BY <1>2, <1>3, NodesAre, EraseOffers
<1>8. \A T \in Types : RowTypes' = {T} /\ run'.pc \in Streaming =>
                           \A n \in Uids : OfType(node'[n], T)
  <2>1. SUFFICES ASSUME NEW T \in Types, RowTypes = {T}, NEW n \in Uids
                 PROVE  OfType(node'[n], T)
    BY <1>5
  <2>2. T = t /\ run.pc \in Streaming
    BY <1>2, <2>1 DEF Streaming
  <2>3. OfType(node[n], T)
    BY <2>1, <2>2 DEF RepairInv
  <2> QED
    BY <1>7, <2>2, <2>3
<1> QED
  BY <1>4, <1>6, <1>7, <1>8 DEF RepairInv, Early, Repairs, Offers, OfType

LEMMA ChunkRepairs ==
    ASSUME MasterInv, RepairInv, SendChunk
    PROVE  RepairInv'
<1> DEFINE After(t) == [n \in Uids |-> Chunk(node[n], t, run.at)]
<1>1. PICK t \in run.left :
          /\ Broadcast(After(t), clean)
          /\ run' = IF run.at + 1 < Size[t] THEN [run EXCEPT !.at = @ + 1]
                    ELSE [run EXCEPT !.pc = "erase", !.left = {}, !.at = 0]
  BY DEF SendChunk
<1>2. /\ run.pc = "stream" /\ run \in RunState /\ node \in [Uids -> NodeState] /\ t \in Types
      /\ t \in RowTypes
  BY DEF SendChunk, MasterInv, TypeOK, RunFits, RepairInv, InRows
<1>3. \A n \in Uids : node'[n] = node[n] \/ node'[n] = Chunk(node[n], t, run.at)
  <2>1. \A n \in Uids : After(t)[n] = Chunk(node[n], t, run.at)
    OBVIOUS
  <2> HIDE DEF After
  <2>2. \A n \in Uids : node'[n] = node[n] \/ node'[n] = After(t)[n]
    BY <1>1, <1>2, BroadcastIs
  <2> QED
    BY <2>1, <2>2
<1>4. /\ run'.pc \in {"stream", "erase"} /\ run'.types = run.types
      /\ run'.left \subseteq run.left /\ run'.rows = run.rows
  <2>1. CASE run' = [run EXCEPT !.at = @ + 1]
    BY <1>2, <2>1 DEF RunState
  <2>2. CASE run' = [run EXCEPT !.pc = "erase", !.left = {}, !.at = 0]
    BY <1>2, <2>2 DEF RunState
  <2> QED
    BY <1>1, <2>1, <2>2
<1>5. RowTypes' = RowTypes
  BY <1>4 DEF RowTypes
<1>6. InRows'
  BY <1>2, <1>4, <1>5 DEF InRows, RepairInv
<1>7. \A n \in Uids : Offers(node'[n]) /\ (OfType(node[n], t) => OfType(node'[n], t))
  BY <1>2, <1>3, NodesAre, ChunkOffers
<1>8. \A T \in Types : RowTypes' = {T} /\ run'.pc \in Streaming =>
                           \A n \in Uids : OfType(node'[n], T)
  <2>1. SUFFICES ASSUME NEW T \in Types, RowTypes = {T}, NEW n \in Uids
                 PROVE  OfType(node'[n], T)
    BY <1>5
  <2>2. T = t /\ run.pc \in Streaming
    BY <1>2, <2>1 DEF Streaming
  <2>3. OfType(node[n], T)
    BY <2>1, <2>2 DEF RepairInv
  <2> QED
    BY <1>7, <2>2, <2>3
<1> QED
  BY <1>4, <1>6, <1>7, <1>8 DEF RepairInv, Early, Repairs, Offers, OfType

LEMMA StreamEndsRepairs ==
    ASSUME MasterInv, RepairInv, StreamEnds
    PROVE  RepairInv'
<1>1. run.pc = "erase" /\ run \in RunState /\ node' = node /\ ToUnits(DOMAIN run.rows)
  BY DEF StreamEnds, MasterInv, TypeOK
<1>2. run'.pc \in {"go", "missing"} /\ run'.rows = run.rows
  BY <1>1 DEF ToUnits, RunState
<1>3. \A n \in Uids : Kept(node[n], node'[n])
  BY <1>1, SameKept
<1> QED
  BY <1>1, <1>2, <1>3, KeptSteps DEF Early, Streaming, InTurn

\* The node's answer is what it misses, and no other node is at its unit.
LEMMA MissingRepairs ==
    ASSUME MasterInv, RepairInv, AskMissing
    PROVE  RepairInv'
<1> DEFINE there == AtUnit(Unit)
<1>1. /\ run.pc = "missing" /\ run \in RunState /\ node \in [Uids -> NodeState]
      /\ \/ \E n \in there :
               Answered(n, RoundOf(node[n])) /\ run' = Round(Missing(node[n]))
         \/ Silent(there, node) /\ Raise
  BY DEF AskMissing, MasterInv, TypeOK
<1>2. there \subseteq Uids /\ \A n \in there : node[n].unit = Unit
  BY DEF AtUnit, Serving
<1>3. CASE Silent(there, node) /\ Raise
  <2>1. \A n \in Uids : node'[n] = node[n]
    <3>1. /\ clean' = FALSE /\ node' = [n \in Uids |-> node'[n]]
          /\ \A n \in Uids : node'[n] = node[n] \/ (node'[n] = node[n] /\ n \in there)
      BY <1>1, <1>2, <1>3, SilentIs
    <3> QED
      BY <3>1
  <2>2. run'.pc = "raised"
    BY <1>1, <1>3 DEF Raise, RunState
  <2> QED
    BY <2>1, <2>2, KeptSteps, SameKept DEF Early, Streaming, InTurn
<1>4. CASE \E n \in there :
              Answered(n, RoundOf(node[n])) /\ run' = Round(Missing(node[n]))
  <2>1. PICK n \in there : Answered(n, RoundOf(node[n])) /\ run' = Round(Missing(node[n]))
    BY <1>4
  <2> DEFINE heard == node[n].heard \cup {"round"}
             q == [node[n] EXCEPT !.heard = heard]
             left == Missing(node[n])
  <2>2. n \in Uids /\ node[n].unit = Unit /\ node[n] \in NodeState
    BY <1>1, <1>2
  <2>3. RoundOf(node[n]) = q /\ ("erase" \in heard => "erase" \in node[n].heard)
    BY <2>2 DEF RoundOf, NodeState
  <2> HIDE DEF heard
  <2>4. /\ q.unit = node[n].unit /\ q.landed = node[n].landed /\ q.offer = node[n].offer
        /\ Kept(node[n], q)
    BY <2>2, <2>3, HearsKept DEF NodeState
  <2> HIDE DEF q
  <2>5. node'[n] = q /\ \A m \in Uids \ {n} : node'[m] = node[m]
    BY <1>1, <2>1, <2>2, <2>3, AnsweredIs
  <2>6. \A m \in Uids : Kept(node[m], node'[m]) /\ node'[m].unit = node[m].unit
    BY <2>4, <2>5, SameKept
  <2> HIDE DEF left
  <2>7. /\ run'.pc = (IF left = {} THEN "verify" ELSE "resend") /\ run'.left = left
        /\ run'.rows = run.rows /\ run'.units = run.units
    BY <1>1, <2>1 DEF Round, RunState, left
  <2>8. RowTypes' = RowTypes /\ Unit' = Unit
    BY <2>7 DEF RowTypes, Unit
  <2>9. /\ \A m \in Uids : Offers(node'[m])
        /\ \A m \in Uids : \A T \in Types : OfType(node[m], T) => OfType(node'[m], T)
    BY <2>6, KeptIs DEF RepairInv
  <2>10. \A T \in Types : RowTypes' = {T} /\ run'.pc \in Streaming =>
                             \A m \in Uids : OfType(node'[m], T)
    <3>1. SUFFICES ASSUME NEW T \in Types, RowTypes = {T}, NEW m \in Uids
                   PROVE  OfType(node'[m], T)
      BY <2>8
    <3>2. run.pc \in Streaming
      BY <1>1 DEF Streaming, InTurn
    <3>3. OfType(node[m], T)
      BY <3>1, <3>2 DEF RepairInv
    <3> QED
      BY <2>9, <3>3
  <2>11. Unit # BlankUnit
    <3>1. Unit \in run.units /\ run.units \subseteq Given
      BY <1>1, ThroughIs DEF InTurn, RunState
    <3> QED
      BY <3>1, GivenAre
  <2>12. Repairs'
    <3>1. \A m \in Uids : node'[m].unit = Unit => m = n
      BY <2>2, <2>6, <2>11, OneAtUnit
    <3>2. Missing(node'[n]) = left
      BY <2>4, <2>5 DEF Missing, left
    <3> QED
      BY <2>2, <2>7, <2>8, <3>1, <3>2 DEF Repairs
  <2>13. run'.pc \notin Early \cup {"erase", "stream"}
    BY <2>7 DEF Early
  <2>14. InRows'
    BY <2>13 DEF InRows
  <2> QED
    BY <2>9, <2>10, <2>12, <2>13, <2>14 DEF RepairInv, Offers, OfType
<1> QED
  BY <1>1, <1>3, <1>4

\* A node whose round is still on has heard the chunk.
LEMMA ResendRepairs ==
    ASSUME MasterInv, RepairInv, Resend
    PROVE  RepairInv'
<1> DEFINE k == Min(run.left)
           Less(n) == [node[n] EXCEPT !.heard = node[n].heard \ {"round"}]
           left == run.left \ {k}
           pc == IF run.left # {k} THEN "resend"
                 ELSE IF run.round < Rounds THEN "missing" ELSE "verify"
<1>1. /\ run.pc = "resend" /\ run \in RunState /\ node \in [Uids -> NodeState]
      /\ \A n \in Uids : node[n] \in NodeState
  BY DEF Resend, MasterInv, TypeOK
<1>2. /\ \A n \in Uids : node'[n] = Chunk(node[n], Image, k) \/ node'[n] = Less(n)
      /\ run' = [run EXCEPT !.left = left, !.pc = pc]
  <2>1. PICK hear \in SUBSET Serving :
          /\ node' = [n \in Uids |->
                        IF n \in hear THEN [m \in Uids |-> Chunk(node[m], Image, k)][n]
                        ELSE [node[n] EXCEPT !.heard = @ \ {"round"}]]
          /\ run' = [run EXCEPT !.left = @ \ {k},
                                !.pc = IF run.left # {k} THEN "resend"
                                       ELSE IF run.round < Rounds THEN "missing" ELSE "verify"]
    BY DEF Resend
  <2>2. \A n \in Uids : [node[n] EXCEPT !.heard = @ \ {"round"}] = Less(n)
    BY <1>1 DEF NodeState
  <2>3. \A n \in Uids : node'[n] = Chunk(node[n], Image, k) \/ node'[n] = Less(n)
    BY <2>1, <2>2
  <2>4. run' = [run EXCEPT !.left = left, !.pc = pc]
    BY <1>1, <2>1 DEF RunState
  <2> QED
    BY <2>3, <2>4
<1>3. /\ pc = "resend" => left # {}
      /\ pc = "verify" => left = {}
      /\ pc \in {"resend", "missing", "verify"}
  <2>1. run.left # {}
    BY <1>1 DEF RepairInv, Repairs
  <2> QED
    BY <2>1
<1>4. /\ run'.pc = pc /\ run'.left = left
      /\ run'.rows = run.rows /\ run'.units = run.units
  <2> HIDE DEF pc, left
  <2> QED
    BY <1>1, <1>2 DEF RunState
<1>5. RowTypes' = RowTypes /\ Unit' = Unit
  BY <1>4 DEF RowTypes, Unit
<1>6. Image \in RowTypes /\ Image \in Types
  <2>1. Unit \in DOMAIN run.rows
    BY <1>1, ThroughIs DEF InTurn, MasterInv, RunFits
  <2>2. run.rows \in [DOMAIN run.rows -> Types]
    BY <1>1, RowsAre DEF RunState
  <2> QED
    BY <2>1, <2>2 DEF Image, RowTypes
<1> DEFINE image == Image
<1> HIDE DEF k, pc
<1>7. \A n \in Uids :
         /\ Offers(node'[n]) /\ (OfType(node[n], image) => OfType(node'[n], image))
         /\ node'[n].unit = Unit /\ {"erase", "round"} \subseteq node'[n].heard
               => Missing(node'[n]) \subseteq left
  <2> SUFFICES ASSUME NEW n \in Uids
               PROVE  /\ Offers(node'[n]) /\ (OfType(node[n], image) => OfType(node'[n], image))
                      /\ node'[n].unit = Unit /\ {"erase", "round"} \subseteq node'[n].heard
                            => Missing(node'[n]) \subseteq left
    OBVIOUS
  <2>1. node[n] \in NodeState /\ Sound(n, node[n]) /\ Offers(node[n]) /\ image \in Types
    BY <1>6, NodesAre
  <2> HIDE DEF image
  <2>2. CASE node'[n] = Chunk(node[n], image, k)
    <3> DEFINE q == Chunk(node[n], image, k)
    <3>1. /\ Offers(q) /\ (OfType(node[n], image) => OfType(q, image))
          /\ q.unit = node[n].unit /\ q.heard = node[n].heard
          /\ "erase" \in node[n].heard => Missing(q) \subseteq Missing(node[n]) \ {k}
      BY <2>1, ChunkOffers
    <3> HIDE DEF q
    <3>2. node'[n] = q
      BY <2>2 DEF q
    <3>3. node[n].unit = Unit /\ {"erase", "round"} \subseteq node[n].heard
            => Missing(node[n]) \subseteq run.left
      BY <1>1 DEF RepairInv, Repairs
    <3> QED
      BY <3>1, <3>2, <3>3
  <2>3. CASE node'[n] = Less(n)
    <3> DEFINE heard == node[n].heard \ {"round"}
    <3>1. "round" \notin heard /\ ("erase" \in heard => "erase" \in node[n].heard)
      OBVIOUS
    <3> HIDE DEF heard
    <3>2. node'[n].heard = heard /\ Kept(node[n], node'[n])
      BY <2>1, <2>3, <3>1, HearsKept DEF NodeState, heard
    <3>3. Offers(node'[n]) /\ (OfType(node[n], image) => OfType(node'[n], image))
      BY <2>1, <3>2, KeptIs
    <3> QED
      BY <3>1, <3>2, <3>3
  <2> QED
    BY <1>2, <2>2, <2>3 DEF image
<1>8. \A T \in Types : RowTypes' = {T} /\ run'.pc \in Streaming =>
                           \A n \in Uids : OfType(node'[n], T)
  <2>1. SUFFICES ASSUME NEW T \in Types, RowTypes = {T}, NEW n \in Uids
                 PROVE  OfType(node'[n], T)
    BY <1>5
  <2>2. T = image /\ run.pc \in Streaming
    BY <1>1, <1>6, <2>1 DEF Streaming, InTurn
  <2>3. OfType(node[n], T)
    BY <2>1, <2>2 DEF RepairInv
  <2> QED
    BY <1>7, <2>2, <2>3
<1>9. Repairs'
  BY <1>3, <1>4, <1>5, <1>7 DEF Repairs
<1>10. run'.pc \notin Early \cup {"erase", "stream"}
  BY <1>3, <1>4 DEF Early
<1>11. InRows'
  BY <1>10 DEF InRows
<1> QED
  BY <1>7, <1>8, <1>9, <1>10, <1>11 DEF RepairInv, Offers, OfType

LEMMA VerifyRepairs ==
    ASSUME MasterInv, RepairInv, AskVerify
    PROVE  RepairInv'
<1> DEFINE there == AtUnit(Unit)
           after == [n \in Uids |-> Verify(node[n])]
<1>1. /\ run.pc = "verify" /\ run \in RunState /\ node \in [Uids -> NodeState]
      /\ there \subseteq Uids
      /\ \/ \E n \in there : Answered(n, Verify(node[n]))
         \/ Silent(there, after)
  BY DEF AskVerify, MasterInv, TypeOK, AtUnit, Serving
<1>2. run'.pc \in {"seal", "raised"} /\ run'.rows = run.rows
  BY <1>1 DEF AskVerify, Raise, RunState
<1>3. \A n \in Uids : node'[n] = node[n] \/ node'[n] = Verify(node[n])
  <2>1. CASE \E n \in there : Answered(n, Verify(node[n]))
    BY <1>1, <2>1, AnsweredIs
  <2>2. CASE Silent(there, after)
    <3>1. \A m \in Uids : after[m] = Verify(node[m])
      OBVIOUS
    <3> HIDE DEF after
    <3>2. \A m \in Uids : node'[m] = node[m] \/ (node'[m] = after[m] /\ m \in there)
      BY <1>1, <2>2, SilentIs
    <3> QED
      BY <3>1, <3>2
  <2> QED
    BY <1>1, <2>1, <2>2
<1>4. \A n \in Uids : Kept(node[n], node'[n])
  BY <1>3, NodesAre, VerifyKept, SameKept
<1> QED
  BY <1>1, <1>2, <1>4, KeptSteps DEF Early, Streaming, InTurn

LEMMA SealRepairs ==
    ASSUME MasterInv, RepairInv, AskSeal
    PROVE  RepairInv'
<1> DEFINE there == AtUnit(Unit)
           after == [n \in Uids |-> Seal(node[n])]
<1>1. /\ run.pc = "seal" /\ run \in RunState /\ node \in [Uids -> NodeState]
      /\ there \subseteq Uids
      /\ \/ \E n \in there : Answered(n, Seal(node[n]))
         \/ Silent(there, after)
  BY DEF AskSeal, MasterInv, TypeOK, AtUnit, Serving
<1>2. run'.pc \in {"go", "missing", "raised"} /\ run'.rows = run.rows
  BY <1>1 DEF AskSeal, ToUnits, Raise, RunState
<1>3. \A n \in Uids : node'[n] = node[n] \/ node'[n] = Seal(node[n])
  <2>1. CASE \E n \in there : Answered(n, Seal(node[n]))
    BY <1>1, <2>1, AnsweredIs
  <2>2. CASE Silent(there, after)
    <3>1. \A m \in Uids : after[m] = Seal(node[m])
      OBVIOUS
    <3> HIDE DEF after
    <3>2. \A m \in Uids : node'[m] = node[m] \/ (node'[m] = after[m] /\ m \in there)
      BY <1>1, <2>2, SilentIs
    <3> QED
      BY <3>1, <3>2
  <2> QED
    BY <1>1, <2>1, <2>2
<1>4. \A n \in Uids : Kept(node[n], node'[n])
  BY <1>3, NodesAre, SealKept, SameKept
<1> QED
  BY <1>1, <1>2, <1>4, KeptSteps DEF Early, Streaming, InTurn

LEMMA GoRepairs ==
    ASSUME MasterInv, RepairInv, SendGo
    PROVE  RepairInv'
<1> DEFINE after == [n \in Uids |-> Go(n, run.session)]
<1>1. /\ run.pc = "go" /\ run \in RunState /\ node \in [Uids -> NodeState]
      /\ Broadcast(after, clean)
  BY DEF SendGo, MasterInv, TypeOK
<1>2. run'.pc \in {"wait", "done"}
  BY <1>1 DEF SendGo, RunState
<1>3. \A n \in Uids : node'[n] = node[n] \/ node'[n] = Go(n, run.session)
  <2>1. \A n \in Uids : after[n] = Go(n, run.session)
    OBVIOUS
  <2> HIDE DEF after
  <2>2. \A n \in Uids : node'[n] = node[n] \/ node'[n] = after[n]
    BY <1>1, BroadcastIs
  <2> QED
    BY <2>1, <2>2
<1>4. \A n \in Uids : Kept(node[n], node'[n])
  BY <1>3, NodesAre, GoKept, SameKept
<1> QED
  BY <1>2, <1>4, KeptSteps DEF Early, Streaming, InTurn

LEMMA WaitRepairs ==
    ASSUME MasterInv, RepairInv, Wait
    PROVE  RepairInv'
<1>1. node' = node /\ run \in RunState
  BY DEF Wait, MasterInv, TypeOK
<1>2. run'.pc \in {"done", "raised"}
  BY <1>1 DEF Wait, Raise, RunState
<1>3. \A n \in Uids : Kept(node[n], node'[n])
  BY <1>1, SameKept
<1> QED
  BY <1>2, <1>3, KeptSteps DEF Early, Streaming, InTurn

LEMMA AgainRepairs ==
    ASSUME MasterInv, RepairInv, Again
    PROVE  RepairInv'
<1>1. run'.pc = "hold" /\ node' = [n \in Uids |-> [node[n] EXCEPT !.heard = {}]]
  BY DEF Again, NoRun
<1>2. \A n \in Uids : node'[n].heard = {}
  BY <1>1, NodesAre DEF NodeState
<1>3. \A n \in Uids : Kept(node[n], node'[n]) /\ "erase" \notin node'[n].heard
  BY <1>2 DEF Kept
<1> QED
  BY <1>1, <1>3, EarlySteps DEF Early

LEMMA AloneRepairs ==
    ASSUME MasterInv, RepairInv, NEW n \in Uids, Window(n) \/ Reset(n)
    PROVE  RepairInv'
<1>1. run' = run /\ node \in [Uids -> NodeState] /\ node[n] \in NodeState
  BY DEF Window, Reset, MasterInv, TypeOK
<1>2. \A m \in Uids \ {n} : node'[m] = node[m]
  BY <1>1 DEF Window, Reset
<1>3. CASE Window(n)
  <2> DEFINE store == node[n].store
             q == [node[n] EXCEPT !.mode = "app", !.named = store]
  <2>1. node'[n] = q
    BY <1>1, <1>3 DEF Window
  <2> HIDE DEF store
  <2>2. Kept(node[n], q) /\ q.unit = node[n].unit /\ q.heard = node[n].heard
    BY <1>1 DEF Kept, NodeState
  <2> QED
    BY <1>1, <1>2, <2>1, <2>2, NodeSteps
<1>4. CASE Reset(n)
  <2>1. PICK ready \in BOOLEAN :
            node' = [node EXCEPT ![n] = Fresh(@.store, ready /\ @.store # None)]
    BY <1>4 DEF Reset
  <2>2. node'[n].heard = {}
    BY <1>1, <2>1 DEF Fresh
  <2> QED
    BY <1>1, <1>2, <2>2, NodeSteps
<1> QED
  BY <1>3, <1>4

LEMMA RepairKeeps ==
    ASSUME MasterInv, RepairInv, [Next]_vars
    PROVE  RepairInv'
<1>1. CASE Master
  BY <1>1, HoldRepairs, SearchRepairs, AssignRepairs, AssignEndsRepairs, EraseRepairs,
     ChunkRepairs, StreamEndsRepairs, MissingRepairs, ResendRepairs, VerifyRepairs,
     SealRepairs, GoRepairs, WaitRepairs DEF Master
<1>2. CASE Again
  BY <1>2, AgainRepairs
<1>3. CASE \E n \in Uids : Window(n) \/ Reset(n)
  BY <1>3, AloneRepairs
<1>4. CASE UNCHANGED vars
  <2>1. run' = run /\ node' = node
    BY <1>4 DEF vars
  <2> QED
    BY <2>1, NodeSteps
<1> QED
  BY <1>1, <1>2, <1>3, <1>4 DEF Next

\* The types of one row or of several alike are one type.
LEMMA OneType ==
    ASSUME MasterInv, Cardinality(RowTypes) = 1
    PROVE  \E T \in Types : RowTypes = {T}
<1>1. DOMAIN run.rows \in SUBSET Given /\ run.rows \in [DOMAIN run.rows -> Types]
  <2>1. run.rows \in Rows
    BY DEF MasterInv, TypeOK, RunState
  <2> QED
    BY <2>1, RowsAre
<1>2. IsFiniteSet(DOMAIN run.rows)
  <2>1. IsFiniteSet(1..246)
    <3>1. 1 \in Int /\ 246 \in Int
      OBVIOUS
    <3> QED
      BY <3>1, FS_Interval, ZenonT(40)
  <2> QED
    BY <1>1, <2>1, GivenAre, FS_Subset
<1>3. IsFiniteSet(RowTypes)
  <2>1. /\ run.rows \in [DOMAIN run.rows -> RowTypes]
        /\ \A T \in RowTypes : \E u \in DOMAIN run.rows : run.rows[u] = T
    BY <1>1 DEF RowTypes
  <2>2. run.rows \in Surjection(DOMAIN run.rows, RowTypes)
    BY <2>1, Zenon DEF Surjection
  <2> QED
    BY <1>2, <2>2, FS_Surjection
<1>4. PICK T : RowTypes = {T}
  BY <1>3, FS_Singleton
<1>5. T \in RowTypes /\ RowTypes \subseteq Types
  BY <1>1, <1>4 DEF RowTypes
<1> QED
  BY <1>4, <1>5

LEMMA RepairsAre ==
    ASSUME MasterInv, RepairInv
    PROVE  OneTypeRepairs
<1>1. SUFFICES ASSUME Cardinality(RowTypes) = 1, run.pc = "verify", NEW n \in AtUnit(Unit),
                      {"erase", "round"} \subseteq node[n].heard
               PROVE  VerifyOk(node[n])
  BY DEF OneTypeRepairs, RoundsRepair, RowTypes
<1>2. n \in Uids /\ node[n].unit = Unit
  BY DEF AtUnit, Serving
<1>3. PICK T \in Types : RowTypes = {T}
  BY <1>1, OneType
<1>4. Missing(node[n]) = {}
  BY <1>1, <1>2 DEF RepairInv, Repairs
<1>5. OfType(node[n], T) /\ Offers(node[n])
  BY <1>1, <1>2, <1>3 DEF RepairInv, Streaming, InTurn
<1>6. /\ node[n].offer = T /\ node[n].state >= ERASED
      /\ \A k \in node[n].landed : node[n].ram[k] = T
  BY <1>1, <1>5 DEF OfType, Offers, ERASED, VERIFIED
<1>7. Indices(T) \subseteq node[n].landed
  BY <1>3, <1>4, <1>6, IndicesAre DEF Missing
<1> QED
  BY <1>4, <1>6, <1>7 DEF VerifyOk, Holds

\* Where the rows name one type, a node that heard its erase and every chunk
\* of its last round of missing sums its image right, whatever it and the other
\* nodes lost before: what it misses is within what is still to be sent, and
\* all that landed is of that type (Master.run's rounds, h_boot_chunk).
THEOREM RoundsRepairOne == Spec => []OneTypeRepairs
<1>1. Init => MasterInv /\ RepairInv
  <2>1. Init => run.pc = "hold"
    BY DEF Init, NoRun
  <2>2. MasterInv /\ run.pc = "hold" => RepairInv
    BY DEF MasterInv, Listens, RepairInv, Offers, InRows, Repairs, Streaming, InTurn
  <2> QED
    BY <2>1, <2>2, InitHolds
<1>2. (MasterInv /\ RepairInv) /\ [Next]_vars => (MasterInv /\ RepairInv)'
  BY NextKeeps, RepairKeeps
<1>3. MasterInv /\ RepairInv => OneTypeRepairs
  BY RepairsAre
<1> QED
  BY <1>1, <1>2, <1>3, PTL DEF Spec

=============================================================================
