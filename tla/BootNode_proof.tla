--------------------------- MODULE BootNode_proof ---------------------------
(***************************************************************************)
(* The bootloader's node for any images, sizes, records, units and         *)
(* sessions: IInv holds in every reachable state, and with it what a jump  *)
(* rests on.  One lemma per action, with a step per conjunct the action    *)
(* can disturb and one for those it leaves alone.                          *)
(***************************************************************************)
EXTENDS BootNode, Integers, FiniteSetTheorems, TLAPS

-----------------------------------------------------------------------------
(* Counting chunks.                                                        *)

\* The bitmap of image i has Size[i] chunks.
LEMMA IndicesCount ==
    ASSUME NEW i \in Images
    PROVE  IsFiniteSet(Indices(i)) /\ Cardinality(Indices(i)) = Size[i]
<1>1. Size[i] \in Nat /\ Size[i] > 0
  BY ImagesAssumption
<1>2. 0 \in Int /\ Size[i] - 1 \in Int /\ ~(0 > Size[i] - 1)
  BY <1>1
<1>3. /\ IsFiniteSet(0..(Size[i] - 1))
      /\ Cardinality(0..(Size[i] - 1)) = (Size[i] - 1) - 0 + 1
  BY <1>2, FS_Interval
<1> QED
  BY <1>1, <1>3 DEF Indices

\* As many chunks landed as the image has: all of them.
LEMMA AllLanded ==
    ASSUME NEW i \in Images, NEW S \in SUBSET Indices(i),
           Cardinality(S) = Size[i]
    PROVE  S = Indices(i)
BY IndicesCount, FS_Subset

\* A chunk not seen before adds one to the count.
LEMMA OneMore ==
    ASSUME NEW i \in Images, NEW S \in SUBSET Indices(i), NEW n, n \notin S
    PROVE  Cardinality(S \cup {n}) = Cardinality(S) + 1
BY IndicesCount, FS_Subset, FS_AddElement

\* An erase that clears leaves no chunk landed.
LEMMA NoneLanded == Cardinality({}) = 0
BY FS_EmptySet

-----------------------------------------------------------------------------
(* Types of the two records, field by field.                               *)

LEMMA States == {BLANK, HELD, ASSIGNED, ERASED, VERIFIED, SEALED} \subseteq BLANK..SEALED
BY DEF BLANK, HELD, ASSIGNED, ERASED, VERIFIED, SEALED

LEMMA CoreFields ==
    ASSUME NEW c \in CoreState
    PROVE  /\ \A v \in BLANK..SEALED : [c EXCEPT !.state = v] \in CoreState
           /\ \A v \in Nat : [c EXCEPT !.session = v] \in CoreState
           /\ \A v \in Units \cup {BlankUnit} : [c EXCEPT !.unit = v] \in CoreState
           /\ \A v \in Images \cup {None} : [c EXCEPT !.offer = v] \in CoreState
           /\ \A v \in SUBSET Index : [c EXCEPT !.landed = v] \in CoreState
           /\ \A v \in Nat : [c EXCEPT !.held = v] \in CoreState
           /\ \A v \in Images \cup {None} : [c EXCEPT !.first = v] \in CoreState
           /\ \A v \in Records \cup {None} : [c EXCEPT !.record = v] \in CoreState
           /\ \A v \in BOOLEAN : [c EXCEPT !.verified = v] \in CoreState
           /\ \A v \in BOOLEAN : [c EXCEPT !.go = v] \in CoreState
           /\ \A v \in Images \cup {None} : [c EXCEPT !.run = v] \in CoreState
BY DEF CoreState

LEMMA JobFields ==
    ASSUME NEW j \in JobState
    PROVE  \A v \in Nat : [j EXCEPT !.at = v] \in JobState
BY DEF JobState

LEMMA Jobs ==
    ASSUME NEW step \in {"idle", "copy", "first"} \cup FlashSteps,
           NEW image \in Images \cup {None}, NEW persist \in BOOLEAN
    PROVE  Job(step, image, persist) \in JobState
BY DEF JobState, Job

LEMMA IdleJob == Idle \in JobState
BY DEF Idle, Job, JobState

LEMMA StepOK ==
    ASSUME job \in JobState, NEW name \in {"first"} \cup FlashSteps
    PROVE  Step(name) \in JobState
<1>1. job.persist \in BOOLEAN
  BY DEF JobState
<1> QED
  BY <1>1, Jobs DEF Step

LEMMA SealedOK ==
    ASSUME s \in CoreState, NEW c \in CoreState
    PROVE  Sealed(c) \in CoreState
<1>1. s.offer \in Images \cup {None}
  BY DEF CoreState
<1> QED
  BY <1>1, CoreFields, States DEF Sealed

\* An image fits the slots and the bitmap, and its content is content.
LEMMA ImageTypes ==
    ASSUME NEW i \in Images
    PROVE  /\ Size[i] \in Nat /\ Size[i] \in Slots
           /\ SlotsOf(i) \subseteq Slots
           /\ Indices(i) \in SUBSET Index
           /\ i \in Content
BY ImagesAssumption DEF Slots, SlotsOf, Indices, Index, Content

LEMMA ClearedOK ==
    ASSUME ram \in [Slots -> Content], NEW i \in Images
    PROVE  Cleared(i) \in [Slots -> Content]
BY DEF Cleared, Content

LEMMA BootInitOK == BootInit \in CoreState
BY States DEF BootInit, CoreState

\* What a cut operation leaves in flash is of the flash's types.
CutTypes ==
    /\ seal \in Content
    /\ copy \in [Slots -> Content]
    /\ sector \in Records \cup {Erased, Torn}
    /\ halved \in BOOLEAN

LEMMA CutShortOK ==
    ASSUME IInv, CutShort
    PROVE  CutTypes'
<1>1. CutTypes
  BY DEF IInv, TypeOK, CutTypes
<1>2. CASE job.step = "record_erase"
  BY <1>1, <1>2 DEF CutShort, CutTypes
<1>3. CASE job.step = "record_program"
  <2>1. s.record \in Records
    BY <1>3 DEF IInv, TypeOK, CoreState, Phases
  <2> QED
    BY <1>1, <1>3, <2>1 DEF CutShort, CutTypes
<1>4. CASE job.step = "store_erase"
  <2>1. PICK gone, broken \in SUBSET SectorSlots(job.at) :
           copy' = [k \in Slots |-> IF k \in broken THEN Torn
                                    ELSE IF k \in gone THEN Erased ELSE copy[k]]
    BY <1>4 DEF CutShort
  <2>2. copy' \in [Slots -> Content]
    BY <1>1, <2>1 DEF CutTypes, Content
  <2>3. seal' \in {seal, Erased, Torn} /\ halved' \in BOOLEAN /\ sector' = sector
    BY <1>1, <1>4 DEF CutShort, CutTypes
  <2> QED
    BY <1>1, <2>2, <2>3 DEF CutTypes, Content
<1>5. CASE job.step = "store_word"
  <2>1. job.at \in Slots
    BY <1>5, ImageTypes DEF IInv, Phases, Bitmap, Persisting, SealSteps, FlashSteps
  <2>2. ram[job.at] \in Content /\ copy[job.at] \in Content
    BY <2>1 DEF IInv, TypeOK
  <2> QED
    BY <1>1, <1>5, <2>2 DEF CutShort, CutTypes, Content
<1>6. CASE job.step = "store_seal"
  <2>1. s.offer \in Images
    BY <1>6 DEF IInv, Phases, Bitmap, SealSteps, FlashSteps
  <2> QED
    BY <1>1, <1>6, <2>1 DEF CutShort, CutTypes, Content
<1>7. CASE job.step \notin FlashSteps
  BY <1>1, <1>7 DEF CutShort, CutTypes, FlashSteps, flash
<1> QED
  BY <1>2, <1>3, <1>4, <1>5, <1>6, <1>7 DEF FlashSteps

\* An assigned node hands over a unit a host assigned, never BOOT_UNIT.
LEMMA HandOverOK ==
    ASSUME IInv, HandOver
    PROVE  slot' \in [magic : BOOLEAN, stay : BOOLEAN, unit : Units \cup {0},
                      image : Images \cup {None}]
BY DEF HandOver, IInv, TypeOK, CoreState, Addressed

-----------------------------------------------------------------------------
(* Every step keeps the invariant.                                         *)


\* hold: a blank node is held, so its window no longer jumps.
LEMMA HoldKeeps ==
    ASSUME NEW session \in Sessions,
           IInv, Hold(session)
    PROVE  IInv'
<1>1. TypeOK'
  <2>1. s' \in CoreState
    BY ImagesAssumption, CoreFields, States, ZenonT(40) DEF Hold, IInv, TypeOK
  <2> QED
    BY <2>1, ImagesAssumption DEF Hold, IInv, TypeOK, flash
<1>2. Addressed'
  BY SMTT(20) DEF Hold, IInv, Addressed, Hears, BLANK, HELD, ASSIGNED
<1>3. JumpsWhole'
  BY SMTT(20) DEF Hold, IInv, JumpsWhole, RunsWhole, Hears
<1>4. /\ Phases' /\ Bitmap' /\ RamMatches' /\ Copying'
      /\ Persisting' /\ SealNamesWholeCopy' /\ WindowRunsWhole'
  BY SMTT(20) DEF Hold, IInv, Phases, Bitmap, RamMatches, Copying, Persisting,
       SealNamesWholeCopy, RunsWhole, WindowRunsWhole, ImageCrcIs, flash,
       Listens, Hears, HELD, ERASED, VERIFIED, SEALED
<1> QED
  BY <1>1, <1>2, <1>3, <1>4 DEF IInv

\* assign: the verified image stays verified behind the new state.
LEMMA AssignKeeps ==
    ASSUME NEW unit \in Units,
           IInv, Assign(unit)
    PROVE  IInv'
<1>1. TypeOK'
  <2>1. s' \in CoreState
    BY ImagesAssumption, CoreFields, States DEF Assign, IInv, TypeOK
  <2> QED
    BY <2>1, ImagesAssumption DEF Assign, IInv, TypeOK, flash
<1>2. Addressed'
  BY SMTT(20) DEF Assign, IInv, Addressed, ASSIGNED
<1>3. Bitmap'
  BY SMTT(20) DEF Assign, IInv, Bitmap, ASSIGNED, ERASED, VERIFIED
<1>4. JumpsWhole'
  BY SMTT(20) DEF Assign, IInv, JumpsWhole, RunsWhole, Hears, BLANK, ASSIGNED
<1>5. /\ Phases' /\ RamMatches' /\ Copying' /\ Persisting'
      /\ SealNamesWholeCopy' /\ WindowRunsWhole'
  BY SMTT(20) DEF Assign, IInv, Phases, RamMatches, Copying, Persisting,
       SealNamesWholeCopy, RunsWhole, WindowRunsWhole, ImageCrcIs, flash,
       Listens, Hears, ASSIGNED, ERASED, SEALED
<1> QED
  BY <1>1, <1>2, <1>3, <1>4, <1>5 DEF IInv

\* erase of the image RAM holds: it is verified at once.
LEMMA EraseKeepsKeeps ==
    ASSUME NEW i \in Images,
           IInv, Erase(i), EraseKeeps(i)
    PROVE  IInv'
<1>1. TypeOK'
  <2>1. s' \in CoreState
    BY ImageTypes, CoreFields, States DEF EraseKeeps, Offered, IInv, TypeOK
  <2> QED
    BY <2>1 DEF Erase, EraseKeeps, IInv, TypeOK, flash
<1>2. Addressed'
  BY SMTT(20) DEF Erase, EraseKeeps, IInv, Addressed, Offered, ASSIGNED,
       VERIFIED
<1>3. Bitmap'
  BY IndicesCount, SMTT(20) DEF EraseKeeps, Bitmap, Offered
<1>4. RamMatches'
  BY ImagesAssumption, SMTT(20) DEF EraseKeeps, IInv, RamMatches, ShapeOk,
       ImageCrcIs, ImageHeld, VERIFIED, SEALED, Offered
<1>5. JumpsWhole'
  BY SMTT(20) DEF Erase, EraseKeeps, IInv, JumpsWhole, RunsWhole, Hears,
       BLANK, VERIFIED, Offered
<1>6. /\ Phases' /\ Copying' /\ Persisting' /\ SealNamesWholeCopy'
      /\ WindowRunsWhole'
  BY SMTT(20) DEF Erase, EraseKeeps, IInv, Phases, Copying, Persisting,
       SealNamesWholeCopy, RunsWhole, WindowRunsWhole, flash, Listens, Hears,
       Offered
<1> QED
  BY <1>1, <1>2, <1>3, <1>4, <1>5, <1>6 DEF IInv

\* erase of the image the store holds: the copy begins over sealed words.
LEMMA EraseCopiesKeeps ==
    ASSUME NEW i \in Images,
           IInv, Erase(i), EraseCopies(i)
    PROVE  IInv'
<1>1. TypeOK'
  <2>1. job' \in JobState
    BY Jobs DEF EraseCopies, BeginCopy
  <2>2. ram' \in [Slots -> Content]
    BY ClearedOK DEF EraseCopies, BeginCopy, IInv, TypeOK
  <2> QED
    BY <2>1, <2>2 DEF Erase, EraseCopies, IInv, TypeOK, flash
<1>2. Addressed'
  BY SMTT(20) DEF Erase, EraseCopies, IInv, Addressed, BeginCopy, Job
<1>3. Copying'
  BY ImagesAssumption, SMTT(20) DEF Erase, EraseCopies, Copying, StoreSealed,
       SlotsOf, flash, BLANK, ASSIGNED, BeginCopy, Job
<1>4. JumpsWhole'
  BY SMTT(20) DEF Erase, EraseCopies, IInv, JumpsWhole, RunsWhole, Listens,
       Hears, BLANK, ASSIGNED
<1>5. /\ Phases' /\ Bitmap' /\ RamMatches' /\ Persisting'
      /\ SealNamesWholeCopy' /\ WindowRunsWhole'
  BY SMTT(20) DEF Erase, EraseCopies, IInv, Phases, Bitmap, RamMatches,
       Persisting, SealNamesWholeCopy, RunsWhole, WindowRunsWhole, flash,
       Listens, Hears, FlashSteps, SealSteps, StoreSteps, BeginCopy, Job
<1> QED
  BY <1>1, <1>2, <1>3, <1>4, <1>5 DEF IInv

\* erase of any other image: RAM is cleared, nothing has landed.
LEMMA EraseClearsKeeps ==
    ASSUME NEW i \in Images,
           IInv, Erase(i), EraseClears(i)
    PROVE  IInv'
<1>1. TypeOK'
  <2>1. s' \in CoreState
    BY CoreFields, States DEF EraseClears, Offered, IInv, TypeOK
  <2>2. ram' \in [Slots -> Content]
    BY ClearedOK DEF EraseClears, IInv, TypeOK
  <2> QED
    BY <2>1, <2>2 DEF Erase, EraseClears, IInv, TypeOK, flash
<1>2. Addressed'
  BY SMTT(20) DEF Erase, EraseClears, IInv, Addressed, Offered, ASSIGNED,
       ERASED
<1>3. Bitmap'
  BY NoneLanded, SMTT(20) DEF EraseClears, Bitmap, ERASED, VERIFIED, Offered
<1>4. RamMatches'
  BY ImagesAssumption, SMTT(20) DEF EraseClears, RamMatches, Slots, SlotsOf,
       ERASED, SEALED, Offered, Cleared
<1>5. JumpsWhole'
  BY SMTT(20) DEF Erase, EraseClears, IInv, JumpsWhole, RunsWhole, Listens,
       Hears, BLANK, ERASED, Offered
<1>6. /\ Phases' /\ Copying' /\ Persisting' /\ SealNamesWholeCopy'
      /\ WindowRunsWhole'
  BY SMTT(20) DEF Erase, EraseClears, IInv, Phases, Copying, Persisting,
       SealNamesWholeCopy, RunsWhole, WindowRunsWhole, flash, Listens, Hears,
       FlashSteps, SealSteps, StoreSteps
<1> QED
  BY <1>1, <1>2, <1>3, <1>4, <1>5, <1>6 DEF IInv

\* chunk: one index more in the bitmap, the first word kept back.
LEMMA ChunkKeeps ==
    ASSUME NEW i \in Images, NEW n \in Index,
           IInv, Chunk(n, i)
    PROVE  IInv'
<1>1. TypeOK'
  <2>1. /\ (IF n = 0 THEN i ELSE s.first) \in Images \cup {None}
        /\ s.landed \cup {n} \in SUBSET Index
        /\ s.held + 1 \in Nat
    BY DEF IInv, TypeOK, CoreState
  <2>2. s' \in CoreState
    BY <2>1, CoreFields DEF Chunk, IInv, TypeOK
  <2>3. ram' \in [Slots -> Content]
    BY ImagesAssumption, ImageTypes DEF Chunk, IInv, TypeOK, Slots, Index
  <2> QED
    BY <2>2, <2>3 DEF Chunk, IInv, TypeOK, flash
<1>2. Addressed'
  BY SMTT(20) DEF Chunk, IInv, Addressed
<1>3. Bitmap'
  <2>1. /\ s.offer \in Images /\ s.landed \in SUBSET Indices(s.offer)
        /\ s.held = Cardinality(s.landed)
        /\ n \in Indices(s.offer) /\ n \notin s.landed
    BY DEF IInv, Bitmap, Chunk, ERASED, VERIFIED
  <2>2. Cardinality(s.landed \cup {n}) = s.held + 1
    BY <2>1, OneMore
  <2>3. ~s.verified /\ s.state = ERASED
    BY <2>1 DEF IInv, Bitmap, Chunk
  <2>4. /\ s'.offer = s.offer /\ s'.landed = s.landed \cup {n}
        /\ s'.held = s.held + 1 /\ s'.verified = s.verified
        /\ s'.state = s.state
    BY DEF IInv, TypeOK, CoreState, Chunk
  <2> QED
    BY <2>1, <2>2, <2>3, <2>4 DEF Bitmap, ERASED, VERIFIED
<1>4. RamMatches'
  BY ImagesAssumption, SMTT(20) DEF Chunk, IInv, Bitmap, RamMatches, Indices
<1>5. JumpsWhole'
  BY SMTT(20) DEF Chunk, IInv, JumpsWhole, RunsWhole, Listens, Hears, BLANK,
       ERASED, VERIFIED
<1>6. /\ Phases' /\ Copying' /\ Persisting' /\ SealNamesWholeCopy'
      /\ WindowRunsWhole'
  BY SMTT(20) DEF Chunk, IInv, Phases, Copying, Persisting,
       SealNamesWholeCopy, RunsWhole, WindowRunsWhole, flash, Listens, Hears,
       StoreSteps
<1> QED
  BY <1>1, <1>2, <1>3, <1>4, <1>5, <1>6 DEF IInv

\* verify: the CRC over what RAM holds, and a full bitmap behind it.
LEMMA VerifyKeeps ==
    ASSUME IInv, Verify
    PROVE  IInv'
<1>1. TypeOK'
  <2>1. ImageCrcIs(s.offer) \in BOOLEAN
    BY DEF ImageCrcIs
  <2>2. (IF ImageCrcIs(s.offer) THEN VERIFIED ELSE s.state) \in BLANK..SEALED
    BY States DEF IInv, TypeOK, CoreState
  <2>3. s' \in CoreState
    BY <2>1, <2>2, CoreFields DEF Verify, IInv, TypeOK
  <2> QED
    BY <2>3 DEF Verify, IInv, TypeOK, flash
<1>2. Addressed'
  BY SMTT(20) DEF Verify, IInv, Addressed, ASSIGNED, ERASED, VERIFIED, TypeOK,
       CoreState
<1>3. Bitmap'
  BY AllLanded, SMTT(20) DEF Verify, IInv, Bitmap, RamMatches, Listens, Hears
<1>4. RamMatches'
  BY SMTT(20) DEF Verify, IInv, RamMatches, ImageCrcIs, VERIFIED, SEALED
<1>5. /\ Phases' /\ Copying' /\ Persisting' /\ SealNamesWholeCopy'
      /\ JumpsWhole' /\ WindowRunsWhole'
  BY SMTT(20) DEF Verify, IInv, Phases, Copying, Persisting,
       SealNamesWholeCopy, JumpsWhole, RunsWhole, WindowRunsWhole, flash,
       Listens, Hears, BLANK, VERIFIED, FlashSteps, SealSteps
<1> QED
  BY <1>1, <1>2, <1>3, <1>4, <1>5 DEF IInv

\* record: kept for the seal.
LEMMA RecordKeeps ==
    ASSUME NEW r \in Records,
           IInv, Record(r)
    PROVE  IInv'
<1>1. TypeOK'
  <2>1. s' \in CoreState
    BY ImagesAssumption, CoreFields, States DEF Record, IInv, TypeOK
  <2> QED
    BY <2>1, ImagesAssumption DEF Record, IInv, TypeOK, flash
<1>2. Addressed'
  BY SMTT(20) DEF Record, IInv, Addressed
<1>3. /\ Phases' /\ Bitmap' /\ RamMatches' /\ Copying'
      /\ Persisting' /\ SealNamesWholeCopy' /\ JumpsWhole' /\ WindowRunsWhole'
  BY SMTT(20) DEF Record, IInv, Phases, Bitmap, RamMatches, Copying,
       Persisting, SealNamesWholeCopy, JumpsWhole, RunsWhole, WindowRunsWhole,
       ImageCrcIs, flash, Listens, Hears
<1> QED
  BY <1>1, <1>2, <1>3 DEF IInv

\* seal: a verified node's handler starts.
LEMMA SealKeeps ==
    ASSUME NEW persist \in BOOLEAN,
           IInv, Seal(persist)
    PROVE  IInv'
<1>1. TypeOK'
  <2>1. job' \in JobState
    BY JobFields, Jobs DEF Seal, IInv, TypeOK, Job, FlashSteps
  <2> QED
    BY <2>1, ImagesAssumption DEF Seal, IInv, TypeOK, flash, Job, FlashSteps
<1>2. Addressed'
  BY SMTT(20) DEF Seal, IInv, Addressed, Job
<1>3. Phases'
  BY SMTT(20) DEF Seal, Phases, Listens, Hears, Job
<1>4. Persisting'
  BY SMTT(20) DEF Seal, Persisting, StoreSteps, Job
<1>5. /\ Bitmap' /\ RamMatches' /\ Copying' /\ SealNamesWholeCopy'
      /\ JumpsWhole' /\ WindowRunsWhole'
  BY SMTT(20) DEF Seal, IInv, Bitmap, RamMatches, Copying, SealNamesWholeCopy,
       JumpsWhole, RunsWhole, WindowRunsWhole, ImageCrcIs, flash, Listens,
       Hears, Job
<1> QED
  BY <1>1, <1>2, <1>3, <1>4, <1>5 DEF IInv

\* go: only for a sealed node whose RAM is of this type.
LEMMA GoKeeps ==
    ASSUME NEW session \in Sessions,
           IInv, Go(session)
    PROVE  IInv'
<1>1. TypeOK'
  <2>1. ShapeOk(ram) \in BOOLEAN
    BY DEF ShapeOk
  <2>2. s' \in CoreState
    BY <2>1, CoreFields DEF Go, IInv, TypeOK
  <2> QED
    BY <2>2 DEF Go, IInv, TypeOK, flash
<1>2. Addressed'
  BY SMTT(20) DEF Go, IInv, Addressed
<1>3. JumpsWhole'
  BY SMTT(20) DEF Go, IInv, TypeOK, RamMatches, JumpsWhole, RunsWhole,
       ShapeOk, ImageCrcIs, Listens, Hears
<1>4. /\ Phases' /\ Bitmap' /\ RamMatches' /\ Copying'
      /\ Persisting' /\ SealNamesWholeCopy' /\ WindowRunsWhole'
  BY SMTT(20) DEF Go, IInv, Phases, Bitmap, RamMatches, Copying, Persisting,
       SealNamesWholeCopy, RunsWhole, WindowRunsWhole, ImageCrcIs, flash,
       Listens, Hears
<1> QED
  BY <1>1, <1>2, <1>3, <1>4 DEF IInv

\* A warm start on the image RAM still holds.
LEMMA GateKeepsKeeps ==
    ASSUME IInv, Gate, GateKeeps
    PROVE  IInv'
<1>1. TypeOK'
  <2>1. s' \in CoreState
    BY ImagesAssumption, CoreFields, States DEF Gate, GateKeeps, IInv, TypeOK,
         Enter
  <2> QED
    BY <2>1, ImagesAssumption DEF Gate, GateKeeps, IInv, TypeOK, flash, Enter,
         Kept
<1>2. Addressed'
  BY SMTT(20) DEF Gate, GateKeeps, IInv, Addressed, Enter
<1>3. RamMatches'
  BY SMTT(20) DEF GateKeeps, IInv, RamMatches, ImageCrcIs, ImageHeld, Enter,
       Kept
<1>4. JumpsWhole'
  BY SMTT(20) DEF Gate, GateKeeps, IInv, Phases, JumpsWhole, RunsWhole, Whole,
       ShapeOk, ImageCrcIs, ImageHeld, BootInit, Enter, Kept
<1>5. /\ Phases' /\ Bitmap' /\ Copying' /\ Persisting'
      /\ SealNamesWholeCopy' /\ WindowRunsWhole'
  BY SMTT(20) DEF Gate, GateKeeps, IInv, Phases, Bitmap, Copying, Persisting,
       SealNamesWholeCopy, RunsWhole, WindowRunsWhole, flash, Enter
<1> QED
  BY <1>1, <1>2, <1>3, <1>4, <1>5 DEF IInv

\* A start that finds no image waits for a master.
LEMMA GateWaitsKeeps ==
    ASSUME IInv, Gate, GateWaits
    PROVE  IInv'
<1>1. TypeOK'
  <2>1. s' \in CoreState
    BY ImagesAssumption, CoreFields, States DEF Gate, GateWaits, IInv, TypeOK,
         Enter
  <2> QED
    BY <2>1, ImagesAssumption DEF Gate, GateWaits, IInv, TypeOK, flash, Enter
<1>2. Addressed'
  BY SMTT(20) DEF Gate, GateWaits, IInv, Addressed, Enter
<1>3. JumpsWhole'
  BY SMTT(20) DEF Gate, GateWaits, IInv, TypeOK, Phases, JumpsWhole,
       RunsWhole, BootInit, LoopInit, Enter
<1>4. /\ Phases' /\ Bitmap' /\ RamMatches' /\ Copying'
      /\ Persisting' /\ SealNamesWholeCopy' /\ WindowRunsWhole'
  BY SMTT(20) DEF Gate, GateWaits, IInv, Phases, Bitmap, RamMatches, Copying,
       Persisting, SealNamesWholeCopy, RunsWhole, WindowRunsWhole, flash,
       BootInit, Enter
<1> QED
  BY <1>1, <1>2, <1>3, <1>4 DEF IInv

\* A start on the store: the copy begins over sealed words.
LEMMA GateCopiesKeeps ==
    ASSUME NEW i \in Images,
           IInv, Gate, GateCopies(i)
    PROVE  IInv'
<1>1. TypeOK'
  <2>1. job' \in JobState
    BY Jobs DEF GateCopies, BeginCopy
  <2>2. ram' \in [Slots -> Content]
    BY ClearedOK DEF GateCopies, BeginCopy, IInv, TypeOK
  <2> QED
    BY <2>1, <2>2 DEF Gate, GateCopies, IInv, TypeOK, flash
<1>2. Addressed'
  BY SMTT(20) DEF Gate, GateCopies, IInv, Addressed, BeginCopy, Job
<1>3. Copying'
  BY ImagesAssumption, SMTT(20) DEF Gate, GateCopies, Copying, StoreSealed,
       SlotsOf, flash, BeginCopy, Job
<1>4. /\ Phases' /\ Bitmap' /\ RamMatches' /\ Persisting'
      /\ SealNamesWholeCopy' /\ JumpsWhole' /\ WindowRunsWhole'
  BY SMTT(20) DEF Gate, GateCopies, IInv, Phases, Bitmap, RamMatches,
       Persisting, SealNamesWholeCopy, JumpsWhole, RunsWhole, WindowRunsWhole,
       flash, FlashSteps, SealSteps, BootInit, BeginCopy, Job
<1> QED
  BY <1>1, <1>2, <1>3, <1>4 DEF IInv

\* One word more of the sealed image in RAM.
LEMMA CopyWordKeeps ==
    ASSUME IInv, CopyWord
    PROVE  IInv'
<1>1. TypeOK'
  <2>1. job.at \in Nat /\ job.image \in Images
    BY DEF CopyWord, IInv, TypeOK, JobState, Copying
  <2>2. job' \in JobState
    BY <2>1, JobFields DEF CopyWord, IInv, TypeOK
  <2>3. job.at \in Slots
    BY <2>1, ImagesAssumption DEF CopyWord, Slots
  <2>4. ram' \in [Slots -> Content]
    BY <2>3 DEF CopyWord, IInv, TypeOK
  <2> QED
    BY <2>2, <2>4 DEF CopyWord, IInv, TypeOK, flash
<1>2. Addressed'
  BY SMTT(20) DEF CopyWord, IInv, Addressed
<1>3. Copying'
  BY ImagesAssumption, SMTT(20) DEF CopyWord, IInv, TypeOK, JobState, Copying,
       Whole, StoreSealed, Slots, SlotsOf, flash
<1>4. /\ Phases' /\ Bitmap' /\ RamMatches' /\ Persisting'
      /\ SealNamesWholeCopy' /\ JumpsWhole' /\ WindowRunsWhole'
  BY SMTT(20) DEF CopyWord, IInv, Phases, Bitmap, RamMatches, Copying,
       Persisting, SealNamesWholeCopy, JumpsWhole, RunsWhole, WindowRunsWhole,
       flash
<1> QED
  BY <1>1, <1>2, <1>3, <1>4 DEF IInv

\* The gate's copy ends: ready only if RAM sums to the image.
LEMMA CopiedAtGateKeeps ==
    ASSUME IInv, Copied, CopiedAtGate
    PROVE  IInv'
<1>1. TypeOK'
  <2>1. (IF ImageHeld(job.image) THEN job.image ELSE None) \in Images \cup {None}
    BY DEF IInv, TypeOK, JobState
  <2>2. s' \in CoreState
    BY <2>1, CoreFields DEF CopiedAtGate, Enter, IInv, TypeOK
  <2> QED
    BY <2>2, IdleJob DEF Copied, CopiedAtGate, Enter, IInv, TypeOK, flash
<1>2. Addressed'
  BY SMTT(20) DEF Copied, CopiedAtGate, IInv, Addressed, Enter, Idle, Job,
       Phases, BootInit, BLANK, ASSIGNED
<1>3. RamMatches'
  BY ImagesAssumption, SMTT(20) DEF CopiedAtGate, IInv, Phases, Bitmap,
       RamMatches, ERASED, SEALED, BootInit, Enter
<1>4. JumpsWhole'
  BY SMTT(20) DEF Copied, CopiedAtGate, IInv, TypeOK, Phases, JumpsWhole,
       RunsWhole, Whole, ShapeOk, ImageCrcIs, ImageHeld, BootInit, LoopInit,
       Enter
<1>5. /\ Phases' /\ Bitmap' /\ Copying' /\ Persisting'
      /\ SealNamesWholeCopy' /\ WindowRunsWhole'
  BY SMTT(20) DEF Copied, CopiedAtGate, IInv, Phases, Bitmap, Copying,
       Persisting, SealNamesWholeCopy, RunsWhole, WindowRunsWhole, flash,
       Idle, FlashSteps, SealSteps, StoreSteps, Enter, Job
<1> QED
  BY <1>1, <1>2, <1>3, <1>4, <1>5 DEF IInv

\* The copy of an erase ends: the image is held whole.
LEMMA CopiedForEraseKeeps ==
    ASSUME IInv, Copied, CopiedForErase
    PROVE  IInv'
<1>1. TypeOK'
  <2>1. job.image \in Images
    BY DEF Copied, IInv, Copying
  <2>2. s' \in CoreState
    BY <2>1, ImageTypes, CoreFields, States
    DEF CopiedForErase, Offered, IInv, TypeOK
  <2> QED
    BY <2>2, IdleJob DEF Copied, CopiedForErase, IInv, TypeOK, flash
<1>2. Addressed'
  BY SMTT(20) DEF Copied, CopiedForErase, IInv, Addressed, Offered, ASSIGNED,
       VERIFIED, Idle, Job
<1>3. Bitmap'
  BY IndicesCount, SMTT(20) DEF Copied, CopiedForErase, IInv, Bitmap, Copying,
       Offered
<1>4. RamMatches'
  <2>1. \A k \in SlotsOf(job.image) : k < Size[job.image] + 1
    BY ImagesAssumption DEF IInv, Copying, Copied, SlotsOf
  <2>2. job.image \in Images /\ \A k \in SlotsOf(job.image) : ram[k] = job.image
    BY <2>1 DEF IInv, Copying, Copied
  <2>3. /\ s'.offer = job.image /\ s'.first = None
        /\ s'.state = VERIFIED /\ s'.verified
        /\ UNCHANGED ram
    BY DEF Copied, CopiedForErase, Offered, IInv, TypeOK, CoreState
  <2>4. 0 \in SlotsOf(job.image)
    BY <2>2, ImagesAssumption DEF SlotsOf
  <2>5. ImageCrcIs(s.offer)'
    BY <2>2, <2>3, <2>4 DEF ImageCrcIs
  <2> QED
    BY <2>3, <2>5 DEF RamMatches, ERASED, VERIFIED, SEALED
<1>5. JumpsWhole'
  BY SMTT(20) DEF Copied, CopiedForErase, IInv, JumpsWhole, RunsWhole, BLANK,
       VERIFIED, Offered
<1>6. /\ Phases' /\ Copying' /\ Persisting' /\ SealNamesWholeCopy'
      /\ WindowRunsWhole'
  BY SMTT(20) DEF Copied, CopiedForErase, IInv, Phases, Copying, Persisting,
       SealNamesWholeCopy, RunsWhole, WindowRunsWhole, flash, Idle, Offered,
       Job
<1> QED
  BY <1>1, <1>2, <1>3, <1>4, <1>5, <1>6 DEF IInv

\* The record's sector is erased.
LEMMA RecordEraseKeeps ==
    ASSUME IInv, RecordErase
    PROVE  IInv'
<1>1. TypeOK'
  <2>1. job' \in JobState
    BY StepOK DEF RecordErase, IInv, TypeOK, FlashSteps
  <2> QED
    BY <2>1 DEF RecordErase, IInv, TypeOK
<1>2. Addressed'
  BY SMTT(20) DEF RecordErase, IInv, Addressed, Step, Job
<1>3. Phases'
  BY SMTT(20) DEF RecordErase, IInv, Phases, FlashSteps, SealSteps
<1>4. /\ Bitmap' /\ RamMatches' /\ Copying' /\ Persisting'
      /\ SealNamesWholeCopy' /\ JumpsWhole' /\ WindowRunsWhole'
  BY SMTT(20) DEF RecordErase, IInv, Bitmap, RamMatches, Copying, Persisting,
       SealNamesWholeCopy, JumpsWhole, RunsWhole, WindowRunsWhole, ImageCrcIs,
       StoreSteps, Step, Job
<1> QED
  BY <1>1, <1>2, <1>3, <1>4 DEF IInv

\* The record is programmed.
LEMMA RecordProgramKeeps ==
    ASSUME IInv, RecordProgram
    PROVE  IInv'
<1>1. TypeOK'
  <2>1. job' \in JobState
    BY StepOK DEF RecordProgram, IInv, TypeOK
  <2>2. s.record \in Records
    BY DEF RecordProgram, IInv, TypeOK, CoreState, Phases
  <2> QED
    BY <2>1, <2>2 DEF RecordProgram, IInv, TypeOK
<1>2. Addressed'
  BY SMTT(20) DEF RecordProgram, IInv, Addressed, Step, Job
<1>3. Phases'
  BY SMTT(20) DEF RecordProgram, IInv, Phases, FlashSteps, SealSteps
<1>4. /\ Bitmap' /\ RamMatches' /\ Copying' /\ Persisting'
      /\ SealNamesWholeCopy' /\ JumpsWhole' /\ WindowRunsWhole'
  BY SMTT(20) DEF RecordProgram, IInv, Bitmap, RamMatches, Copying,
       Persisting, SealNamesWholeCopy, JumpsWhole, RunsWhole, WindowRunsWhole,
       ImageCrcIs, StoreSteps, Step, Job
<1> QED
  BY <1>1, <1>2, <1>3, <1>4 DEF IInv

\* The first word goes to its place: RAM holds the verified image.
LEMMA SealInRamKeeps ==
    ASSUME IInv, FirstWord, SealInRam
    PROVE  IInv'
<1>1. TypeOK'
  <2>1. s.first \in Images \cup {None} /\ [s EXCEPT !.first = None] \in CoreState
    BY CoreFields DEF IInv, TypeOK, CoreState
  <2>2. s' \in CoreState
    BY <2>1, SealedOK DEF SealInRam, IInv, TypeOK
  <2>3. job' \in JobState
    BY IdleJob DEF SealInRam
  <2>4. ram' \in [Slots -> Content]
    BY <2>1 DEF FirstWord, IInv, TypeOK, Content, Slots
  <2> QED
    BY <2>2, <2>3, <2>4 DEF FirstWord, IInv, TypeOK, flash
<1>2. Addressed'
  BY SMTT(20) DEF FirstWord, SealInRam, IInv, Addressed, Sealed, Phases,
       SealSteps, FlashSteps, ASSIGNED, SEALED
<1>3. RamMatches'
  BY ImagesAssumption, SMTT(20) DEF FirstWord, SealInRam, IInv, TypeOK,
       Phases, RamMatches, ImageCrcIs, Slots, SealSteps, Sealed
<1>4. JumpsWhole'
  BY ImagesAssumption, SMTT(20) DEF FirstWord, SealInRam, IInv, TypeOK,
       CoreState, RamMatches, JumpsWhole, RunsWhole, Whole, SEALED, Sealed
<1>5. /\ Phases' /\ Bitmap' /\ Copying' /\ Persisting'
      /\ SealNamesWholeCopy' /\ WindowRunsWhole'
  BY SMTT(20) DEF FirstWord, SealInRam, IInv, Phases, Bitmap, Copying,
       Persisting, SealNamesWholeCopy, RunsWhole, WindowRunsWhole, flash,
       Idle, SealSteps, Sealed, Job
<1> QED
  BY <1>1, <1>2, <1>3, <1>4, <1>5 DEF IInv

\* The first word goes to its place, and persist begins.
LEMMA SealToStoreKeeps ==
    ASSUME IInv, FirstWord, SealToStore
    PROVE  IInv'
<1>1. TypeOK'
  <2>1. s.first \in Images \cup {None} /\ [s EXCEPT !.first = None] \in CoreState
    BY CoreFields DEF IInv, TypeOK, CoreState
  <2>2. s' \in CoreState
    BY <2>1 DEF SealToStore
  <2>3. job' \in JobState
    BY StepOK DEF SealToStore, IInv, TypeOK, FlashSteps
  <2>4. ram' \in [Slots -> Content]
    BY <2>1 DEF FirstWord, IInv, TypeOK, Content, Slots
  <2> QED
    BY <2>2, <2>3, <2>4 DEF FirstWord, IInv, TypeOK, flash
<1>2. Addressed'
  BY SMTT(20) DEF FirstWord, SealToStore, IInv, Addressed, Step, Job
<1>3. RamMatches'
  BY ImagesAssumption, SMTT(20) DEF FirstWord, SealToStore, IInv, TypeOK,
       Phases, RamMatches, ImageCrcIs, Slots, SealSteps
<1>4. Persisting'
  BY SMTT(20) DEF SealToStore, Persisting, SectorOf, Step, Job
<1>5. /\ Phases' /\ Bitmap' /\ Copying' /\ SealNamesWholeCopy'
      /\ JumpsWhole' /\ WindowRunsWhole'
  BY ImagesAssumption, SMTT(20) DEF FirstWord, SealToStore, IInv, Phases,
       Bitmap, RamMatches, Copying, SealNamesWholeCopy, JumpsWhole, RunsWhole,
       WindowRunsWhole, Whole, flash, SealSteps, Step, Job
<1> QED
  BY <1>1, <1>2, <1>3, <1>4, <1>5 DEF IInv

\* A sector of the store is erased, the seal with the first.
LEMMA StoreEraseKeeps ==
    ASSUME IInv, StoreErase
    PROVE  IInv'
<1>1. TypeOK'
  <2>1. job.at \in Nat
    BY DEF IInv, TypeOK, JobState
  <2>2. job' \in JobState
    BY <2>1, JobFields, StepOK DEF StoreErase, IInv, TypeOK, FlashSteps
  <2>3. copy' \in [Slots -> Content]
    BY DEF StoreErase, IInv, TypeOK, Content
  <2>4. seal' \in Content /\ halved' \in BOOLEAN
    BY DEF StoreErase, IInv, TypeOK, Content
  <2> QED
    BY <2>2, <2>3, <2>4 DEF StoreErase, IInv, TypeOK
<1>2. Addressed'
  BY SMTT(20) DEF StoreErase, IInv, Addressed, Step, Job
<1>3. Persisting'
  BY ImagesAssumption, SMTT(20) DEF StoreErase, IInv, Phases, Bitmap,
       Persisting, Slots, SlotsOf, SectorOf, SectorSlots, FlashSteps,
       SealSteps, StoreSteps, Step, Job
<1>4. SealNamesWholeCopy'
  BY ImagesAssumption, SMTT(20) DEF StoreErase, IInv, Persisting,
       SealNamesWholeCopy, SectorOf
<1>5. /\ Phases' /\ Bitmap' /\ RamMatches' /\ Copying'
      /\ JumpsWhole' /\ WindowRunsWhole'
  BY SMTT(20) DEF StoreErase, IInv, Phases, Bitmap, RamMatches, Copying,
       JumpsWhole, RunsWhole, WindowRunsWhole, ImageCrcIs, FlashSteps,
       SealSteps, Step, Job
<1> QED
  BY <1>1, <1>2, <1>3, <1>4, <1>5 DEF IInv

\* A word of the image goes from RAM to the store.
LEMMA StoreWordKeeps ==
    ASSUME IInv, StoreWord
    PROVE  IInv'
<1>1. TypeOK'
  <2>1. job.at \in Nat /\ s.offer \in Images /\ job.at \in SlotsOf(s.offer)
    BY DEF StoreWord, IInv, TypeOK, JobState, Phases, Bitmap, Persisting,
           SealSteps, FlashSteps
  <2>2. job' \in JobState
    BY <2>1, JobFields, StepOK DEF StoreWord, IInv, TypeOK, FlashSteps
  <2>3. copy' \in [Slots -> Content]
    BY <2>1, ImageTypes DEF StoreWord, IInv, TypeOK
  <2> QED
    BY <2>2, <2>3 DEF StoreWord, IInv, TypeOK
<1>2. Addressed'
  BY SMTT(20) DEF StoreWord, IInv, Addressed, Step, Job
<1>3. Persisting'
  BY ImagesAssumption, SMTT(20) DEF StoreWord, IInv, TypeOK, JobState, Phases,
       Bitmap, RamMatches, Persisting, Whole, ImageCrcIs, Slots, SlotsOf,
       FlashSteps, SealSteps, StoreSteps, Step, Job
<1>4. SealNamesWholeCopy'
  BY ImagesAssumption, SMTT(20) DEF StoreWord, IInv, SealNamesWholeCopy, Whole
<1>5. /\ Phases' /\ Bitmap' /\ RamMatches' /\ Copying'
      /\ JumpsWhole' /\ WindowRunsWhole'
  BY SMTT(20) DEF StoreWord, IInv, TypeOK, JobState, Phases, Bitmap,
       RamMatches, Copying, JumpsWhole, RunsWhole, WindowRunsWhole,
       ImageCrcIs, SealSteps, Step, Job
<1> QED
  BY <1>1, <1>2, <1>3, <1>4, <1>5 DEF IInv

\* The seal is programmed over the whole copy behind it.
LEMMA StoreSealKeeps ==
    ASSUME IInv, StoreSeal
    PROVE  IInv'
<1>1. TypeOK'
  <2>1. s' \in CoreState
    BY SealedOK DEF StoreSeal, IInv, TypeOK
  <2>2. s.offer \in Images
    BY DEF StoreSeal, IInv, Phases, Bitmap, SealSteps, FlashSteps
  <2>3. seal' \in Content
    BY <2>2, ImageTypes DEF StoreSeal
  <2> QED
    BY <2>1, <2>3, IdleJob DEF StoreSeal, IInv, TypeOK
<1>2. Addressed'
  BY SMTT(20) DEF StoreSeal, IInv, Addressed, Sealed, Phases, SealSteps,
       FlashSteps, ASSIGNED, SEALED
<1>3. RamMatches'
  BY SMTT(20) DEF StoreSeal, IInv, Phases, RamMatches, Persisting, ImageCrcIs,
       FlashSteps, SealSteps, StoreSteps, Sealed
<1>4. SealNamesWholeCopy'
  BY SMTT(20) DEF StoreSeal, IInv, Persisting, SealNamesWholeCopy
<1>5. /\ Phases' /\ Bitmap' /\ Copying' /\ Persisting'
      /\ JumpsWhole' /\ WindowRunsWhole'
  BY SMTT(20) DEF StoreSeal, IInv, Phases, Bitmap, Copying, Persisting,
       JumpsWhole, RunsWhole, WindowRunsWhole, Idle, BLANK, SEALED,
       FlashSteps, SealSteps, StoreSteps, Sealed, Job
<1> QED
  BY <1>1, <1>2, <1>3, <1>4, <1>5 DEF IInv

\* An operation of the flash reports an error.
LEMMA FlashFailsKeeps ==
    ASSUME IInv, FlashFails
    PROVE  IInv'
<1>1. TypeOK'
  <2>1. CutTypes'
    BY CutShortOK DEF FlashFails
  <2> QED
    BY <2>1, IdleJob DEF FlashFails, IInv, TypeOK, CutTypes
<1>2. Addressed'
  BY SMTT(20) DEF FlashFails, IInv, Addressed, Idle, Job
<1>3. SealNamesWholeCopy'
  BY ImagesAssumption, SMTT(20) DEF FlashFails, IInv, TypeOK, CoreState,
       Phases, Persisting, SealNamesWholeCopy, SectorOf, FlashSteps,
       SealSteps, CutShort
<1>4. /\ Phases' /\ Bitmap' /\ RamMatches' /\ Copying'
      /\ Persisting' /\ JumpsWhole' /\ WindowRunsWhole'
  BY SMTT(20) DEF FlashFails, IInv, Phases, Bitmap, RamMatches, Copying,
       Persisting, JumpsWhole, RunsWhole, WindowRunsWhole, ImageCrcIs, Idle,
       FlashSteps, SealSteps, StoreSteps, Job
<1> QED
  BY <1>1, <1>2, <1>3, <1>4 DEF IInv

\* The loop takes the go.
LEMMA FollowCoreKeeps ==
    ASSUME IInv, FollowCore
    PROVE  IInv'
<1>1. TypeOK'
  BY ImagesAssumption DEF FollowCore, IInv, TypeOK, flash
<1>2. Addressed'
  BY SMTT(20) DEF FollowCore, IInv, Addressed
<1>3. JumpsWhole'
  BY SMTT(20) DEF FollowCore, IInv, JumpsWhole, RunsWhole
<1>4. /\ Phases' /\ Bitmap' /\ RamMatches' /\ Copying'
      /\ Persisting' /\ SealNamesWholeCopy' /\ WindowRunsWhole'
  BY SMTT(20) DEF FollowCore, IInv, Phases, Bitmap, RamMatches, Copying,
       Persisting, SealNamesWholeCopy, RunsWhole, WindowRunsWhole, ImageCrcIs,
       flash, Listens
<1> QED
  BY <1>1, <1>2, <1>3, <1>4 DEF IInv

\* The jump a go asked for.
LEMMA JumpGoKeeps ==
    ASSUME IInv, JumpGo
    PROVE  IInv'
<1>1. TypeOK'
  <2>1. slot' \in [magic : BOOLEAN, stay : BOOLEAN, unit : Units \cup {0},
                   image : Images \cup {None}]
    BY HandOverOK DEF JumpGo, Jump, Listens, IInv
  <2> QED
    BY <2>1 DEF JumpGo, Jump, IInv, TypeOK, flash
<1>2. Addressed'
  BY SMTT(20) DEF JumpGo, IInv, Addressed, Jump, Listens
<1>3. JumpsWhole'
  BY SMTT(20) DEF JumpGo, IInv, RamMatches, JumpsWhole, RunsWhole, Whole,
       ImageCrcIs, Listens, Jump, HandOver
<1>4. WindowRunsWhole'
  BY SMTT(20) DEF JumpGo, WindowRunsWhole, Jump
<1>5. /\ Phases' /\ Bitmap' /\ RamMatches' /\ Copying'
      /\ Persisting' /\ SealNamesWholeCopy'
  BY SMTT(20) DEF JumpGo, IInv, Phases, Bitmap, RamMatches, Copying,
       Persisting, SealNamesWholeCopy, ImageCrcIs, flash, Listens, Jump
<1> QED
  BY <1>1, <1>2, <1>3, <1>4, <1>5 DEF IInv

\* The jump after the hold window.
LEMMA JumpWindowKeeps ==
    ASSUME IInv, JumpWindow
    PROVE  IInv'
<1>1. TypeOK'
  <2>1. slot' \in [magic : BOOLEAN, stay : BOOLEAN, unit : Units \cup {0},
                   image : Images \cup {None}]
    BY HandOverOK DEF JumpWindow, Jump, Listens, IInv
  <2> QED
    BY <2>1 DEF JumpWindow, Jump, IInv, TypeOK, flash
<1>2. Addressed'
  BY SMTT(20) DEF JumpWindow, IInv, Addressed, Jump, Listens
<1>3. JumpsWhole'
  BY SMTT(20) DEF JumpWindow, IInv, JumpsWhole, RunsWhole, Listens, Jump,
       HandOver
<1>4. WindowRunsWhole'
  BY SMTT(20) DEF JumpWindow, IInv, JumpsWhole, RunsWhole, WindowRunsWhole,
       Listens, Jump, HandOver
<1>5. /\ Phases' /\ Bitmap' /\ RamMatches' /\ Copying'
      /\ Persisting' /\ SealNamesWholeCopy'
  BY SMTT(20) DEF JumpWindow, IInv, Phases, Bitmap, RamMatches, Copying,
       Persisting, SealNamesWholeCopy, ImageCrcIs, flash, Listens, Jump
<1> QED
  BY <1>1, <1>2, <1>3, <1>4, <1>5 DEF IInv

\* A reset that leaves RAM and the slot.
LEMMA WarmResetKeeps ==
    ASSUME IInv, WarmReset
    PROVE  IInv'
<1>1. TypeOK'
  <2>1. CutTypes'
    BY CutShortOK DEF WarmReset, Restart
  <2> QED
    BY <2>1, IdleJob, BootInitOK
    DEF WarmReset, Restart, IInv, TypeOK, CutTypes, LoopInit
<1>2. Addressed'
  BY SMTT(20) DEF WarmReset, IInv, Addressed, Restart, BootInit, BLANK,
       ASSIGNED, Idle, Job
<1>3. Phases'
  BY SMTT(20) DEF WarmReset, Phases, Idle, FlashSteps, SealSteps, Restart, Job
<1>4. SealNamesWholeCopy'
  BY ImagesAssumption, SMTT(20) DEF WarmReset, IInv, TypeOK, CoreState,
       Phases, Persisting, SealNamesWholeCopy, SectorOf, flash, FlashSteps,
       SealSteps, Restart, CutShort
<1>5. JumpsWhole'
  BY SMTT(20) DEF WarmReset, JumpsWhole, RunsWhole, Restart
<1>6. Bitmap' /\ RamMatches' /\ Copying' /\ Persisting' /\ WindowRunsWhole'
  BY SMTT(20) DEF WarmReset, Bitmap, RamMatches, Copying, Persisting,
       RunsWhole, WindowRunsWhole, Idle, BLANK, ERASED, VERIFIED, SEALED,
       BootInit, Restart, Job
<1> QED
  BY <1>1, <1>2, <1>3, <1>4, <1>5, <1>6 DEF IInv

\* A power loss at any step.
LEMMA PowerLossKeeps ==
    ASSUME IInv, PowerLoss
    PROVE  IInv'
<1>1. TypeOK'
  <2>1. CutTypes'
    BY CutShortOK DEF PowerLoss, Restart
  <2>2. slot' \in [magic : BOOLEAN, stay : BOOLEAN, unit : Units \cup {0},
                   image : Images \cup {None}]
    BY DEF PowerLoss, NoSlot
  <2>3. ram' \in [Slots -> Content]
    BY DEF PowerLoss, Content
  <2> QED
    BY <2>1, <2>2, <2>3, IdleJob, BootInitOK
    DEF PowerLoss, Restart, IInv, TypeOK, CutTypes, LoopInit
<1>2. Addressed'
  BY SMTT(20) DEF PowerLoss, IInv, Addressed, Restart, BootInit, BLANK,
       ASSIGNED, Idle, Job
<1>3. Phases'
  BY SMTT(20) DEF PowerLoss, Phases, Idle, FlashSteps, SealSteps, Restart, Job
<1>4. SealNamesWholeCopy'
  BY ImagesAssumption, SMTT(20) DEF PowerLoss, IInv, TypeOK, CoreState,
       Phases, Persisting, SealNamesWholeCopy, SectorOf, flash, FlashSteps,
       SealSteps, Restart, CutShort
<1>5. JumpsWhole'
  BY SMTT(20) DEF PowerLoss, JumpsWhole, RunsWhole, Restart
<1>6. Bitmap' /\ RamMatches' /\ Copying' /\ Persisting' /\ WindowRunsWhole'
  BY SMTT(20) DEF PowerLoss, Bitmap, RamMatches, Copying, Persisting,
       RunsWhole, WindowRunsWhole, Idle, BLANK, ERASED, VERIFIED, SEALED,
       BootInit, Restart, Job
<1> QED
  BY <1>1, <1>2, <1>3, <1>4, <1>5, <1>6 DEF IInv

\* The application asks the bootloader to stay.
LEMMA AppStayKeeps ==
    ASSUME IInv, AppStay
    PROVE  IInv'
<1>1. TypeOK'
  <2>1. CutTypes'
    BY CutShortOK DEF AppStay, Restart
  <2> QED
    BY <2>1, IdleJob, BootInitOK
    DEF AppStay, Restart, IInv, TypeOK, CutTypes, LoopInit
<1>2. Addressed'
  BY SMTT(20) DEF AppStay, IInv, Addressed, Restart, BootInit, BLANK,
       ASSIGNED, Idle, Job
<1>3. Phases'
  BY SMTT(20) DEF AppStay, Phases, Idle, FlashSteps, SealSteps, Restart, Job
<1>4. SealNamesWholeCopy'
  BY SMTT(20) DEF AppStay, IInv, Phases, SealNamesWholeCopy, flash, Restart,
       CutShort
<1>5. JumpsWhole'
  BY SMTT(20) DEF AppStay, JumpsWhole, RunsWhole, Restart
<1>6. Bitmap' /\ RamMatches' /\ Copying' /\ Persisting' /\ WindowRunsWhole'
  BY SMTT(20) DEF AppStay, Bitmap, RamMatches, Copying, Persisting, RunsWhole,
       WindowRunsWhole, Idle, BLANK, ERASED, VERIFIED, SEALED, BootInit,
       Restart, Job
<1> QED
  BY <1>1, <1>2, <1>3, <1>4, <1>5, <1>6 DEF IInv

-----------------------------------------------------------------------------
(* From the steps to the behaviours.                                       *)

LEMMA InitKeeps == Init => IInv
<1> SUFFICES ASSUME Init PROVE IInv
  OBVIOUS
<1>1. TypeOK
  <2>1. s \in CoreState /\ job \in JobState
    BY BootInitOK, IdleJob DEF Init
  <2>2. ram \in [Slots -> Content] /\ seal \in Content /\ copy \in [Slots -> Content]
    BY ImagesAssumption DEF Init, Content
  <2>3. slot \in [magic : BOOLEAN, stay : BOOLEAN, unit : Units \cup {0},
                  image : Images \cup {None}]
    BY DEF Init, NoSlot
  <2> QED
    BY <2>1, <2>2, <2>3 DEF Init, TypeOK, LoopInit
<1>2. Phases /\ Addressed /\ Bitmap /\ RamMatches /\ Copying /\ Persisting
  BY DEF Init, Phases, Addressed, Bitmap, RamMatches, Copying, Persisting,
         BootInit, Idle, Job, BLANK, ASSIGNED, ERASED, VERIFIED, SEALED,
         SealSteps, FlashSteps, StoreSteps
<1>3. SealNamesWholeCopy
  <2>1. CASE seal = Erased
    BY <2>1, ImagesAssumption DEF SealNamesWholeCopy
  <2>2. ASSUME NEW i \in Shaped, seal = i,
               copy = [k \in Slots |-> IF k \in SlotsOf(i) THEN i ELSE Erased]
        PROVE  Whole(copy, seal)
    BY <2>2, ImagesAssumption, ImageTypes DEF Whole
  <2> QED
    BY <2>1, <2>2 DEF Init, SealNamesWholeCopy
<1>4. JumpsWhole /\ WindowRunsWhole
  BY DEF Init, JumpsWhole, RunsWhole, WindowRunsWhole
<1> QED
  BY <1>1, <1>2, <1>3, <1>4 DEF IInv

\* A step that changes nothing.
LEMMA StutterKeeps ==
    ASSUME IInv, UNCHANGED vars
    PROVE  IInv'
<1> USE DEF vars, flash
<1>1. TypeOK' /\ Phases' /\ Addressed' /\ Bitmap'
  BY DEF IInv, TypeOK, Phases, Addressed, Bitmap
<1>2. RamMatches' /\ Copying' /\ Persisting'
  BY DEF IInv, RamMatches, ImageCrcIs, Copying, StoreSealed, ShapeOk, Whole,
         Persisting
<1>3. SealNamesWholeCopy' /\ JumpsWhole' /\ WindowRunsWhole'
  BY DEF IInv, SealNamesWholeCopy, Whole, JumpsWhole, RunsWhole, WindowRunsWhole
<1> QED
  BY <1>1, <1>2, <1>3 DEF IInv

\* Every step keeps the invariant.
LEMMA StepKeeps ==
    ASSUME IInv, [Next]_vars
    PROVE  IInv'
<1>1. CASE Ops
  <2>1. CASE \E session \in Sessions : Hold(session) \/ Go(session)
    BY <2>1, HoldKeeps, GoKeeps
  <2>2. CASE \E unit \in Units : Assign(unit)
    BY <2>2, AssignKeeps
  <2>3. CASE \E i \in Images : Erase(i)
    <3>1. PICK i \in Images : Erase(i)
      BY <2>3
    <3>2. EraseKeeps(i) \/ EraseCopies(i) \/ EraseClears(i)
      BY <3>1 DEF Erase
    <3> QED
      BY <3>1, <3>2, EraseKeepsKeeps, EraseCopiesKeeps, EraseClearsKeeps
  <2>4. CASE \E i \in Images, n \in Index : Chunk(n, i)
    BY <2>4, ChunkKeeps
  <2>5. CASE Verify
    BY <2>5, VerifyKeeps
  <2>6. CASE \E r \in Records : Record(r)
    BY <2>6, RecordKeeps
  <2>7. CASE \E persist \in BOOLEAN : Seal(persist)
    BY <2>7, SealKeeps
  <2> QED
    BY <1>1, <2>1, <2>2, <2>3, <2>4, <2>5, <2>6, <2>7 DEF Ops
<1>2. CASE Work
  <2>1. CASE Gate
    <3>1. GateKeeps \/ GateWaits \/ \E i \in Images : GateCopies(i)
      BY <2>1 DEF Gate
    <3> QED
      BY <2>1, <3>1, GateKeepsKeeps, GateWaitsKeeps, GateCopiesKeeps
  <2>2. CASE CopyWord
    BY <2>2, CopyWordKeeps
  <2>3. CASE Copied
    <3>1. CopiedAtGate \/ CopiedForErase
      BY <2>3 DEF Copied
    <3> QED
      BY <2>3, <3>1, CopiedAtGateKeeps, CopiedForEraseKeeps
  <2>4. CASE RecordErase \/ RecordProgram
    BY <2>4, RecordEraseKeeps, RecordProgramKeeps
  <2>5. CASE FirstWord
    <3>1. SealInRam \/ SealToStore
      BY <2>5 DEF FirstWord
    <3> QED
      BY <2>5, <3>1, SealInRamKeeps, SealToStoreKeeps
  <2>6. CASE StoreErase \/ StoreWord \/ StoreSeal
    BY <2>6, StoreEraseKeeps, StoreWordKeeps, StoreSealKeeps
  <2> QED
    BY <1>2, <2>1, <2>2, <2>3, <2>4, <2>5, <2>6 DEF Work
<1>3. CASE FlashFails \/ FollowCore
  BY <1>3, FlashFailsKeeps, FollowCoreKeeps
<1>4. CASE JumpGo \/ JumpWindow
  BY <1>4, JumpGoKeeps, JumpWindowKeeps
<1>5. CASE Resets
  BY <1>5, WarmResetKeeps, PowerLossKeeps, AppStayKeeps DEF Resets
<1>6. CASE UNCHANGED vars
  BY <1>6, StutterKeeps
<1> QED
  BY <1>1, <1>2, <1>3, <1>4, <1>5, <1>6 DEF Next

\* The invariant holds for every choice of images, sizes, records and units,
\* whatever the masters send and wherever a reset or a power loss cuts.
THEOREM Inductive == Spec => []IInv
<1>1. Init => IInv
  BY InitKeeps
<1>2. IInv /\ [Next]_vars => IInv'
  BY StepKeeps
<1> QED
  BY <1>1, <1>2, PTL DEF Spec

\* Every variable keeps its type; the handover slot's unit is one a host
\* assigned, or none, never the id of an unassigned node.
THEOREM TypeCorrect == Spec => []TypeOK
<1>1. IInv => TypeOK
  BY DEF IInv
<1> QED
  BY <1>1, Inductive, PTL

\* boot_ready and the hold window: whatever the masters send, and whatever a
\* cut left in RAM and in the store, the jump after the window is into RAM
\* that holds one whole image of this board's type.
THEOREM WindowIsWhole == Spec => []WindowRunsWhole
<1>1. IInv => WindowRunsWhole
  BY DEF IInv
<1> QED
  BY <1>1, Inductive, PTL

\* The same of every jump, a go's included, once the masters are silent from
\* an accepted go to the jump.
THEOREM RunsAreWhole == ASSUME QuietAfterGo PROVE Spec => []RunsWhole
<1>1. IInv => RunsWhole
  BY DEF IInv, JumpsWhole
<1> QED
  BY <1>1, Inductive, PTL

\* persist: a seal word stands over the whole image it names, unless an
\* erase of the store was cut short and none has finished since.
THEOREM SealNamesWhole == Spec => []SealNamesWholeCopy
<1>1. IInv => SealNamesWholeCopy
  BY DEF IInv
<1> QED
  BY <1>1, Inductive, PTL

\* h_boot_seal: a node that says SEALED holds, first word included, the image
\* it was last offered.
THEOREM SealedWhole == Spec => []SealedIsWhole
<1>1. IInv => SealedIsWhole
  BY ImagesAssumption
  DEF IInv, SealedIsWhole, RamMatches, Bitmap, ImageCrcIs, Whole, Listens,
      SEALED, ERASED, SlotsOf
<1> QED
  BY <1>1, Inductive, PTL

\* chunk and seal: while the first word is kept back RAM has no vectors, and
\* a reset anywhere in a stream finds no application in it.
THEOREM UnsealedInvalid == Spec => []UnsealedIsInvalid
<1>1. IInv => UnsealedIsInvalid
  BY ImagesAssumption
  DEF IInv, UnsealedIsInvalid, RamMatches, Listens, ShapeOk
<1> QED
  BY <1>1, Inductive, PTL

\* persist never programs a word that does not read erased.
THEOREM PersistErased == Spec => []PersistFindsErased
<1>1. IInv => PersistFindsErased
  BY ImagesAssumption DEF IInv, PersistFindsErased, Persisting, SlotsOf
<1> QED
  BY <1>1, Inductive, PTL

=============================================================================
