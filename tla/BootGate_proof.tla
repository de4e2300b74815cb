--------------------------- MODULE BootGate_proof ---------------------------
(***************************************************************************)
(* That a node keeps the promise BootGate states: what a step does to the  *)
(* store, what the store is given up for, what a seal answered done has    *)
(* left in flash, then the refinement.                                     *)
(***************************************************************************)
EXTENDS BootNode_proof

-----------------------------------------------------------------------------
(* What one step does to the store.                                        *)

\* An erase of the store, finished or cut: nothing it leaves is sealed that
\* was not before.
Loses == job.step = "store_erase" /\ \A i \in Images : StoreSealed(i)' => StoreSealed(i)

\* A word or the seal is programmed over an erased seal.
Fills == job.step \in {"store_word", "store_seal"} /\ seal = Erased

StoreStep == UNCHANGED <<seal, copy>> \/ ((Loses \/ Fills) /\ mode # "app" /\ mode' # "app")

LEMMA NoApp ==
    ASSUME IInv, job.step \in StoreSteps
    PROVE  mode # "app" /\ s.offer \in Images
BY DEF IInv, Phases, Bitmap, StoreSteps, SealSteps, FlashSteps

LEMMA EraseLoses ==
    ASSUME IInv, job.step = "store_erase", seal' \in {seal, Erased, Torn},
           \A k \in Slots : copy'[k] \in {copy[k], Erased, Torn}
    PROVE  Loses
<1> SUFFICES ASSUME NEW i \in Images, StoreSealed(i)' PROVE StoreSealed(i)
  BY DEF Loses
<1>1. seal = i
  BY ImagesAssumption DEF StoreSealed
<1>2. \A k \in SlotsOf(i) : copy[k] = i
  BY ImagesAssumption, ImageTypes DEF StoreSealed, Whole
<1>3. copy[0] \in Shaped /\ copy[HeaderSlot] \in Shaped
  <2>1. 0 \in Slots /\ HeaderSlot \in Slots
    BY ImagesAssumption DEF Slots
  <2> QED
    BY <2>1, ImagesAssumption DEF StoreSealed, ShapeOk
<1> QED
  BY <1>1, <1>2, <1>3 DEF StoreSealed, ShapeOk, Whole

LEMMA CutMoves ==
    ASSUME IInv, CutShort
    PROVE  UNCHANGED <<seal, copy>> \/ ((Loses \/ Fills) /\ job.step \in StoreSteps)
<1>1. CASE job.step = "store_erase"
  <2>1. PICK gone, broken \in SUBSET SectorSlots(job.at) :
           copy' = [k \in Slots |-> IF k \in broken THEN Torn
                                    ELSE IF k \in gone THEN Erased ELSE copy[k]]
    BY <1>1 DEF CutShort
  <2>2. \A k \in Slots : copy'[k] \in {copy[k], Erased, Torn}
    BY <2>1
  <2>3. seal' \in {seal, Erased, Torn}
    BY <1>1 DEF CutShort
  <2> QED
    BY <1>1, <2>2, <2>3, EraseLoses DEF StoreSteps
<1>2. CASE job.step \in {"store_word", "store_seal"}
  BY <1>2 DEF IInv, Persisting, Fills, StoreSteps
<1>3. CASE job.step \notin StoreSteps
  BY <1>3 DEF CutShort, StoreSteps, flash
<1> QED
  BY <1>1, <1>2, <1>3 DEF StoreSteps

LEMMA StoreMoves ==
    ASSUME IInv, [Next]_vars
    PROVE  StoreStep
<1>1. CASE Ops
  <2>1. CASE \E i \in Images : Erase(i)
    BY <2>1 DEF Erase, StoreStep, flash
  <2>2. CASE \E session \in Sessions : Hold(session) \/ Go(session)
    BY <2>2 DEF Hold, Go, StoreStep, flash
  <2>3. CASE \E i \in Images, n \in Index : Chunk(n, i)
    BY <2>3 DEF Chunk, StoreStep, flash
  <2>4. CASE (\E unit \in Units : Assign(unit)) \/ Verify
             \/ (\E r \in Records : Record(r)) \/ \E persist \in BOOLEAN : Seal(persist)
    BY <2>4 DEF Assign, Verify, Record, Seal, StoreStep, flash
  <2> QED
    BY <1>1, <2>1, <2>2, <2>3, <2>4 DEF Ops
<1>2. CASE StoreErase
  <2>1. \A k \in Slots : copy'[k] \in {copy[k], Erased, Torn}
    BY <1>2 DEF StoreErase
  <2>2. seal' \in {seal, Erased, Torn} /\ job.step = "store_erase" /\ mode' = mode
    BY <1>2 DEF StoreErase
  <2> QED
    BY <2>1, <2>2, EraseLoses, NoApp DEF StoreStep, StoreSteps
<1>3. CASE StoreWord \/ StoreSeal
  <2>1. Fills /\ mode' = mode /\ job.step \in StoreSteps
    BY <1>3 DEF StoreWord, StoreSeal, Fills, IInv, Persisting, StoreSteps
  <2> QED
    BY <2>1, NoApp DEF StoreStep
<1>4. CASE Gate \/ CopyWord \/ Copied \/ RecordErase \/ RecordProgram \/ FirstWord
  BY <1>4 DEF Gate, CopyWord, Copied, RecordErase, RecordProgram, FirstWord,
              StoreStep, flash
<1>5. CASE FollowCore \/ JumpGo \/ JumpWindow
  BY <1>5 DEF FollowCore, JumpGo, JumpWindow, Jump, StoreStep, flash
<1>6. CASE FlashFails
  <2>1. CutShort /\ mode' = mode
    BY <1>6 DEF FlashFails
  <2> QED
    BY <2>1, CutMoves, NoApp DEF StoreStep
<1>7. CASE Resets
  <2>1. CutShort /\ mode' = "gate"
    BY <1>7 DEF Resets, WarmReset, PowerLoss, AppStay, Restart
  <2> QED
    BY <2>1, CutMoves, NoApp DEF StoreStep
<1>8. CASE UNCHANGED vars
  BY <1>8 DEF vars, flash, StoreStep
<1> QED
  BY <1>1, <1>2, <1>3, <1>4, <1>5, <1>6, <1>7, <1>8 DEF Next, Work

-----------------------------------------------------------------------------
(* What the store is given up for.                                         *)

\* An erase that has not begun has been asked for another image.
SparesStore == job.step = "store_erase" /\ job.at = 0 => ~StoreSealed(s.offer)

\* Every step towards the erase keeps what persist asked first.
LEMMA SparesStep ==
    ASSUME IInv, SparesStore, [Next]_vars
    PROVE  SparesStore'
<1>1. CASE \E persist \in BOOLEAN : Seal(persist)
  BY <1>1 DEF Seal, SparesStore, Job, Hears, Listens, flash
<1>2. CASE FirstWord
  <2>1. CASE SealInRam
    BY <1>2, <2>1 DEF SealInRam, SparesStore, Idle, Job
  <2>2. CASE SealToStore
    <3>1. s'.offer = s.offer /\ seal' = seal /\ copy' = copy
      BY <1>2, <2>2 DEF FirstWord, SealToStore, flash, IInv, TypeOK, CoreState
    <3>2. ~ StoreSealed(s.offer)'
      BY <2>2, <3>1 DEF SealToStore, StoreSealed, ShapeOk, Whole
    <3>3. job'.step = "store_erase"
      BY <2>2 DEF SealToStore, Step, Job
    <3> QED
      BY <3>1, <3>2, <3>3 DEF SparesStore, StoreSealed
  <2> QED
    BY <1>2, <2>1, <2>2 DEF FirstWord
<1>3. CASE StoreErase
  <2>1. job'.step = "store_word" \/ (job'.step = "store_erase" /\ job'.at = job.at + 1)
    BY <1>3 DEF StoreErase, Step, Job, IInv, TypeOK, JobState
  <2>2. job.at \in Nat
    BY DEF IInv, TypeOK, JobState
  <2>3. job'.at = job.at + 1 => job'.at # 0
    BY <2>2
  <2> QED
    BY <2>1, <2>3 DEF SparesStore
<1>4. CASE RecordErase \/ RecordProgram \/ StoreWord \/ StoreSeal \/ Copied
           \/ FlashFails \/ Resets
  <2>1. job'.step # "store_erase"
    BY <1>4 DEF RecordErase, RecordProgram, StoreWord, StoreSeal, Copied, FlashFails,
                Resets, WarmReset, PowerLoss, AppStay, Restart, Idle, Step, Job,
                IInv, TypeOK, JobState
  <2> QED
    BY <2>1 DEF SparesStore
<1>5. CASE Gate \/ CopyWord
  <2>1. job'.step # "store_erase"
    BY <1>5 DEF Gate, GateKeeps, GateWaits, GateCopies, BeginCopy, CopyWord, Job,
                IInv, TypeOK, JobState
  <2> QED
    BY <2>1 DEF SparesStore
<1>6. CASE FollowCore \/ JumpGo \/ JumpWindow
  <2>1. job'.step = "idle"
    BY <1>6 DEF FollowCore, JumpGo, JumpWindow, Jump, Listens
  <2> QED
    BY <2>1 DEF SparesStore
<1>7. CASE \/ \E session \in Sessions : Hold(session) \/ Go(session)
           \/ \E unit \in Units : Assign(unit)
           \/ \E i \in Images : Erase(i) \/ \E n \in Index : Chunk(n, i)
           \/ Verify \/ \E r \in Records : Record(r)
  <2>1. job'.step # "store_erase"
    <3>1. CASE \E i \in Images : Erase(i)
      <4>1. PICK i \in Images : Erase(i)
        BY <3>1
      <4>2. job.step = "idle" /\ (job' = job \/ job' = Job("copy", i, FALSE))
        BY <4>1 DEF Erase, EraseKeeps, EraseCopies, EraseClears, BeginCopy, Hears,
                    Listens
      <4> QED
        BY <4>2 DEF Job
    <3>2. CASE \E session \in Sessions : Hold(session) \/ Go(session)
      BY <3>2 DEF Hold, Go, Hears, Listens
    <3>3. CASE \E i \in Images, n \in Index : Chunk(n, i)
      BY <3>3 DEF Chunk, Hears, Listens
    <3>4. CASE (\E unit \in Units : Assign(unit)) \/ Verify \/ \E r \in Records : Record(r)
      BY <3>4 DEF Assign, Verify, Record, Hears, Listens
    <3> QED
      BY <1>7, <3>1, <3>2, <3>3, <3>4
  <2> QED
    BY <2>1 DEF SparesStore
<1>8. CASE UNCHANGED vars
  BY <1>8 DEF vars, flash, SparesStore, StoreSealed, ShapeOk, Whole
<1> QED
  BY <1>1, <1>2, <1>3, <1>4, <1>5, <1>6, <1>7, <1>8 DEF Next, Ops, Work

LEMMA Spares == Spec => []SparesStore
<1>1. Init => SparesStore
  BY DEF Init, SparesStore, Idle, Job
<1>2. IInv /\ SparesStore /\ [Next]_vars => SparesStore'
  BY SparesStep
<1> QED
  BY <1>1, <1>2, Inductive, PTL DEF Spec

\* The image a power-up with no master would run is given up for another
\* one only.
THEOREM GivenUpForAnother == Spec => StoreGivenUpForAnother
<1>1. ASSUME IInv, SparesStore, [Next]_vars, NEW i \in Images,
             StoreSealed(i), ~StoreSealed(i)'
      PROVE  job.step = "store_erase" /\ s.offer # i
  <2>1. ~ UNCHANGED <<seal, copy>>
    BY <1>1 DEF StoreSealed, ShapeOk, Whole
  <2>2. seal # Erased
    BY <1>1, ImagesAssumption DEF StoreSealed
  <2>3. job.step = "store_erase"
    BY <1>1, <2>1, <2>2, StoreMoves DEF StoreStep, Loses, Fills
  <2>4. job.at = 0
    <3>1. job.at \in 0..SectorOf(Size[s.offer]) /\ (job.at = 1 => seal = Erased)
      BY <1>1, <2>3 DEF IInv, Persisting
    <3> QED
      BY <2>2, <3>1 DEF SectorOf
  <2>5. ~ StoreSealed(s.offer)
    BY <1>1, <2>3, <2>4 DEF SparesStore
  <2> QED
    BY <1>1, <2>3, <2>5
<1>2. IInv /\ SparesStore /\ [Next]_vars
      => [\A i \in Images : StoreSealed(i) /\ ~StoreSealed(i)' =>
             job.step = "store_erase" /\ s.offer # i]_vars
  BY <1>1
<1> QED
  BY <1>2, Inductive, Spares, PTL DEF Spec, StoreGivenUpForAnother

-----------------------------------------------------------------------------
(* What a seal that is answered done has left behind.                      *)

\* Past program_record the record is in its sector.
RecordKept == job.step \in {"first"} \cup StoreSteps => s.record \in {None, sector}

\* Only program_record and a seal that found the record there lead past it.
LEMMA RecordKeptStep ==
    ASSUME IInv, RecordKept, [Next]_vars
    PROVE  RecordKept'
<1>1. CASE \E persist \in BOOLEAN : Seal(persist)
  BY <1>1 DEF Seal, RecordKept, Job, StoreSteps, flash
<1>2. CASE RecordErase \/ RecordProgram
  BY <1>2 DEF RecordErase, RecordProgram, RecordKept, Step, Job, StoreSteps
<1>3. CASE FirstWord \/ StoreErase \/ StoreWord \/ StoreSeal
  <2>1. job.step \in {"first"} \cup StoreSteps /\ sector' = sector
    BY <1>3 DEF FirstWord, StoreErase, StoreWord, StoreSeal, StoreSteps, flash
  <2>2. s'.record = s.record
    BY <1>3 DEF FirstWord, SealInRam, SealToStore, StoreErase, StoreWord, StoreSeal,
                Sealed, IInv, TypeOK, CoreState
  <2> QED
    BY <2>1, <2>2 DEF RecordKept
<1>4. CASE \/ \E session \in Sessions : Hold(session) \/ Go(session)
           \/ \E unit \in Units : Assign(unit)
           \/ \E i \in Images : Erase(i) \/ \E n \in Index : Chunk(n, i)
           \/ Verify \/ \E r \in Records : Record(r)
  <2>1. job'.step \in {"idle", "copy"}
    <3>1. CASE \E i \in Images : Erase(i)
      <4>1. PICK i \in Images : Erase(i)
        BY <3>1
      <4>2. job.step = "idle" /\ (job' = job \/ job' = Job("copy", i, FALSE))
        BY <4>1 DEF Erase, EraseKeeps, EraseCopies, EraseClears, BeginCopy, Hears,
                    Listens
      <4> QED
        BY <4>2 DEF Job
    <3>2. CASE \E session \in Sessions : Hold(session) \/ Go(session)
      BY <3>2 DEF Hold, Go, Hears, Listens
    <3>3. CASE \E i \in Images, n \in Index : Chunk(n, i)
      BY <3>3 DEF Chunk, Hears, Listens
    <3>4. CASE (\E unit \in Units : Assign(unit)) \/ Verify \/ \E r \in Records : Record(r)
      BY <3>4 DEF Assign, Verify, Record, Hears, Listens
    <3> QED
      BY <1>4, <3>1, <3>2, <3>3, <3>4
  <2> QED
    BY <2>1 DEF RecordKept, StoreSteps
<1>5. CASE Gate \/ CopyWord \/ Copied \/ FlashFails \/ Resets
           \/ FollowCore \/ JumpGo \/ JumpWindow
  <2>1. job'.step \in {"idle", "copy"}
    <3>1. CASE Gate \/ CopyWord
      BY <3>1 DEF Gate, GateKeeps, GateWaits, GateCopies, BeginCopy, CopyWord, Job,
                  IInv, TypeOK, JobState
    <3>2. CASE Copied \/ FlashFails \/ Resets
      BY <3>2 DEF Copied, FlashFails, Resets, WarmReset, PowerLoss, AppStay, Restart,
                  Idle, Job
    <3>3. CASE FollowCore \/ JumpGo \/ JumpWindow
      BY <3>3 DEF FollowCore, JumpGo, JumpWindow, Jump, Listens
    <3> QED
      BY <1>5, <3>1, <3>2, <3>3
  <2> QED
    BY <2>1 DEF RecordKept, StoreSteps
<1>6. CASE UNCHANGED vars
  BY <1>6 DEF vars, flash, RecordKept
<1> QED
  BY <1>1, <1>2, <1>3, <1>4, <1>5, <1>6 DEF Next, Ops, Work

LEMMA RecordIsKept == Spec => []RecordKept
<1>1. Init => RecordKept
  BY DEF Init, RecordKept, Idle, Job, StoreSteps
<1>2. IInv /\ RecordKept /\ [Next]_vars => RecordKept'
  BY RecordKeptStep
<1> QED
  BY <1>1, <1>2, Inductive, PTL DEF Spec

\* The step that ends a seal, from what the steps before it left.
LEMMA SealEnds ==
    ASSUME IInv, RecordKept, (FirstWord /\ job'.step = "idle") \/ StoreSeal
    PROVE  /\ s.record # None => sector' = s.record
           /\ Whole(ram', s.offer)
           /\ job.persist /\ s.offer \in Shaped => StoreSealed(s.offer)'
<1>1. job.step \in {"first", "store_seal"} /\ sector' = sector
  BY DEF FirstWord, StoreSeal, flash
<1>2. s.verified /\ s.offer \in Images /\ ImageCrcIs(s.offer)
  BY <1>1 DEF IInv, Phases, Bitmap, RamMatches, SealSteps, FlashSteps
<1>3. s.record # None => sector' = s.record
  BY <1>1 DEF RecordKept, StoreSteps
<1>4. CASE FirstWord /\ job'.step = "idle"
  <2>1. SealInRam
    BY <1>4 DEF FirstWord, SealToStore, Step, Job
  <2>2. job.persist => StoreSealed(s.offer)
    BY <2>1 DEF SealInRam
  <2>3. seal' = seal /\ copy' = copy /\ s'.offer = s.offer
    BY <1>4, <2>1 DEF FirstWord, SealInRam, Sealed, flash, IInv, TypeOK, CoreState
  <2>4. job.persist => StoreSealed(s.offer)'
    BY <2>2, <2>3 DEF StoreSealed, ShapeOk, Whole
  <2>5. \A k \in SlotsOf(s.offer) : ram'[k] = s.offer
    <3>1. SlotsOf(s.offer) \subseteq Slots
      BY <1>2, ImageTypes
    <3>2. ram \in [Slots -> Content]
      BY DEF IInv, TypeOK
    <3>3. ram' = IF s.first = None THEN ram ELSE [ram EXCEPT ![0] = s.first]
      BY <1>4 DEF FirstWord
    <3> QED
      BY <1>2, <3>1, <3>2, <3>3 DEF ImageCrcIs
  <2> QED
    BY <1>3, <2>4, <2>5 DEF Whole
<1>5. CASE StoreSeal
  <2>1. s.first = None /\ Whole(copy, s.offer)
    BY <1>5 DEF StoreSeal, IInv, Persisting, StoreSteps
  <2>2. seal' = s.offer /\ ram' = ram /\ copy' = copy /\ s'.offer = s.offer
    BY <1>5 DEF StoreSeal, Sealed, IInv, TypeOK, CoreState
  <2>3. Whole(ram', s.offer)
    BY <1>2, <2>1, <2>2 DEF ImageCrcIs, Whole
  <2>4. ASSUME s.offer \in Shaped PROVE StoreSealed(s.offer)'
    <3>1. 0 \in SlotsOf(s.offer) /\ HeaderSlot \in SlotsOf(s.offer)
      BY <1>2, <2>4, ImagesAssumption DEF SlotsOf
    <3>2. copy[0] = s.offer /\ copy[HeaderSlot] = s.offer
      BY <2>1, <3>1 DEF Whole
    <3> QED
      BY <2>1, <2>2, <2>4, <3>2 DEF StoreSealed, ShapeOk, Whole
  <2> QED
    BY <1>3, <2>3, <2>4
<1> QED
  BY <1>4, <1>5

\* seal, program_record and persist: a seal answered done has left nothing
\* undone, whatever step an earlier one failed or was cut at.
THEOREM SealLeavesNothing == Spec => SealFinishes
<1>1. IInv /\ RecordKept /\ [Next]_vars
      => [(FirstWord /\ job'.step = "idle") \/ StoreSeal =>
             /\ s.record # None => sector' = s.record
             /\ Whole(ram', s.offer)
             /\ job.persist /\ s.offer \in Shaped => StoreSealed(s.offer)']_vars
  BY SealEnds
<1> QED
  BY <1>1, Inductive, RecordIsKept, PTL DEF Spec, SealFinishes

-----------------------------------------------------------------------------
(* The refinement.                                                         *)

LEMMA KeptIs ==
    \A i \in Images : StoreSealed(i) => KeptImage = i /\ i \in Shaped
<1> SUFFICES ASSUME NEW i \in Images, StoreSealed(i)
             PROVE  KeptImage = i /\ i \in Shaped
  OBVIOUS
<1>1. seal = i
  BY DEF StoreSealed
<1>2. i \in Shaped
  <2>1. copy[0] = i
    BY ImagesAssumption DEF StoreSealed, Whole, SlotsOf
  <2> QED
    BY <2>1 DEF StoreSealed, ShapeOk
<1> QED
  BY <1>1, <1>2 DEF KeptImage

LEMMA KeptMoves ==
    ASSUME IInv, [Next]_vars
    PROVE  \/ KeptImage' = KeptImage
           \/ /\ mode # "app" /\ mode' # "app"
              /\ \/ KeptImage = None /\ KeptImage' \in Shaped
                 \/ KeptImage \in Shaped /\ KeptImage' = None
<1>0. StoreStep
  BY StoreMoves
<1>1. CASE UNCHANGED <<seal, copy>>
  BY <1>1 DEF KeptImage, StoreSealed, ShapeOk, Whole
<1>2. CASE Loses /\ mode # "app" /\ mode' # "app"
  <2>1. CASE \E i \in Images : StoreSealed(i)'
    <3>1. PICK i \in Images : StoreSealed(i)'
      BY <2>1
    <3>2. StoreSealed(i)
      BY <1>2, <3>1 DEF Loses
    <3>3. KeptImage = i /\ KeptImage' = i
      BY <3>1, <3>2, KeptIs DEF KeptImage, StoreSealed
    <3> QED
      BY <3>3
  <2>2. CASE \A i \in Images : ~ StoreSealed(i)'
    <3>1. KeptImage' = None
      BY <2>2 DEF KeptImage
    <3>2. KeptImage = None \/ KeptImage \in Shaped
      BY KeptIs DEF KeptImage
    <3> QED
      BY <1>2, <3>1, <3>2
  <2> QED
    BY <2>1, <2>2
<1>3. CASE Fills /\ mode # "app" /\ mode' # "app"
  <2>1. KeptImage = None
    BY <1>3, ImagesAssumption DEF Fills, KeptImage, StoreSealed
  <2>2. KeptImage' = None \/ KeptImage' \in Shaped
    <3>1. CASE \E i \in Images : StoreSealed(i)'
      <4>1. PICK i \in Images : StoreSealed(i)'
        BY <3>1
      <4>2. KeptImage' = i
        BY <4>1 DEF KeptImage, StoreSealed
      <4>3. copy'[0] = i /\ copy'[0] \in Shaped
        BY <4>1, ImagesAssumption DEF StoreSealed, ShapeOk, Whole, SlotsOf
      <4> QED
        BY <4>2, <4>3
    <3>2. CASE \A i \in Images : ~ StoreSealed(i)'
      BY <3>2 DEF KeptImage
    <3> QED
      BY <3>1, <3>2
  <2> QED
    BY <1>3, <2>1, <2>2
<1> QED
  BY <1>0, <1>1, <1>2, <1>3 DEF StoreStep

\* An application starts in a jump, ends in a reset, and in between nothing
\* moves what it runs from.
LEMMA RunMoves ==
    ASSUME IInv, IInv', QuietAfterGo, [Next]_vars
    PROVE  \/ RunImage' = RunImage
           \/ RunImage = None /\ RunImage' \in Shaped /\ UNCHANGED <<seal, copy>>
           \/ RunImage # None /\ RunImage' = None /\ UNCHANGED <<seal, copy>>
<1> DEFINE Stays == mode' = mode /\ (mode = "app" => ram' = ram /\ slot' = slot)
<1>0. ASSUME Stays PROVE RunImage' = RunImage
  BY <1>0 DEF RunImage, Whole
<1>1. CASE JumpGo \/ JumpWindow
  <2>1. RunsWhole' /\ mode' = "app" /\ mode = "serve" /\ UNCHANGED <<seal, copy>>
    BY <1>1 DEF JumpGo, JumpWindow, Jump, Listens, IInv, JumpsWhole, flash
  <2>2. slot'.image \in Shaped /\ Whole(ram, slot.image)'
    BY <2>1 DEF RunsWhole
  <2>3. RunImage' = slot'.image
    BY <2>1, <2>2, ImagesAssumption DEF RunImage
  <2> QED
    BY <2>1, <2>2, <2>3 DEF RunImage
<1>2. CASE Resets
  <2>1. mode' = "gate"
    BY <1>2 DEF Resets, WarmReset, PowerLoss, AppStay, Restart
  <2>2. CASE mode = "app"
    <3>1. job.step = "idle" /\ CutShort
      BY <1>2, <2>2 DEF IInv, Phases, Resets, WarmReset, PowerLoss, AppStay, Restart
    <3>2. UNCHANGED <<seal, copy>>
      BY <3>1 DEF CutShort, flash
    <3>3. RunImage # None
      BY <2>2, ImagesAssumption DEF RunImage
    <3> QED
      BY <2>1, <3>2, <3>3 DEF RunImage
  <2>3. CASE mode # "app"
    BY <2>1, <2>3 DEF RunImage
  <2> QED
    BY <2>2, <2>3
<1>3. CASE Ops
  <2>1. mode' = mode /\ mode = "serve"
    BY <1>3 DEF Ops, Hold, Go, Assign, Erase, Chunk, Verify, Record, Seal, Hears, Listens
  <2> QED
    BY <1>0, <2>1
<1>4. CASE Work \/ FlashFails \/ FollowCore
  <2>1. mode # "app"
    BY <1>4 DEF Work, Gate, CopyWord, Copied, CopiedAtGate, CopiedForErase, RecordErase,
                RecordProgram, FirstWord, StoreErase, StoreWord, StoreSeal, FlashFails,
                FollowCore, Listens, IInv, Phases, FlashSteps
  <2>2. mode' # "app"
    BY <1>4, <2>1 DEF Work, Gate, GateKeeps, GateWaits, GateCopies, Enter, CopyWord,
                Copied, CopiedAtGate, CopiedForErase, RecordErase, RecordProgram,
                FirstWord, StoreErase, StoreWord, StoreSeal, FlashFails, FollowCore
  <2> QED
    BY <2>1, <2>2 DEF RunImage
<1>5. CASE UNCHANGED vars
  BY <1>0, <1>5 DEF vars
<1> QED
  BY <1>1, <1>2, <1>3, <1>4, <1>5 DEF Next

\* boot_ready, persist and the jumps keep BootGate's promise, for every set of
\* images and every cut: with the masters silent from an accepted go, what
\* runs is whole and of this type, and the store changes only through empty and
\* never under an application.
THEOREM GateImplemented == ASSUME QuietAfterGo PROVE Spec => ImplementsGate
<1>1. Init => Promise!Init
  <2> SUFFICES ASSUME Init PROVE Promise!Init
    OBVIOUS
  <2>1. RunImage = None
    BY DEF Init, RunImage
  <2>2. KeptImage \in Shaped \cup {None}
    BY KeptIs DEF KeptImage
  <2> QED
    BY <2>1, <2>2 DEF Promise!Init
<1>2. IInv /\ IInv' /\ [Next]_vars => [Promise!Next]_(Promise!vars)
  <2> SUFFICES ASSUME IInv, IInv', [Next]_vars PROVE [Promise!Next]_(Promise!vars)
    OBVIOUS
  <2>1. UNCHANGED <<seal, copy>> => KeptImage' = KeptImage
    BY DEF KeptImage, StoreSealed, ShapeOk, Whole
  <2>2. mode # "app" => RunImage = None
    BY DEF RunImage
  <2>3. mode' # "app" => RunImage' = None
    BY DEF RunImage
  <2>4. None \notin Shaped
    BY ImagesAssumption
  <2> QED
    BY <2>1, <2>2, <2>3, <2>4, RunMoves, KeptMoves
    DEF Promise!Next, Promise!vars, Promise!Start, Promise!Stop, Promise!Keep, Promise!GiveUp
<1> QED
  BY <1>1, <1>2, Inductive, PTL DEF Spec, ImplementsGate, Promise!Spec

=============================================================================
