------------------------- MODULE StoredAudioProofs -------------------------
(***************************************************************************)
(* Proofs about what becomes of stored audio.                               *)
(*                                                                          *)
(* SessionArchive, for any set of sweepers and any number of faults:        *)
(* TypeOK /\ ArchiveInv is inductive, the safety properties follow from it, *)
(* and the specification implements DurableAudio.                           *)
(*                                                                          *)
(* Retention, for any library, policies and budgets: SweepTypeOK is         *)
(* inductive, and of every typed state plan_sweep's two passes compute the  *)
(* oldest-first minimum.                                                    *)
(***************************************************************************)
EXTENDS SessionArchive, Retention, FiniteSetTheorems, WellFoundedInduction,
        NaturalsInduction, TLAPS

\* The actors are distinct.
LEMMA ConstantFacts ==
  /\ Promoters = Sweepers \cup {Recorder} /\ Actors = Promoters \cup {Eraser}
  /\ Recorder \notin Sweepers /\ Eraser \notin Promoters
  /\ Speech \notin Actors /\ NoOne \notin Actors /\ Speech # NoOne
  /\ MaxFaults \in Nat
BY SweepersAssumption, MaxFaultsAssumption
   DEF Promoters, Actors, Recorder, Eraser, Speech, NoOne

\* The initial state satisfies the invariant.
LEMMA InitKeeps == Init => TypeOK /\ ArchiveInv
<1> SUFFICES ASSUME Init PROVE TypeOK /\ ArchiveInv
  OBVIOUS
<1> USE ConstantFacts DEF Init
<1>1. TypeFiles
  BY DEF TypeFiles
<1>2. TypeLibrary
  BY DEF TypeLibrary, Legs
<1>3. TypeLocals
  BY DEF TypeLocals, Positions
<1>4. LockInv /\ HeldInv /\ EraseInv
  BY DEF LockInv, HeldInv, EraseInv, Holding, Erasing, Deleted
<1>5. StageInv /\ GoneInv /\ ErasedInv
  BY DEF StageInv, GoneInv, ErasedInv, Copying, Published
<1>6. RowsInv /\ EncodeInv /\ PolicyInv
  BY DEF RowsInv, EncodeInv, PolicyInv, Blank
<1>7. TypeManifests
  BY DEF TypeManifests, Manifests, Blank
<1>8. QED
  BY <1>7, <1>1, <1>2, <1>3, <1>4, <1>5, <1>6 DEF TypeOK, ArchiveInv

\* The invariant is kept by the encoding half of a promotion.
LEMMA EncodeKeeps ==
  ASSUME TypeOK, ArchiveInv, NEW p \in Promoters, 
         Refresh(p) \/ PromoteStart(p) \/ EncodeCheck(p) \/ EncodeStart(p)
         \/ EncodeFinish(p) \/ EncodeWrite(p)
  PROVE  TypeFiles' /\ TypeLibrary' /\ TypeLocals' /\ ArchiveInv'
<1> USE ConstantFacts DEF ArchiveInv, TypeOK
<1> USE DEF files, library, locals, Go, Abort, Forget, AfterError, Released,
        NextLeg, Refresh, PromoteStart, EncodeCheck, EncodeStart, EncodeFinish,
        EncodeWrite, EncodesInPlace, WriteManifest, PublishedVerifies, Erasing,
        Holding, Copying, Published, Deleted, Covered, Transcribed, Projected, Legs
<1>1. TypeFiles'
  BY DEF TypeFiles, TypeLocals
<1>2. TypeLibrary'
  BY DEF TypeLibrary, TypeLocals
<1>3. TypeLocals'
  <2>1. pc' \in [Actors -> Positions]
    BY DEF TypeLocals, Positions, Promoting
  <2>2. todo' \in [Actors -> SUBSET Legs]
    BY DEF TypeLocals
  <2>3. faults' \in 0 .. MaxFaults
    BY DEF TypeLocals
  <2>4. QED
    BY <2>1, <2>2, <2>3 DEF TypeLocals
<1>4. LockInv'
  BY DEF TypeFiles, TypeLibrary, TypeLocals, LockInv
<1>5. HeldInv'
  BY DEF TypeFiles, TypeLibrary, TypeLocals, LockInv, HeldInv, EraseInv
<1>6. EraseInv'
  BY DEF TypeFiles, TypeLibrary, TypeLocals, EraseInv
<1>7. StageInv'
  <2>1. CASE Refresh(p)
    BY <2>1 DEF TypeFiles, TypeLibrary, TypeLocals, LockInv, HeldInv, EraseInv,
      StageInv
  <2>2. CASE PromoteStart(p)
    BY <2>2 DEF TypeFiles, TypeLibrary, TypeLocals, LockInv, HeldInv, EraseInv,
      StageInv
  <2>3. CASE EncodeCheck(p)
    BY <2>3 DEF TypeFiles, TypeLibrary, TypeLocals, LockInv, HeldInv, EraseInv,
      StageInv
  <2>4. CASE EncodeStart(p)
    BY <2>4 DEF TypeFiles, TypeLibrary, TypeLocals, LockInv, HeldInv, EraseInv,
      StageInv
  <2>5. CASE EncodeFinish(p)
    BY <2>5 DEF TypeFiles, TypeLibrary, TypeLocals, LockInv, HeldInv, EraseInv,
      StageInv
  <2>6. CASE EncodeWrite(p)
    BY <2>6 DEF TypeFiles, TypeLibrary, TypeLocals, LockInv, HeldInv, EraseInv,
      StageInv
  <2>7. QED
    BY <2>1, <2>2, <2>3, <2>4, <2>5, <2>6
<1>8. GoneInv'
  BY DEF TypeFiles, TypeLibrary, TypeLocals, LockInv, HeldInv, EraseInv, StageInv,
    GoneInv
<1>9. ErasedInv'
  <2>1. CASE Refresh(p)
    BY <2>1, ZenonT(40) DEF TypeFiles, TypeLibrary, TypeLocals, LockInv, HeldInv, EraseInv,
      ErasedInv
  <2>2. CASE PromoteStart(p)
    BY <2>2 DEF TypeFiles, TypeLibrary, TypeLocals, LockInv, HeldInv, EraseInv,
      ErasedInv
  <2>3. CASE EncodeCheck(p)
    BY <2>3 DEF TypeFiles, TypeLibrary, TypeLocals, LockInv, HeldInv, EraseInv,
      ErasedInv
  <2>4. CASE EncodeStart(p)
    BY <2>4 DEF TypeFiles, TypeLibrary, TypeLocals, LockInv, HeldInv, EraseInv,
      ErasedInv
  <2>5. CASE EncodeFinish(p)
    BY <2>5 DEF TypeFiles, TypeLibrary, TypeLocals, LockInv, HeldInv, EraseInv,
      ErasedInv
  <2>6. CASE EncodeWrite(p)
    BY <2>6 DEF TypeFiles, TypeLibrary, TypeLocals, LockInv, HeldInv, EraseInv,
      ErasedInv
  <2>7. QED
    BY <2>1, <2>2, <2>3, <2>4, <2>5, <2>6
<1>10. RowsInv'
  BY DEF TypeFiles, TypeLibrary, TypeLocals, EraseInv, StageInv, RowsInv
<1>11. EncodeInv'
  BY DEF TypeFiles, TypeLibrary, TypeLocals, EncodeInv, TypeManifests, Manifests,
    Blank
<1>12. PolicyInv'
  BY DEF TypeFiles, TypeLibrary, TypeLocals, EraseInv, PolicyInv
<1>13. QED
  BY <1>1, <1>2, <1>3, <1>4, <1>5, <1>6, <1>7, <1>8, <1>9, <1>10, <1>11, <1>12 DEF
    ArchiveInv

\* The invariant is kept by publication and the stamp.
LEMMA PublishKeeps ==
  ASSUME TypeOK, ArchiveInv, NEW p \in Promoters, 
         PublishStart(p) \/ MakeDest(p) \/ OpenSource(p) \/ CreatePart(p)
         \/ RenamePart(p) \/ StampRead(p) \/ StampWrite(p)
  PROVE  TypeFiles' /\ TypeLibrary' /\ TypeLocals' /\ ArchiveInv'
<1> USE ConstantFacts DEF ArchiveInv, TypeOK
<1> USE DEF files, library, locals, Go, Abort, Forget, AfterError, Released,
        NextLeg, PublishStart, MakeDest, OpenSource, CreatePart, RenamePart,
        StampRead, StampWrite, ReadManifest, WriteManifest, Erasing, Holding,
        Copying, Published, Deleted, Covered, Transcribed, Projected, Legs
<1>1. TypeFiles'
  BY ZenonT(40) DEF TypeFiles, TypeLocals
<1>2. TypeLibrary'
  BY DEF TypeLibrary, TypeLocals
<1>3. TypeLocals'
  <2>1. pc' \in [Actors -> Positions]
    BY DEF TypeLocals, Positions, Promoting
  <2>2. todo' \in [Actors -> SUBSET Legs]
    BY DEF TypeLocals
  <2>3. faults' \in 0 .. MaxFaults
    BY DEF TypeLocals
  <2>4. QED
    BY <2>1, <2>2, <2>3 DEF TypeLocals
<1>4. LockInv'
  BY DEF TypeFiles, TypeLibrary, TypeLocals, LockInv
<1>5. HeldInv'
  BY DEF TypeFiles, TypeLibrary, TypeLocals, LockInv, HeldInv, EraseInv
<1>6. EraseInv'
  BY DEF TypeFiles, TypeLibrary, TypeLocals, EraseInv
<1>7. StageInv'
  BY DEF TypeFiles, TypeLibrary, TypeLocals, LockInv, HeldInv, EraseInv, StageInv
<1>8. GoneInv'
  BY DEF TypeFiles, TypeLibrary, TypeLocals, LockInv, HeldInv, EraseInv, StageInv,
    GoneInv
<1>9. ErasedInv'
  <2>1. CASE PublishStart(p)
    BY <2>1 DEF TypeFiles, TypeLibrary, TypeLocals, LockInv, HeldInv, EraseInv,
      ErasedInv
  <2>2. CASE MakeDest(p)
    BY <2>2 DEF TypeFiles, TypeLibrary, TypeLocals, LockInv, HeldInv, EraseInv,
      ErasedInv
  <2>3. CASE OpenSource(p)
    BY <2>3 DEF TypeFiles, TypeLibrary, TypeLocals, LockInv, HeldInv, EraseInv,
      ErasedInv
  <2>4. CASE CreatePart(p)
    BY <2>4 DEF TypeFiles, TypeLibrary, TypeLocals, LockInv, HeldInv, EraseInv,
      ErasedInv
  <2>5. CASE RenamePart(p)
    BY <2>5 DEF TypeFiles, TypeLibrary, TypeLocals, LockInv, HeldInv, EraseInv,
      ErasedInv
  <2>6. CASE StampRead(p)
    BY <2>6 DEF TypeFiles, TypeLibrary, TypeLocals, LockInv, HeldInv, EraseInv,
      ErasedInv
  <2>7. CASE StampWrite(p)
    BY <2>7 DEF TypeFiles, TypeLibrary, TypeLocals, LockInv, HeldInv, EraseInv,
      ErasedInv
  <2>8. QED
    BY <2>1, <2>2, <2>3, <2>4, <2>5, <2>6, <2>7
<1>10. RowsInv'
  BY DEF TypeFiles, TypeLibrary, TypeLocals, EraseInv, StageInv, RowsInv
<1>11. EncodeInv'
  BY DEF TypeFiles, TypeLibrary, TypeLocals, EncodeInv, TypeManifests, Manifests,
    Blank
<1>12. PolicyInv'
  BY DEF TypeFiles, TypeLibrary, TypeLocals, EraseInv, PolicyInv
<1>13. QED
  BY <1>1, <1>2, <1>3, <1>4, <1>5, <1>6, <1>7, <1>8, <1>9, <1>10, <1>11, <1>12 DEF
    ArchiveInv

\* The invariant is kept by retirement and recording.
LEMMA RetireKeeps ==
  ASSUME TypeOK, ArchiveInv, NEW p \in Promoters, 
         RetireVerify(p) \/ RetireRename(p) \/ RetireRemove(p)
         \/ CheckTombstone(p) \/ Record(p)
  PROVE  TypeFiles' /\ TypeLibrary' /\ TypeLocals' /\ ArchiveInv'
<1> USE ConstantFacts DEF ArchiveInv, TypeOK
<1> USE DEF files, library, locals, Go, Abort, Forget, AfterError, Released,
        NextLeg, RetireVerify, RetireRename, RetireRemove, CheckTombstone, Record,
        PublishedVerifies, AfterSuccess, Erasing, Holding, Copying, Published,
        Deleted, Covered, Transcribed, Projected, Legs
<1>1. TypeFiles'
  BY DEF TypeFiles, TypeLocals
<1>2. TypeLibrary'
  BY DEF TypeLibrary, TypeLocals
<1>3. TypeLocals'
  <2>1. pc' \in [Actors -> Positions]
    BY DEF TypeLocals, Positions, Promoting
  <2>2. todo' \in [Actors -> SUBSET Legs]
    BY DEF TypeLocals
  <2>3. faults' \in 0 .. MaxFaults
    BY DEF TypeLocals
  <2>4. QED
    BY <2>1, <2>2, <2>3 DEF TypeLocals
<1>4. LockInv'
  BY DEF TypeFiles, TypeLibrary, TypeLocals, LockInv
<1>5. HeldInv'
  BY DEF TypeFiles, TypeLibrary, TypeLocals, LockInv, HeldInv, EraseInv
<1>6. EraseInv'
  BY DEF TypeFiles, TypeLibrary, TypeLocals, EraseInv
<1>7. StageInv'
  BY DEF TypeFiles, TypeLibrary, TypeLocals, LockInv, HeldInv, EraseInv, StageInv
<1>8. GoneInv'
  BY DEF TypeFiles, TypeLibrary, TypeLocals, LockInv, HeldInv, EraseInv, StageInv,
    GoneInv
<1>9. ErasedInv'
  BY DEF TypeFiles, TypeLibrary, TypeLocals, LockInv, HeldInv, EraseInv, ErasedInv
<1>10. RowsInv'
  BY DEF TypeFiles, TypeLibrary, TypeLocals, EraseInv, StageInv, RowsInv
<1>11. EncodeInv'
  BY DEF TypeFiles, TypeLibrary, TypeLocals, EncodeInv, TypeManifests, Manifests,
    Blank
<1>12. PolicyInv'
  BY DEF TypeFiles, TypeLibrary, TypeLocals, EraseInv, PolicyInv
<1>13. QED
  BY <1>1, <1>2, <1>3, <1>4, <1>5, <1>6, <1>7, <1>8, <1>9, <1>10, <1>11, <1>12 DEF
    ArchiveInv

\* The invariant is kept by the recorder before it promotes.
LEMMA PersistKeeps ==
  ASSUME TypeOK, ArchiveInv, 
         Persist
  PROVE  TypeFiles' /\ TypeLibrary' /\ TypeLocals' /\ ArchiveInv'
<1> USE ConstantFacts DEF ArchiveInv, TypeOK
<1> USE DEF files, library, locals, Go, Abort, Forget, AfterError, Released,
        NextLeg, Persist, Finalize, PersistMeeting, CheckMeeting, ClaimRead,
        ClaimWrite, ReadManifest, WriteManifest, Erasing, Holding, Copying,
        Published, Deleted, Covered, Transcribed, Projected, Legs
<1>1. TypeFiles'
  BY DEF TypeFiles, TypeLocals
<1>2. TypeLibrary'
  BY DEF TypeLibrary, TypeLocals
<1>3. TypeLocals'
  <2>1. pc' \in [Actors -> Positions]
    BY DEF TypeLocals, Positions, Promoting
  <2>2. todo' \in [Actors -> SUBSET Legs]
    BY DEF TypeLocals
  <2>3. faults' \in 0 .. MaxFaults
    BY DEF TypeLocals
  <2>4. QED
    BY <2>1, <2>2, <2>3 DEF TypeLocals
<1>4. LockInv'
  BY DEF TypeFiles, TypeLibrary, TypeLocals, LockInv
<1>5. HeldInv'
  BY DEF TypeFiles, TypeLibrary, TypeLocals, LockInv, HeldInv, EraseInv
<1>6. EraseInv'
  BY DEF TypeFiles, TypeLibrary, TypeLocals, EraseInv
<1>7. StageInv'
  BY DEF TypeFiles, TypeLibrary, TypeLocals, LockInv, HeldInv, EraseInv, StageInv
<1>8. GoneInv'
  BY DEF TypeFiles, TypeLibrary, TypeLocals, LockInv, HeldInv, EraseInv, StageInv,
    GoneInv
<1>9. ErasedInv'
  BY ZenonT(40) DEF TypeFiles, TypeLibrary, TypeLocals, LockInv, HeldInv, EraseInv, ErasedInv
<1>10. RowsInv'
  BY DEF TypeFiles, TypeLibrary, TypeLocals, EraseInv, StageInv, RowsInv
<1>11. EncodeInv'
  BY DEF TypeFiles, TypeLibrary, TypeLocals, EncodeInv, TypeManifests, Manifests,
    Blank
<1>12. PolicyInv'
  BY DEF TypeFiles, TypeLibrary, TypeLocals, EraseInv, PolicyInv
<1>13. QED
  BY <1>1, <1>2, <1>3, <1>4, <1>5, <1>6, <1>7, <1>8, <1>9, <1>10, <1>11, <1>12 DEF
    ArchiveInv

\* The invariant is kept by the sweeper.
LEMMA SweepKeeps ==
  ASSUME TypeOK, ArchiveInv, NEW s \in Sweepers, 
         Sweep(s)
  PROVE  TypeFiles' /\ TypeLibrary' /\ TypeLocals' /\ ArchiveInv'
<1> USE ConstantFacts DEF ArchiveInv, TypeOK
<1> USE DEF files, library, locals, Go, Abort, Forget, AfterError, Released,
        NextLeg, Sweep, Resume, ResumeAt, Pending, PlanSweep, Unlink, MarkDeleted,
        Erasing, Holding, Copying, Published, Deleted, Covered, Transcribed,
        Projected, Legs
<1>1. TypeFiles'
  BY DEF TypeFiles, TypeLocals
<1>2. TypeLibrary'
  BY DEF TypeLibrary, TypeLocals
<1>3. TypeLocals'
  <2>1. pc' \in [Actors -> Positions]
    BY DEF TypeLocals, Positions, Promoting
  <2>2. todo' \in [Actors -> SUBSET Legs]
    BY DEF TypeLocals
  <2>3. faults' \in 0 .. MaxFaults
    BY DEF TypeLocals
  <2>4. QED
    BY <2>1, <2>2, <2>3 DEF TypeLocals
<1>4. LockInv'
  BY DEF TypeFiles, TypeLibrary, TypeLocals, LockInv
<1>5. HeldInv'
  BY DEF TypeFiles, TypeLibrary, TypeLocals, LockInv, HeldInv, EraseInv
<1>6. EraseInv'
  BY DEF TypeFiles, TypeLibrary, TypeLocals, EraseInv
<1>7. StageInv'
  BY DEF TypeFiles, TypeLibrary, TypeLocals, LockInv, HeldInv, EraseInv, StageInv
<1>8. GoneInv'
  BY DEF TypeFiles, TypeLibrary, TypeLocals, LockInv, HeldInv, EraseInv, StageInv,
    GoneInv
<1>9. ErasedInv'
  BY DEF TypeFiles, TypeLibrary, TypeLocals, LockInv, HeldInv, EraseInv, ErasedInv
<1>10. RowsInv'
  BY DEF TypeFiles, TypeLibrary, TypeLocals, EraseInv, StageInv, RowsInv
<1>11. EncodeInv'
  BY DEF TypeFiles, TypeLibrary, TypeLocals, EncodeInv, TypeManifests, Manifests,
    Blank
<1>12. PolicyInv'
  BY DEF TypeFiles, TypeLibrary, TypeLocals, EraseInv, PolicyInv
<1>13. QED
  BY <1>1, <1>2, <1>3, <1>4, <1>5, <1>6, <1>7, <1>8, <1>9, <1>10, <1>11, <1>12 DEF
    ArchiveInv

\* The invariant is kept by users, the clock, the speech worker and a crash.
LEMMA EnvironmentKeeps ==
  ASSUME TypeOK, ArchiveInv, 
         Environment \/ SpeechEnd
  PROVE  TypeFiles' /\ TypeLibrary' /\ TypeLocals' /\ ArchiveInv'
<1> USE ConstantFacts DEF ArchiveInv, TypeOK
<1> USE DEF files, library, locals, Go, Abort, Forget, AfterError, Released,
        NextLeg, Environment, SpeechEnd, EraseMeeting, SpeechStart, ImportCapture,
        Expire, Crash, Erasing, Holding, Copying, Published, Deleted, Covered,
        Transcribed, Projected, Legs
<1>1. TypeFiles'
  BY DEF TypeFiles, TypeLocals
<1>2. TypeLibrary'
  <2>1. CASE EraseMeeting
    BY <2>1 DEF TypeLibrary, TypeLocals
  <2>2. CASE SpeechStart
    BY <2>2 DEF TypeLibrary, TypeLocals
  <2>3. CASE ImportCapture
    BY <2>3 DEF TypeLibrary, TypeLocals
  <2>4. CASE Expire
    BY <2>4 DEF TypeLibrary, TypeLocals
  <2>5. CASE Crash
    BY <2>5 DEF TypeLibrary, TypeLocals
  <2>6. CASE SpeechEnd
    BY <2>6 DEF TypeLibrary, TypeLocals
  <2>7. QED
    BY <2>1, <2>2, <2>3, <2>4, <2>5, <2>6 DEF Environment
<1>3. TypeLocals'
  <2>1. pc' \in [Actors -> Positions]
    BY DEF TypeLocals, Positions, Promoting
  <2>2. todo' \in [Actors -> SUBSET Legs]
    BY DEF TypeLocals
  <2>3. faults' \in 0 .. MaxFaults
    BY DEF TypeLocals
  <2>4. QED
    BY <2>1, <2>2, <2>3 DEF TypeLocals
<1>4. LockInv'
  BY DEF TypeFiles, TypeLibrary, TypeLocals, LockInv
<1>5. HeldInv'
  BY DEF TypeFiles, TypeLibrary, TypeLocals, LockInv, HeldInv, EraseInv
<1>6. EraseInv'
  BY DEF TypeFiles, TypeLibrary, TypeLocals, EraseInv
<1>7. StageInv'
  BY DEF TypeFiles, TypeLibrary, TypeLocals, LockInv, HeldInv, EraseInv, StageInv
<1>8. GoneInv'
  BY DEF TypeFiles, TypeLibrary, TypeLocals, LockInv, HeldInv, EraseInv, StageInv,
    GoneInv
<1>9. ErasedInv'
  <2>1. CASE EraseMeeting
    BY <2>1 DEF TypeFiles, TypeLibrary, TypeLocals, LockInv, HeldInv, EraseInv,
      ErasedInv
  <2>2. CASE SpeechStart
    BY <2>2 DEF TypeFiles, TypeLibrary, TypeLocals, LockInv, HeldInv, EraseInv,
      ErasedInv
  <2>3. CASE ImportCapture
    BY <2>3 DEF TypeFiles, TypeLibrary, TypeLocals, LockInv, HeldInv, EraseInv,
      ErasedInv
  <2>4. CASE Expire
    BY <2>4 DEF TypeFiles, TypeLibrary, TypeLocals, LockInv, HeldInv, EraseInv,
      ErasedInv
  <2>5. CASE Crash
    BY <2>5 DEF TypeFiles, TypeLibrary, TypeLocals, LockInv, HeldInv, EraseInv,
      ErasedInv
  <2>6. CASE SpeechEnd
    BY <2>6 DEF TypeFiles, TypeLibrary, TypeLocals, LockInv, HeldInv, EraseInv,
      ErasedInv
  <2>7. QED
    BY <2>1, <2>2, <2>3, <2>4, <2>5, <2>6 DEF Environment
<1>10. RowsInv'
  BY DEF TypeFiles, TypeLibrary, TypeLocals, EraseInv, StageInv, RowsInv
<1>11. EncodeInv'
  BY DEF TypeFiles, TypeLibrary, TypeLocals, EncodeInv, TypeManifests, Manifests,
    Blank
<1>12. PolicyInv'
  BY DEF TypeFiles, TypeLibrary, TypeLocals, EraseInv, PolicyInv
<1>13. QED
  BY <1>1, <1>2, <1>3, <1>4, <1>5, <1>6, <1>7, <1>8, <1>9, <1>10, <1>11, <1>12 DEF
    ArchiveInv

\* The invariant is kept by a deletion's unlinking and an I/O error.
LEMMA EraseKeeps ==
  ASSUME TypeOK, ArchiveInv, NEW a \in Actors, 
         Erase(a) \/ IoError(a)
  PROVE  TypeFiles' /\ TypeLibrary' /\ TypeLocals' /\ ArchiveInv'
<1> USE ConstantFacts DEF ArchiveInv, TypeOK
<1> USE DEF files, library, locals, Go, Abort, Forget, AfterError, Released,
        NextLeg, Erase, UnlinkSession, UnlinkMedia, IoError, Fallible, Erasing,
        Holding, Copying, Published, Deleted, Covered, Transcribed, Projected, Legs
<1>1. TypeFiles'
  BY DEF TypeFiles, TypeLocals
<1>2. TypeLibrary'
  BY DEF TypeLibrary, TypeLocals
<1>3. TypeLocals'
  <2>1. pc' \in [Actors -> Positions]
    BY DEF TypeLocals, Positions, Promoting
  <2>2. todo' \in [Actors -> SUBSET Legs]
    BY DEF TypeLocals
  <2>3. faults' \in 0 .. MaxFaults
    BY DEF TypeLocals
  <2>4. QED
    BY <2>1, <2>2, <2>3 DEF TypeLocals
<1>4. LockInv'
  BY DEF TypeFiles, TypeLibrary, TypeLocals, LockInv
<1>5. HeldInv'
  BY DEF TypeFiles, TypeLibrary, TypeLocals, LockInv, HeldInv, EraseInv
<1>6. EraseInv'
  BY DEF TypeFiles, TypeLibrary, TypeLocals, EraseInv
<1>7. StageInv'
  BY DEF TypeFiles, TypeLibrary, TypeLocals, LockInv, HeldInv, EraseInv, StageInv
<1>8. GoneInv'
  BY DEF TypeFiles, TypeLibrary, TypeLocals, LockInv, HeldInv, EraseInv, StageInv,
    GoneInv
<1>9. ErasedInv'
  BY ZenonT(40) DEF TypeFiles, TypeLibrary, TypeLocals, LockInv, HeldInv, EraseInv, ErasedInv
<1>10. RowsInv'
  BY DEF TypeFiles, TypeLibrary, TypeLocals, EraseInv, StageInv, RowsInv
<1>11. EncodeInv'
  BY DEF TypeFiles, TypeLibrary, TypeLocals, EncodeInv, TypeManifests, Manifests,
    Blank
<1>12. PolicyInv'
  BY DEF TypeFiles, TypeLibrary, TypeLocals, EraseInv, PolicyInv
<1>13. QED
  BY <1>1, <1>2, <1>3, <1>4, <1>5, <1>6, <1>7, <1>8, <1>9, <1>10, <1>11, <1>12 DEF
    ArchiveInv

\* Every manifest, on disk or in hand, keeps its shape.
LEMMA ManifestsKept ==
  ASSUME TypeOK, [Next]_vars
  PROVE  TypeManifests'
<1> USE DEF TypeOK, TypeManifests, files, locals
<1> Blank \in Manifests
  BY DEF Blank, Manifests
<1> Promoters \subseteq Actors /\ Sweepers \subseteq Actors /\ Recorder \in Promoters
  BY ConstantFacts
<1>1. ASSUME NEW a \in Actors, Abort(a) PROVE TypeManifests'
  BY <1>1 DEF Abort, Forget
<1>2. ASSUME NEW a \in Actors, NEW from, NEW to, ReadManifest(a, from, to)
      PROVE  TypeManifests'
  BY <1>1, <1>2 DEF ReadManifest
<1>3. ASSUME NEW a \in Actors, NEW m \in Manifests, NEW to, WriteManifest(a, m, to)
      PROVE  TypeManifests'
  BY <1>1, <1>3 DEF WriteManifest
<1>4. CASE Persist
  <2>1. CASE Finalize
    BY <2>1 DEF Finalize, Manifests
  <2>2. CASE PersistMeeting \/ CheckMeeting
    BY <2>2, <1>1 DEF PersistMeeting, CheckMeeting
  <2>3. CASE ClaimRead
    BY <2>3, <1>2 DEF ClaimRead
  <2>4. CASE ClaimWrite
    <3>1. [snap[Recorder] EXCEPT !.claim = TRUE] \in Manifests
      BY DEF Manifests
    <3>2. QED
      BY <2>4, <3>1, <1>3 DEF ClaimWrite
  <2>5. QED
    BY <1>4, <2>1, <2>2, <2>3, <2>4 DEF Persist
<1>5. ASSUME NEW p \in Promoters, Promote(p) PROVE TypeManifests'
  <2>1. CASE EncodeStart(p)
    <3>1. \A e \in {"inplace", "generation"} : [manifest EXCEPT !.encoded = e] \in Manifests
      BY DEF Manifests
    <3>2. CASE ~Abort(p)
      BY <2>1, <3>1, <3>2 DEF EncodeStart
    <3>3. QED
      BY <3>2, <1>1
  <2>2. CASE EncodeWrite(p)
    BY <2>2, <1>3 DEF EncodeWrite
  <2>3. CASE StampRead(p)
    BY <2>3, <1>2 DEF StampRead
  <2>4. CASE StampWrite(p)
    <3>1. [snap[p] EXCEPT !.promoted = TRUE] \in Manifests
      BY DEF Manifests
    <3>2. QED
      BY <2>4, <3>1, <1>3 DEF StampWrite
  <2>5. CASE Refresh(p) \/ PromoteStart(p) \/ EncodeCheck(p) \/ EncodeFinish(p)
             \/ PublishStart(p) \/ MakeDest(p) \/ OpenSource(p) \/ CreatePart(p)
             \/ RenamePart(p)
    BY <2>5, <1>1 DEF Refresh, PromoteStart, EncodeCheck, EncodeFinish, PublishStart,
      MakeDest, OpenSource, CreatePart, RenamePart
  <2>6. CASE RetireVerify(p) \/ RetireRename(p) \/ RetireRemove(p)
             \/ CheckTombstone(p) \/ Record(p)
    BY <2>6, <1>1 DEF RetireVerify, RetireRename, RetireRemove, CheckTombstone, Record
  <2>7. QED
    BY <1>5, <2>1, <2>2, <2>3, <2>4, <2>5, <2>6 DEF Promote
<1>6. ASSUME NEW s \in Sweepers, Sweep(s) PROVE TypeManifests'
  BY <1>6 DEF Sweep, Resume, PlanSweep, Unlink, MarkDeleted
<1>7. CASE Environment \/ SpeechEnd
  BY <1>7 DEF Environment, EraseMeeting, SpeechStart, ImportCapture, Expire, Crash,
    SpeechEnd
<1>8. ASSUME NEW a \in Actors, Erase(a) \/ IoError(a) PROVE TypeManifests'
  BY <1>8 DEF Erase, UnlinkSession, UnlinkMedia, IoError, Forget
<1>9. CASE UNCHANGED vars
  BY <1>9 DEF vars
<1>10. QED
  BY <1>4, <1>5, <1>6, <1>7, <1>8, <1>9 DEF Next

\* Every step keeps the invariant.
LEMMA NextKeeps ==
  ASSUME TypeOK, ArchiveInv, [Next]_vars
  PROVE  TypeOK' /\ ArchiveInv'
<1>1. TypeManifests'
  BY ManifestsKept
<1>2. TypeFiles' /\ TypeLibrary' /\ TypeLocals' /\ ArchiveInv'
  <2>1. CASE Persist
    BY <2>1, PersistKeeps
  <2>2. CASE Environment \/ SpeechEnd
    BY <2>2, EnvironmentKeeps
  <2>3. ASSUME NEW p \in Promoters, Promote(p)
        PROVE  TypeFiles' /\ TypeLibrary' /\ TypeLocals' /\ ArchiveInv'
    BY <2>3, EncodeKeeps, PublishKeeps, RetireKeeps DEF Promote
  <2>4. ASSUME NEW s \in Sweepers, Sweep(s)
        PROVE  TypeFiles' /\ TypeLibrary' /\ TypeLocals' /\ ArchiveInv'
    BY <2>4, SweepKeeps
  <2>5. ASSUME NEW a \in Actors, Erase(a) \/ IoError(a)
        PROVE  TypeFiles' /\ TypeLibrary' /\ TypeLocals' /\ ArchiveInv'
    BY <2>5, EraseKeeps
  <2>6. CASE UNCHANGED vars
    BY <2>6 DEF vars, files, library, locals, TypeOK, TypeFiles, TypeLibrary,
      TypeLocals, ArchiveInv, LockInv, HeldInv, EraseInv, StageInv, GoneInv, ErasedInv,
      RowsInv, EncodeInv, PolicyInv, Covered, Deleted, Transcribed
  <2>7. QED
    BY <2>1, <2>2, <2>3, <2>4, <2>5, <2>6 DEF Next
<1>3. QED
  BY <1>1, <1>2 DEF TypeOK

\* The inductive invariant holds in every reachable state: the lock protocol,
\* what each stage of promote knows, and what a finished deletion leaves.
THEOREM ArchiveInvariance == Spec => [](TypeOK /\ ArchiveInv)
<1>1. TypeOK /\ ArchiveInv /\ [Next]_vars => (TypeOK /\ ArchiveInv)'
  BY NextKeeps
<1>2. QED
  BY <1>1, InitKeeps, PTL DEF Spec

\* Type correctness of the archive.
THEOREM ArchiveTypes == Spec => []TypeOK
BY ArchiveInvariance, PTL

\* No step of any promoter, sweeper or crash loses the last copy of a track of
\* a meeting nobody deleted (retire's verification before the rename).
THEOREM AudioIsNeverLost == Spec => []AudioSurvives
<1>1. TypeOK /\ ArchiveInv => AudioSurvives
  BY DEF TypeOK, TypeFiles, TypeLibrary, ArchiveInv, GoneInv, PolicyInv, Deleted, Covered,
    AudioSurvives
<1>2. QED
  BY <1>1, ArchiveInvariance, PTL

\* No session directory is given up while speech waits in it (retirement_guard
\* under the capture-owner lock).
THEOREM SpeechIsNeverLost == Spec => []RetiredAfterTranscription
<1>1. ArchiveInv => RetiredAfterTranscription
  BY DEF ArchiveInv, GoneInv, Deleted, RetiredAfterTranscription
<1>2. QED
  BY <1>1, ArchiveInvariance, PTL

\* The library's complete rows point at published audio (record comes last).
THEOREM RowsAreBacked == Spec => []RowsPointAtAudio
<1>1. ArchiveInv => RowsPointAtAudio
  BY DEF ArchiveInv, RowsInv, RowsPointAtAudio
<1>2. QED
  BY <1>1, ArchiveInvariance, PTL

\* A finished deletion is final, whatever publishers were under way
\* (delete_meeting_in removes the sources before the destination).
THEOREM DeletionStaysFinal == Spec => []DeletionIsFinal
<1>1. ArchiveInv => DeletionIsFinal
  BY DEF ArchiveInv, ErasedInv, DeletionIsFinal
<1>2. QED
  BY <1>1, ArchiveInvariance, PTL

\* The manifest never names an unfinished encode (replacement generations).
THEOREM EncodesAreWhole == Spec => []EncodedIsWhole
<1>1. ArchiveInv => EncodedIsWhole
  BY DEF ArchiveInv, EncodeInv, EncodedIsWhole
<1>2. QED
  BY <1>1, ArchiveInvariance, PTL

\* What DurableAudio sees, unchanged.
Unseen == /\ (dir' = "live") = (dir = "live") /\ media' = media /\ erased' = erased
          /\ (meeting' = "deleted") = (meeting = "deleted")
          /\ (evicted' = evicted \/ meeting = "deleted")

\* Steps DurableAudio does not see are stutters of it.
LEMMA UnseenStutters == Unseen => UNCHANGED Durable!audio
BY DEF Unseen, Durable!audio

\* A step of the archive that it does see is one of its actions.
LEMMA RenameImplements ==
  ASSUME TypeOK, ArchiveInv, NEW p \in Promoters, RenamePart(p), ~Abort(p)
  PROVE  Durable!AbstractNext
<1> DEFINE l == NextLeg(todo[p])
<1>1. l \in Legs
  BY DEF NextLeg, Legs
<1>2. /\ media' = media \cup {l} /\ evicted' = evicted \ {l} /\ l \in parts
      /\ UNCHANGED <<dir, meeting, erased>>
  BY DEF RenamePart
<1>3. dir = "live" \/ meeting = "deleted"
  BY DEF ArchiveInv, HeldInv, Holding, RenamePart, Deleted
<1>4. ~erased
  BY <1>2 DEF ArchiveInv, ErasedInv
<1>5. Durable!Publish(l)
  BY <1>2, <1>3, <1>4 DEF Durable!Publish
<1>6. QED
  BY <1>1, <1>5 DEF Durable!AbstractNext

\* Giving up the session directory is Retire, or RemoveSource in a deletion.
LEMMA RetireImplements ==
  ASSUME TypeOK, ArchiveInv, NEW p \in Promoters, RetireRename(p), ~Abort(p)
  PROVE  Durable!AbstractNext
<1>1. dir = "live" /\ dir' = "retired" /\ UNCHANGED <<media, library>>
  BY DEF RetireRename
<1>2. Deleted \/ Covered
  BY DEF ArchiveInv, StageInv, Published, RetireRename
<1>3. CASE Deleted
  BY <1>1, <1>3 DEF Durable!AbstractNext, Durable!RemoveSource, Deleted, library
<1>4. CASE ~Deleted /\ Covered
  BY <1>1, <1>4 DEF Durable!AbstractNext, Durable!Retire, Deleted, Covered, library
<1>5. QED
  BY <1>2, <1>3, <1>4

\* A sweep's unlink is Evict, or no step when the file had already gone.
LEMMA UnlinkImplements ==
  ASSUME TypeOK, ArchiveInv, NEW s \in Sweepers, Unlink(s)
  PROVE  Unseen \/ Durable!AbstractNext
<1> DEFINE l == NextLeg(todo[s])
<1>1. l \in Legs
  BY DEF NextLeg, Legs
<1>2. UNCHANGED <<dir, meeting, erased>>
  BY DEF Unlink
<1>3. CASE UNCHANGED <<media, evicted>>
  BY <1>2, <1>3 DEF Unseen
<1>4. CASE media' = media \ {l} /\ evicted' = evicted \cup {l}
  <2>1. l \in todo[s]
    BY ConstantFacts DEF TypeOK, TypeLocals, ArchiveInv, RowsInv, Unlink, NextLeg, Legs
  <2>2. Deleted \/ l \in media \cup evicted
    BY <2>1 DEF ArchiveInv, RowsInv, Unlink
  <2>3. CASE l \in media
    <3>1. ~erased
      BY <2>3 DEF ArchiveInv, ErasedInv
    <3>2. Durable!Evict(l)
      BY <1>2, <1>4, <2>3, <3>1 DEF Durable!Evict
    <3>3. QED
      BY <1>1, <3>2 DEF Durable!AbstractNext
  <2>4. CASE l \notin media
    <3>1. media' = media
      BY <1>4, <2>4
    <3>2. evicted' = evicted \/ meeting = "deleted"
      BY <1>4, <2>2, <2>4 DEF Deleted
    <3>3. QED
      BY <1>2, <3>1, <3>2 DEF Unseen
  <2>5. QED
    BY <2>3, <2>4
<1>5. QED
  BY <1>3, <1>4 DEF Unlink

\* The deletion's transaction begins it and its unlinking ends it.
LEMMA DeletionImplements ==
  ASSUME TypeOK, ArchiveInv,
         EraseMeeting \/ \E a \in Actors : UnlinkSession(a) \/ UnlinkMedia(a)
  PROVE  Durable!AbstractNext
<1>1. CASE EraseMeeting
  <2>1. ~erased
    BY <1>1 DEF EraseMeeting, ArchiveInv, ErasedInv, Deleted
  <2>2. Durable!BeginDeletion
    BY <1>1, <2>1 DEF EraseMeeting, files, Durable!BeginDeletion
  <2>3. QED
    BY <2>2 DEF Durable!AbstractNext
<1>2. ASSUME NEW a \in Actors, UnlinkSession(a) PROVE Durable!AbstractNext
  BY <1>2 DEF UnlinkSession, library, ArchiveInv, EraseInv, Erasing, Deleted,
    Durable!AbstractNext, Durable!RemoveSource
<1>3. ASSUME NEW a \in Actors, UnlinkMedia(a) PROVE Durable!AbstractNext
  BY <1>3 DEF UnlinkMedia, library, ArchiveInv, EraseInv, Erasing, Deleted,
    Durable!AbstractNext, Durable!EndDeletion
<1>4. QED
  BY <1>1, <1>2, <1>3

\* Every step of the archive is a step of DurableAudio or none.
LEMMA StepImplements ==
  ASSUME TypeOK, ArchiveInv, [Next]_vars
  PROVE  [Durable!AbstractNext]_Durable!audio
<1> SUFFICES Unseen \/ Durable!AbstractNext
  BY UnseenStutters
<1> USE DEF Unseen, files, library
<1>1. ASSUME NEW a \in Actors, Abort(a) PROVE Unseen
  BY <1>1 DEF Abort
<1>2. CASE Persist
  BY <1>1, <1>2, ConstantFacts DEF Persist, Finalize, PersistMeeting, CheckMeeting, ClaimRead,
    ClaimWrite, ReadManifest, WriteManifest
<1>3. ASSUME NEW p \in Promoters, Promote(p) PROVE Unseen \/ Durable!AbstractNext
  <2>1. CASE RenamePart(p)
    BY <1>1, <2>1, RenameImplements, ConstantFacts
  <2>2. CASE RetireRename(p)
    BY <1>1, <2>2, RetireImplements, ConstantFacts
  <2>3. CASE Refresh(p) \/ PromoteStart(p) \/ EncodeCheck(p) \/ EncodeStart(p)
             \/ EncodeFinish(p) \/ EncodeWrite(p)
    BY <1>1, <2>3, ConstantFacts DEF Refresh, PromoteStart, EncodeCheck, EncodeStart,
      EncodeFinish, EncodeWrite, WriteManifest
  <2>4. CASE PublishStart(p) \/ MakeDest(p) \/ OpenSource(p) \/ CreatePart(p)
             \/ StampRead(p) \/ StampWrite(p)
    BY <1>1, <2>4, ConstantFacts DEF PublishStart, MakeDest, OpenSource, CreatePart,
      StampRead, StampWrite, ReadManifest, WriteManifest
  <2>5. CASE RetireVerify(p) \/ RetireRemove(p) \/ CheckTombstone(p) \/ Record(p)
    BY <1>1, <2>5, ConstantFacts DEF RetireVerify, RetireRemove, CheckTombstone, Record
  <2>6. QED
    BY <1>3, <2>1, <2>2, <2>3, <2>4, <2>5 DEF Promote
<1>4. ASSUME NEW s \in Sweepers, Sweep(s) PROVE Unseen \/ Durable!AbstractNext
  <2>1. CASE Unlink(s)
    BY <2>1, UnlinkImplements
  <2>2. CASE Resume(s) \/ PlanSweep(s) \/ MarkDeleted(s)
    BY <2>2 DEF Resume, PlanSweep, MarkDeleted
  <2>3. QED
    BY <1>4, <2>1, <2>2 DEF Sweep
<1>5. CASE Environment \/ SpeechEnd
  <2>1. CASE EraseMeeting
    BY <2>1, DeletionImplements
  <2>2. CASE SpeechStart \/ ImportCapture \/ Expire \/ Crash \/ SpeechEnd
    BY <2>2 DEF SpeechStart, ImportCapture, Expire, Crash, SpeechEnd
  <2>3. QED
    BY <1>5, <2>1, <2>2 DEF Environment
<1>6. ASSUME NEW a \in Actors, Erase(a) \/ IoError(a)
      PROVE  Unseen \/ Durable!AbstractNext
  <2>1. CASE Erase(a)
    BY <2>1, DeletionImplements DEF Erase
  <2>2. CASE IoError(a)
    BY <2>2 DEF IoError
  <2>3. QED
    BY <1>6, <2>1, <2>2
<1>7. CASE UNCHANGED vars
  BY <1>7 DEF vars
<1>8. QED
  BY <1>2, <1>3, <1>4, <1>5, <1>6, <1>7 DEF Next

\* The archive implements DurableAudio: whatever the interleaving of recorder,
\* sweepers, deletion, speech worker and crashes, what happens to the audio is
\* what that specification allows.
THEOREM ArchiveImplements == Spec => KeepsAudioDurable
<1>1. Init => Durable!AbstractInit
  BY DEF Init, Durable!AbstractInit
<1>2. TypeOK /\ ArchiveInv /\ [Next]_vars => [Durable!AbstractNext]_Durable!audio
  BY StepImplements
<1>3. QED
  BY <1>1, <1>2, ArchiveInvariance, PTL DEF Spec, KeepsAudioDurable, Durable!AbstractSpec

-----------------------------------------------------------------------------
(* Retention: sums and counting.                                           *)

(* Counting up to n.                                                       *)
LEMMA CountUp ==
  ASSUME NEW n \in Nat, NEW G, 0 \in G, \A i \in 1 .. n : i - 1 \in G => i \in G
  PROVE  n \in G
<1> DEFINE Bad == {k \in Nat : k <= n /\ k \notin G}
<1> SUFFICES ASSUME Bad # {} PROVE FALSE
  OBVIOUS
<1>1. IsWellFoundedOn(OpToRel(<, Nat), Nat)
  BY NatLessThanWellFounded
<1>2. PICK k \in Bad : \A y \in Bad : ~(<<y, k>> \in OpToRel(<, Nat))
  BY <1>1, WFMin
<1>3. k \in Nat /\ k <= n /\ k \notin G /\ k # 0
  BY <1>2
<1>4. k - 1 \in Nat /\ k - 1 < k /\ k \in 1 .. n
  BY <1>3
<1>5. k - 1 \notin Bad
  BY <1>2, <1>4 DEF OpToRel
<1> QED BY <1>3, <1>4, <1>5

(* The subsets of a finite set: finite, and one smaller without an element. *)
LEMMA Smaller ==
  ASSUME NEW S \in SUBSET Meetings
  PROVE  /\ IsFiniteSet(S) /\ Cardinality(S) \in Nat
         /\ Cardinality(S) <= Cardinality(Meetings)
         /\ Cardinality(S) = 0 <=> S = {}
         /\ \A x \in S : Cardinality(S \ {x}) = Cardinality(S) - 1
<1>1. IsFiniteSet(Meetings)
  BY ConstantsAssumption
<1>2. IsFiniteSet(S) /\ Cardinality(S) <= Cardinality(Meetings)
  BY <1>1, FS_Subset
<1>3. Cardinality(S) \in Nat
  BY <1>2, FS_CardinalityType
<1>4. Cardinality(S) = 0 <=> S = {}
  BY <1>2, FS_EmptySet
<1>5. \A x \in S : Cardinality(S \ {x}) = Cardinality(S) - 1
  BY <1>2, FS_RemoveElement
<1> QED BY <1>2, <1>3, <1>4, <1>5

(* The recursion by which Bytes adds up the parts of T.                    *)
Any(s) == CHOOSE x \in s : TRUE
Sums(f, T) == f = [s \in SUBSET T |->
                     IF s = {} THEN 0 ELSE AudioBytes(Any(s)) + f[s \ {Any(s)}]]

(* MapThenSumSet is that recursion.                                        *)
LEMMA BytesIs ==
  ASSUME NEW T
  PROVE  Bytes(T) = (CHOOSE f : Sums(f, T))[T]
BY DEF Bytes, MapThenSumSet, MapThenFoldSet, Sums, Any

(* The recursion has a solution ...                                        *)
LEMMA SumsExist == \E f : Sums(f, Meetings)
<1> DEFINE Step(f, s) == IF s = {} THEN 0 ELSE AudioBytes(Any(s)) + f[s \ {Any(s)}]
           Upto(f, k) == /\ f = [s \in SUBSET Meetings |-> f[s]]
                         /\ \A s \in SUBSET Meetings :
                              Cardinality(s) <= k => f[s] = Step(f, s)
           G == {k \in Nat : \E f : Upto(f, k)}
           n == Cardinality(Meetings)
<1>0. n \in Nat
  BY Smaller
<1>1. 0 \in G
  <2> DEFINE f == [s \in SUBSET Meetings |-> 0]
  <2>1. f = [s \in SUBSET Meetings |-> f[s]]
    OBVIOUS
  <2>2. ASSUME NEW s \in SUBSET Meetings, Cardinality(s) <= 0 PROVE f[s] = Step(f, s)
    <3>1. s = {}
      BY <2>2, Smaller
    <3> QED BY <3>1
  <2> HIDE DEF f
  <2>3. Upto(f, 0)
    BY <2>1, <2>2
  <2> QED BY <2>3
<1>2. ASSUME NEW k \in 1 .. n, k - 1 \in G PROVE k \in G
  <2>1. PICK f : Upto(f, k - 1)
    BY <1>2
  <2> DEFINE g == [s \in SUBSET Meetings |->
                     IF Cardinality(s) <= k - 1 THEN f[s] ELSE Step(f, s)]
  <2>2. g = [s \in SUBSET Meetings |-> g[s]]
    OBVIOUS
  <2>3. ASSUME NEW s \in SUBSET Meetings, Cardinality(s) <= k PROVE g[s] = Step(g, s)
    <3>1. g[s] = Step(f, s)
      BY <2>1
    <3>2. CASE s = {}
      BY <3>1, <3>2
    <3>3. CASE s # {}
      <4>1. Any(s) \in s
        BY <3>3 DEF Any
      <4>2. s \ {Any(s)} \in SUBSET Meetings /\ Cardinality(s \ {Any(s)}) <= k - 1
        BY <1>0, <2>3, <4>1, Smaller
      <4>3. g[s \ {Any(s)}] = f[s \ {Any(s)}]
        BY <4>2
      <4> HIDE DEF g
      <4> QED BY <3>1, <3>3, <4>3
    <3> QED BY <3>2, <3>3
  <2> HIDE DEF g
  <2>4. Upto(g, k)
    BY <2>2, <2>3
  <2>5. \E q : Upto(q, k)
    <3> HIDE DEF Upto
    <3> QED BY <2>4
  <2>6. k \in Nat
    BY <1>0
  <2> QED BY <2>5, <2>6
<1>3. n \in G
  <2> HIDE DEF G
  <2> QED BY <1>0, <1>1, <1>2, CountUp
<1>4. PICK f : Upto(f, n)
  BY <1>3
<1>5. \A s \in SUBSET Meetings : f[s] = Step(f, s)
  BY <1>4, Smaller
<1>6. f = [s \in SUBSET Meetings |-> Step(f, s)]
  BY <1>4, <1>5
<1> QED BY <1>6 DEF Sums

(* ... and only one, also on the subsets of a part.                        *)
LEMMA SumsAgree ==
  ASSUME NEW T \in SUBSET Meetings, NEW f, Sums(f, Meetings), NEW h, Sums(h, T)
  PROVE  h[T] = f[T]
<1> DEFINE G == {k \in Nat : \A s \in SUBSET T : Cardinality(s) <= k => h[s] = f[s]}
           n == Cardinality(T)
<1>0. n \in Nat
  BY Smaller
<1>1. 0 \in G
  <2>1. ASSUME NEW s \in SUBSET T, Cardinality(s) <= 0 PROVE h[s] = f[s]
    <3>1. s = {} /\ s \in SUBSET Meetings
      BY <2>1, Smaller
    <3> QED BY <3>1 DEF Sums
  <2> QED BY <2>1
<1>2. ASSUME NEW k \in 1 .. n, k - 1 \in G PROVE k \in G
  <2>1. ASSUME NEW s \in SUBSET T, Cardinality(s) <= k PROVE h[s] = f[s]
    <3>1. CASE s = {}
      BY <3>1 DEF Sums
    <3>2. CASE s # {}
      <4>1. Any(s) \in s /\ s \in SUBSET Meetings
        BY <3>2 DEF Any
      <4> DEFINE r == s \ {Any(s)}
      <4>2. r \in SUBSET T /\ r \in SUBSET Meetings /\ Cardinality(r) <= k - 1
        BY <1>0, <2>1, <4>1, Smaller
      <4>3. h[r] = f[r]
        BY <1>2, <4>2
      <4>4. h[s] = AudioBytes(Any(s)) + h[r] /\ f[s] = AudioBytes(Any(s)) + f[r]
        BY <3>2, <4>1 DEF Sums
      <4> QED BY <4>3, <4>4
    <3> QED BY <3>1, <3>2
  <2> QED BY <1>0, <2>1
<1>3. n \in G
  <2> HIDE DEF G
  <2> QED BY <1>0, <1>1, <1>2, CountUp
<1> QED BY <1>0, <1>3

(* What Bytes adds up, one meeting at a time.                              *)
LEMMA BytesSteps ==
  /\ Bytes({}) = 0
  /\ \A T \in SUBSET Meetings :
       T # {} => Bytes(T) = AudioBytes(Any(T)) + Bytes(T \ {Any(T)})
<1>1. PICK f : Sums(f, Meetings)
  BY SumsExist
<1>2. ASSUME NEW T \in SUBSET Meetings PROVE Bytes(T) = f[T]
  <2> DEFINE h == [s \in SUBSET T |-> f[s]]
             c == CHOOSE g : Sums(g, T)
  <2>1. Sums(h, T)
    <3>1. ASSUME NEW s \in SUBSET T
          PROVE  h[s] = IF s = {} THEN 0 ELSE AudioBytes(Any(s)) + h[s \ {Any(s)}]
      BY <1>1 DEF Sums
    <3>2. h = [s \in SUBSET T |-> h[s]]
      OBVIOUS
    <3> HIDE DEF h
    <3> QED BY <3>1, <3>2 DEF Sums
  <2> HIDE DEF h
  <2>2. Sums(c, T)
    BY <2>1
  <2>3. Bytes(T) = c[T]
    BY BytesIs
  <2> HIDE DEF c
  <2> QED BY <1>1, <2>2, <2>3, SumsAgree
<1>3. Bytes({}) = 0
  BY <1>1, <1>2 DEF Sums
<1>4. ASSUME NEW T \in SUBSET Meetings, T # {}
      PROVE  Bytes(T) = AudioBytes(Any(T)) + Bytes(T \ {Any(T)})
  <2>1. f[T] = AudioBytes(Any(T)) + f[T \ {Any(T)}]
    BY <1>1, <1>4 DEF Sums
  <2> QED BY <1>2, <2>1
<1> QED BY <1>3, <1>4

(* A size is a natural number, so every sum of them is ...                 *)
LEMMA SizesAre ==
  ASSUME NEW m \in Meetings
  PROVE  AudioBytes(m) \in Nat
BY ConstantsAssumption DEF AudioBytes

(* ... a natural number ...                                                *)
LEMMA BytesAre ==
  ASSUME NEW T \in SUBSET Meetings
  PROVE  Bytes(T) \in Nat
<1> DEFINE G == {k \in Nat : \A s \in SUBSET T : Cardinality(s) <= k => Bytes(s) \in Nat}
           n == Cardinality(T)
<1>0. n \in Nat
  BY Smaller
<1>1. 0 \in G
  <2>1. ASSUME NEW s \in SUBSET T, Cardinality(s) <= 0 PROVE Bytes(s) \in Nat
    <3>1. s = {}
      BY <2>1, Smaller
    <3> QED BY <3>1, BytesSteps
  <2> QED BY <2>1
<1>2. ASSUME NEW k \in 1 .. n, k - 1 \in G PROVE k \in G
  <2>1. ASSUME NEW s \in SUBSET T, Cardinality(s) <= k PROVE Bytes(s) \in Nat
    <3>1. CASE s = {}
      BY <3>1, BytesSteps
    <3>2. CASE s # {}
      <4>1. Any(s) \in s /\ s \in SUBSET Meetings
        BY <3>2 DEF Any
      <4> DEFINE r == s \ {Any(s)}
      <4>2. r \in SUBSET T /\ Cardinality(r) <= k - 1
        BY <1>0, <2>1, <4>1, Smaller
      <4>3. Bytes(r) \in Nat /\ AudioBytes(Any(s)) \in Nat
        BY <1>2, <4>1, <4>2, SizesAre
      <4>4. Bytes(s) = AudioBytes(Any(s)) + Bytes(r)
        BY <3>2, <4>1, BytesSteps
      <4> QED BY <4>3, <4>4
    <3> QED BY <3>1, <3>2
  <2> QED BY <1>0, <2>1
<1>3. n \in G
  <2> HIDE DEF G
  <2> QED BY <1>0, <1>1, <1>2, CountUp
<1> QED BY <1>0, <1>3

(* ... and it does not matter in which order they are added.               *)
LEMMA BytesWithout ==
  ASSUME NEW T \in SUBSET Meetings, NEW x \in T
  PROVE  Bytes(T) = AudioBytes(x) + Bytes(T \ {x})
<1> DEFINE G == {k \in Nat : \A s \in SUBSET Meetings : Cardinality(s) <= k =>
                   \A y \in s : Bytes(s) = AudioBytes(y) + Bytes(s \ {y})}
           n == Cardinality(Meetings)
<1>0. n \in Nat
  BY Smaller
<1>1. 0 \in G
  BY Smaller
<1>2. ASSUME NEW k \in 1 .. n, k - 1 \in G PROVE k \in G
  <2>1. ASSUME NEW s \in SUBSET Meetings, Cardinality(s) <= k, NEW y \in s
        PROVE  Bytes(s) = AudioBytes(y) + Bytes(s \ {y})
    <3> DEFINE a == Any(s)
    <3>1. a \in s
      BY DEF Any
    <3> HIDE DEF a
    <3>2. Bytes(s) = AudioBytes(a) + Bytes(s \ {a})
      BY BytesSteps DEF a
    <3>3. CASE y = a
      BY <3>2, <3>3
    <3>4. CASE y # a
      <4>1. /\ s \ {a} \in SUBSET Meetings /\ Cardinality(s \ {a}) <= k - 1 /\ y \in s \ {a}
            /\ s \ {y} \in SUBSET Meetings /\ Cardinality(s \ {y}) <= k - 1 /\ a \in s \ {y}
        BY <1>0, <2>1, <3>1, <3>4, Smaller
      <4> DEFINE r == (s \ {a}) \ {y}
      <4>2. Bytes(s \ {a}) = AudioBytes(y) + Bytes(r)
        BY <1>2, <4>1
      <4>3. Bytes(s \ {y}) = AudioBytes(a) + Bytes((s \ {y}) \ {a})
        BY <1>2, <4>1
      <4>4. (s \ {y}) \ {a} = r
        OBVIOUS
      <4>5. AudioBytes(a) \in Nat /\ AudioBytes(y) \in Nat /\ Bytes(r) \in Nat
        BY <3>1, SizesAre, BytesAre
      <4> HIDE DEF r
      <4>6. Bytes(s \ {y}) = AudioBytes(a) + Bytes(r)
        BY <4>3, <4>4
      <4> QED BY <3>2, <4>2, <4>5, <4>6
    <3> QED BY <3>3, <3>4
  <2> QED BY <1>0, <2>1
<1>3. n \in G
  <2> HIDE DEF G
  <2> QED BY <1>0, <1>1, <1>2, CountUp
<1> QED BY <1>0, <1>3, Smaller

(* The bytes of a part and of the rest add up.                             *)
LEMMA BytesSplit ==
  ASSUME NEW T \in SUBSET Meetings, NEW U \in SUBSET T
  PROVE  Bytes(T) = Bytes(U) + Bytes(T \ U)
<1> DEFINE G == {k \in Nat : \A s \in SUBSET T : Cardinality(s) <= k =>
                   Bytes(T) = Bytes(s) + Bytes(T \ s)}
           n == Cardinality(T)
<1>0. n \in Nat
  BY Smaller
<1>1. 0 \in G
  <2>1. ASSUME NEW s \in SUBSET T, Cardinality(s) <= 0 PROVE Bytes(T) = Bytes(s) + Bytes(T \ s)
    <3>1. s = {} /\ T \ s = T
      BY <2>1, Smaller
    <3>2. Bytes(s) = 0 /\ Bytes(T \ s) = Bytes(T) /\ Bytes(T) \in Nat
      BY <3>1, BytesSteps, BytesAre
    <3> QED BY <3>2
  <2> QED BY <2>1
<1>2. ASSUME NEW k \in 1 .. n, k - 1 \in G PROVE k \in G
  <2>1. ASSUME NEW s \in SUBSET T, Cardinality(s) <= k PROVE Bytes(T) = Bytes(s) + Bytes(T \ s)
    <3>1. CASE s = {}
      <4>1. T \ s = T /\ Bytes(s) = 0 /\ Bytes(T) \in Nat
        BY <3>1, BytesSteps, BytesAre
      <4> QED BY <4>1
    <3>2. CASE s # {}
      <4>1. PICK x \in s : TRUE
        BY <3>2
      <4>2. s \in SUBSET Meetings /\ T \ s \in SUBSET Meetings
        OBVIOUS
      <4> DEFINE r == s \ {x}
      <4>3. r \in SUBSET T /\ r \in SUBSET Meetings /\ Cardinality(r) <= k - 1
        BY <1>0, <2>1, <4>2, Smaller
      <4>4. Bytes(T) = Bytes(r) + Bytes(T \ r)
        BY <1>2, <4>3
      <4>5. Bytes(s) = AudioBytes(x) + Bytes(r)
        BY <4>2, BytesWithout
      <4>6. T \ r \in SUBSET Meetings /\ x \in T \ r /\ (T \ r) \ {x} = T \ s
        OBVIOUS
      <4>7. Bytes(T \ r) = AudioBytes(x) + Bytes(T \ s)
        BY <4>6, BytesWithout
      <4>8. AudioBytes(x) \in Nat /\ Bytes(r) \in Nat /\ Bytes(T \ s) \in Nat
        BY <4>2, <4>3, SizesAre, BytesAre
      <4> QED BY <4>4, <4>5, <4>7, <4>8
    <3> QED BY <3>1, <3>2
  <2> QED BY <1>0, <2>1
<1>3. n \in G
  <2> HIDE DEF G
  <2> QED BY <1>0, <1>1, <1>2, CountUp
<1>4. Cardinality(U) <= n
  BY Smaller, FS_Subset
<1> QED BY <1>3, <1>4

(* Meetings without bytes add up to none.                                  *)
LEMMA NoBytes ==
  ASSUME NEW T \in SUBSET Meetings, \A m \in T : AudioBytes(m) = 0
  PROVE  Bytes(T) = 0
<1> DEFINE G == {k \in Nat : \A s \in SUBSET T : Cardinality(s) <= k => Bytes(s) = 0}
           n == Cardinality(T)
<1>0. n \in Nat
  BY Smaller
<1>1. 0 \in G
  <2>1. ASSUME NEW s \in SUBSET T, Cardinality(s) <= 0 PROVE Bytes(s) = 0
    <3>1. s = {}
      BY <2>1, Smaller
    <3> QED BY <3>1, BytesSteps
  <2> QED BY <2>1
<1>2. ASSUME NEW k \in 1 .. n, k - 1 \in G PROVE k \in G
  <2>1. ASSUME NEW s \in SUBSET T, Cardinality(s) <= k PROVE Bytes(s) = 0
    <3>1. CASE s = {}
      BY <3>1, BytesSteps
    <3>2. CASE s # {}
      <4>1. PICK x \in s : TRUE
        BY <3>2
      <4>2. s \ {x} \in SUBSET T /\ Cardinality(s \ {x}) <= k - 1
        BY <1>0, <2>1, Smaller
      <4>3. Bytes(s \ {x}) = 0 /\ AudioBytes(x) = 0
        BY <1>2, <4>2
      <4> QED BY <4>3, BytesWithout
    <3> QED BY <3>1, <3>2
  <2> QED BY <1>0, <2>1
<1>3. n \in G
  <2> HIDE DEF G
  <2> QED BY <1>0, <1>1, <1>2, CountUp
<1> QED BY <1>0, <1>3

-----------------------------------------------------------------------------
(* Retention: the plan.                                                    *)

(* plan_sweep's sort: starts, then ids, order the meetings ...             *)
LEMMA OlderOrders ==
  ASSUME SweepTypeOK, NEW l \in Meetings, NEW m \in Meetings, NEW n \in Meetings
  PROVE  /\ ~Older(m, m)
         /\ m # n => Older(m, n) \/ Older(n, m)
         /\ Older(l, m) /\ Older(m, n) => Older(l, n)
         /\ Older(m, n) => ~Older(n, m)
<1>1. /\ started[l] \in Nat /\ started[m] \in Nat /\ started[n] \in Nat
      /\ l \in Nat /\ m \in Nat /\ n \in Nat
  BY ConstantsAssumption DEF SweepTypeOK
<1> QED BY <1>1 DEF Older

(* A set of numbers has a least one ...                                    *)
LEMMA LeastOf ==
  ASSUME NEW S \in SUBSET Nat, S # {}
  PROVE  \E x \in S : \A y \in S : x <= y
<1>1. IsWellFoundedOn(OpToRel(<, Nat), Nat)
  BY NatLessThanWellFounded
<1>2. PICK x \in S : \A y \in S : ~(<<y, x>> \in OpToRel(<, Nat))
  BY <1>1, WFMin
<1>3. \A y \in S : ~(y < x)
  BY <1>2 DEF OpToRel
<1> QED BY <1>3

(* ... and one of any is the oldest.                                       *)
LEMMA OldestIs ==
  ASSUME SweepTypeOK, NEW S \in SUBSET Meetings, S # {}
  PROVE  /\ Oldest(S) \in S
         /\ \A n \in S \ {Oldest(S)} : Older(Oldest(S), n)
<1>0. Meetings \in SUBSET Nat /\ \A m \in Meetings : started[m] \in Nat
  BY ConstantsAssumption DEF SweepTypeOK
<1> DEFINE D == {started[m] : m \in S}
<1>1. PICK t \in D : \A u \in D : t <= u
  <2>1. D \in SUBSET Nat /\ D # {}
    BY <1>0
  <2> HIDE DEF D
  <2> QED BY <2>1, LeastOf
<1> DEFINE E == {m \in S : started[m] = t}
<1>2. E # {} /\ E \in SUBSET Nat
  BY <1>0, <1>1
<1>3. PICK x \in E : \A y \in E : x <= y
  BY <1>2, LeastOf
<1>4. ASSUME NEW n \in S \ {x} PROVE Older(x, n)
  <2>1. t <= started[n] /\ started[x] = t /\ started[n] \in Nat /\ t \in Nat
    BY <1>0, <1>1, <1>3
  <2>2. CASE started[n] = t
    <3>1. x <= n /\ x # n /\ x \in Nat /\ n \in Nat
      BY <1>0, <1>3, <2>2
    <3> QED BY <2>1, <2>2, <3>1 DEF Older
  <2>3. CASE started[n] # t
    BY <2>1, <2>3 DEF Older
  <2> QED BY <2>2, <2>3
<1>5. x \in S
  BY <1>3
<1>6. \E m \in S : \A n \in S \ {m} : Older(m, n)
  BY <1>4, <1>5
<1> QED BY <1>6 DEF Oldest

(* The library before the second pass.                                     *)
LEMMA SetsAre ==
  /\ Expired \in SUBSET Meetings /\ Candidates \in SUBSET Meetings
  /\ Candidates \in SUBSET (Meetings \ Expired)
  /\ Bytes(Meetings) - Bytes(Expired) = Bytes(Meetings \ Expired)
  /\ Bytes(Meetings \ Expired) \in Nat
<1>1. /\ Expired \in SUBSET Meetings /\ Candidates \in SUBSET Meetings
      /\ Candidates \in SUBSET (Meetings \ Expired)
  BY DEF Expired, Candidates
<1>2. Bytes(Meetings) = Bytes(Expired) + Bytes(Meetings \ Expired)
  BY <1>1, BytesSplit
<1>3. Bytes(Expired) \in Nat /\ Bytes(Meetings \ Expired) \in Nat
  BY <1>1, BytesAre
<1> QED BY <1>1, <1>2, <1>3

(* The second pass after i turns: what went are the oldest candidates, each *)
(* of them while the library was still over budget; one went in every turn  *)
(* unless the budget was met.                                               *)
OlderOnes(m) == {n \in Candidates : Older(n, m)}
PassAt(acc, i) ==
  /\ acc = [left |-> acc.left, over |-> acc.over]
  /\ acc.over \in SUBSET Candidates
  /\ acc.left = Bytes(Meetings \ Expired) - Bytes(acc.over)
  /\ \A m \in acc.over : OlderOnes(m) \in SUBSET acc.over
  /\ \A m \in acc.over : Bytes(Meetings \ Expired) - Bytes(OlderOnes(m)) > budget
  /\ acc.left <= budget \/ Cardinality(acc.over) = i

(* A turn of the second pass. *)
LEMMA EvictNextKeeps ==
  ASSUME SweepTypeOK, NEW acc, NEW i \in 1 .. Cardinality(Candidates), PassAt(acc, i - 1)
  PROVE  PassAt(EvictNext(acc), i)
<1>0. budget \in Nat
  BY ConstantsAssumption DEF SweepTypeOK
<1>1. CASE acc.left <= budget
  BY <1>1 DEF EvictNext, PassAt
<1>2. CASE ~(acc.left <= budget)
  <2> DEFINE T == Candidates \ acc.over
             m == Oldest(T)
             new == acc.over \cup {m}
             L == Bytes(Meetings \ Expired)
  <2>1. Cardinality(acc.over) = i - 1 /\ acc.over \in SUBSET Candidates
    BY <1>2 DEF PassAt
  <2>2. T # {} /\ T \in SUBSET Meetings
    <3>1. acc.over # Candidates
      BY <2>1, SetsAre, Smaller
    <3> QED BY <2>1, <3>1, SetsAre
  <2>3. m \in T /\ \A n \in T \ {m} : Older(m, n)
    BY <2>2, OldestIs
  <2>4. EvictNext(acc) = [left |-> acc.left - AudioBytes(m), over |-> new]
    BY <1>2 DEF EvictNext
  <2> HIDE DEF m
  <2>5. OlderOnes(m) = acc.over
    <3>1. ASSUME NEW n \in OlderOnes(m) PROVE n \in acc.over
      <4>1. n \in Candidates /\ Older(n, m) /\ n \in Meetings /\ m \in Meetings
        BY <2>3, <3>1, SetsAre DEF OlderOnes
      <4>2. ~Older(m, n) /\ n # m
        BY <4>1, OlderOrders
      <4> QED BY <2>3, <4>1, <4>2
    <3>2. ASSUME NEW n \in acc.over PROVE n \in OlderOnes(m)
      <4>1. n \in Candidates /\ n \in Meetings /\ m \in Meetings /\ n # m /\ m \in Candidates
        BY <2>1, <2>3, SetsAre
      <4>2. ~Older(m, n)
        BY <2>3, <4>1 DEF PassAt, OlderOnes
      <4>3. Older(n, m)
        BY <4>1, <4>2, OlderOrders
      <4> QED BY <4>1, <4>3 DEF OlderOnes
    <3> QED BY <3>1, <3>2
  <2>6. new \in SUBSET Candidates /\ new \in SUBSET Meetings /\ acc.over \in SUBSET Meetings
    BY <2>1, <2>3, SetsAre
  <2>7. Bytes(new) = AudioBytes(m) + Bytes(acc.over)
    <3>1. new \ {m} = acc.over
      BY <2>3
    <3> QED BY <2>6, <3>1, BytesWithout
  <2>8. /\ acc.left = L - Bytes(acc.over) /\ L \in Nat
        /\ Bytes(acc.over) \in Nat /\ AudioBytes(m) \in Nat
    BY <2>3, <2>6, SetsAre, SizesAre, BytesAre DEF PassAt
  <2>9. acc.left - AudioBytes(m) = L - Bytes(new)
    BY <2>7, <2>8
  <2>10. \A n \in new : OlderOnes(n) \in SUBSET new
    BY <2>5 DEF PassAt
  <2>11. \A n \in new : L - Bytes(OlderOnes(n)) > budget
    <3>1. L - Bytes(OlderOnes(m)) > budget
      BY <1>0, <1>2, <2>5, <2>8
    <3> QED BY <3>1 DEF PassAt
  <2>12. Cardinality(new) = i
    <3>1. Cardinality(new \ {m}) = Cardinality(new) - 1 /\ Cardinality(new) \in Nat
      BY <2>6, Smaller
    <3>2. new \ {m} = acc.over
      BY <2>3
    <3>3. i \in Nat
      BY SetsAre, Smaller
    <3>4. Cardinality(new) - 1 = i - 1
      BY <2>1, <3>1, <3>2
    <3> HIDE DEF new
    <3> QED BY <3>1, <3>3, <3>4
  <2> HIDE DEF new
  <2> QED BY <2>4, <2>6, <2>9, <2>10, <2>11, <2>12 DEF PassAt
<1> QED BY <1>1, <1>2

(* The pass takes as many turns as there are candidates.                   *)
LEMMA BudgetPassIs ==
  ASSUME SweepTypeOK
  PROVE  PassAt(BudgetPass, Cardinality(Candidates))
<1> DEFINE n == Cardinality(Candidates)
           first == [left |-> Bytes(Meetings) - Bytes(Expired), over |-> {}]
           Step(f, i) == IF i = 0 THEN first ELSE EvictNext(f[i - 1])
           Upto(f, k) == /\ f = [i \in 0 .. n |-> f[i]]
                         /\ \A i \in 0 .. k : f[i] = Step(f, i)
           G == {k \in 0 .. n : \E f : Upto(f, k)}
<1>0. n \in Nat
  BY SetsAre, Smaller
<1>1. 0 \in G
  <2> DEFINE f == [i \in 0 .. n |-> first]
  <2>1. f = [i \in 0 .. n |-> f[i]] /\ f[0] = first
    BY <1>0
  <2> HIDE DEF f, first
  <2>2. Upto(f, 0)
    BY <2>1
  <2> HIDE DEF Upto
  <2> QED BY <1>0, <2>2
<1>2. ASSUME NEW k \in 1 .. n, k - 1 \in G PROVE k \in G
  <2>1. PICK f : Upto(f, k - 1)
    BY <1>2
  <2> DEFINE g == [i \in 0 .. n |-> IF i <= k - 1 THEN f[i] ELSE EvictNext(f[i - 1])]
  <2>2. g = [i \in 0 .. n |-> g[i]]
    OBVIOUS
  <2>3. \A i \in 0 .. k - 1 : g[i] = f[i]
    BY <1>0
  <2>4. g[k] = EvictNext(f[k - 1])
    BY <1>0
  <2> HIDE DEF g, first
  <2>5. ASSUME NEW i \in 0 .. k PROVE g[i] = Step(g, i)
    <3>1. CASE i = k
      <4>1. i - 1 \in 0 .. k - 1 /\ i # 0
        BY <1>0, <3>1
      <4> QED BY <2>3, <2>4, <3>1, <4>1
    <3>2. CASE i # k
      <4>1. i \in 0 .. k - 1 /\ (i # 0 => i - 1 \in 0 .. k - 1)
        BY <1>0, <3>2
      <4>2. g[i] = f[i] /\ f[i] = Step(f, i)
        BY <2>1, <2>3, <4>1
      <4> QED BY <2>3, <4>1, <4>2
    <3> QED BY <3>1, <3>2
  <2>6. Upto(g, k)
    BY <2>2, <2>5
  <2> HIDE DEF Upto
  <2>7. k \in 0 .. n
    BY <1>0
  <2> QED BY <2>6, <2>7
<1>3. n \in G
  <2> HIDE DEF G
  <2> QED BY <1>0, <1>1, <1>2, CountUp
<1>4. PICK f : Upto(f, n)
  BY <1>3
<1> DEFINE Solves(f_) == f_ = [i \in 0 .. n |-> Step(f_, i)]
           h == CHOOSE f_ : Solves(f_)
<1>5. Solves(f)
  <2> HIDE DEF first
  <2> QED BY <1>4
<1>6. Solves(h)
  BY <1>5
<1>7. BudgetPass = h[n]
  BY DEF BudgetPass
<1> HIDE DEF h
<1>8. h[0] = first /\ \A i \in 1 .. n : h[i] = EvictNext(h[i - 1])
  <2> HIDE DEF first
  <2> QED BY <1>0, <1>6
<1> DEFINE K == {i \in 0 .. n : PassAt(h[i], i)}
<1>9. 0 \in K
  <2>1. Bytes({}) = 0 /\ Cardinality({}) = 0
    BY BytesSteps, FS_EmptySet
  <2>2. first.over = {} /\ first.left = Bytes(Meetings \ Expired) - Bytes({})
    BY <2>1, SetsAre
  <2>3. PassAt(first, 0)
    BY <2>1, <2>2 DEF PassAt
  <2> HIDE DEF first
  <2> QED BY <1>0, <1>8, <2>3
<1>10. ASSUME NEW i \in 1 .. n, i - 1 \in K PROVE i \in K
  <2>1. PassAt(h[i - 1], i - 1)
    BY <1>10
  <2>2. PassAt(EvictNext(h[i - 1]), i)
    BY <2>1, EvictNextKeeps
  <2> QED BY <1>0, <1>8, <2>2
<1>11. n \in K
  <2> HIDE DEF K
  <2> QED BY <1>0, <1>9, <1>10, CountUp
<1> QED BY <1>7, <1>11

(* Oldest first, and no more than it takes.                                *)
LEMMA PassIsMinimal == SweepTypeOK => BudgetPassIsMinimal
<1> SUFFICES ASSUME SweepTypeOK PROVE BudgetPassIsMinimal
  OBVIOUS
<1> DEFINE L == Bytes(Meetings \ Expired)
           over == BudgetPass.over
<1>0. budget \in Nat /\ L \in Nat
  BY SetsAre, ConstantsAssumption DEF SweepTypeOK
<1>1. PassAt(BudgetPass, Cardinality(Candidates))
  BY BudgetPassIs
<1> HIDE DEF over
<1>2. /\ over \in SUBSET Candidates /\ BudgetPass.left = L - Bytes(over)
      /\ \A m \in over : OlderOnes(m) \in SUBSET over
      /\ \A m \in over : L - Bytes(OlderOnes(m)) > budget
      /\ L - Bytes(over) <= budget \/ Cardinality(over) = Cardinality(Candidates)
  BY <1>1 DEF PassAt, over
<1>3. ASSUME NEW m \in Candidates, m \notin over PROVE ~(L - Bytes(OlderOnes(m)) > budget)
  <2>1. over # Candidates
    BY <1>3
  <2>2. L - Bytes(over) <= budget
    BY <1>2, <2>1, SetsAre, Smaller, FS_Subset
  <2>3. over \in SUBSET OlderOnes(m)
    <3>1. ASSUME NEW n \in over PROVE n \in OlderOnes(m)
      <4>1. n \in Candidates /\ n \in Meetings /\ m \in Meetings /\ n # m
        BY <1>2, <1>3, SetsAre
      <4>2. ~Older(m, n)
        BY <1>2, <1>3 DEF OlderOnes
      <4> QED BY <4>1, <4>2, OlderOrders DEF OlderOnes
    <3> QED BY <3>1
  <2>4. OlderOnes(m) \in SUBSET Meetings
    BY SetsAre DEF OlderOnes
  <2>5. Bytes(OlderOnes(m)) = Bytes(over) + Bytes(OlderOnes(m) \ over)
    BY <2>3, <2>4, BytesSplit
  <2>6. Bytes(over) \in Nat /\ Bytes(OlderOnes(m) \ over) \in Nat
    BY <2>3, <2>4, BytesAre
  <2> QED BY <1>0, <2>2, <2>5, <2>6
<1>4. over = {m \in Candidates : L - Bytes(OlderOnes(m)) > budget}
  BY <1>2, <1>3
<1> QED BY <1>4 DEF BudgetPassIsMinimal, over, OlderOnes

(* What the warnings name is all there is left.                            *)
LEMMA PlanIsExplained == SweepTypeOK => WithinBudgetOrExplained
<1> SUFFICES ASSUME SweepTypeOK, ~(BudgetPass.left <= budget)
             PROVE  SweepPlan.held = SweepPlan.after
  BY DEF WithinBudgetOrExplained, SweepPlan
<1> DEFINE L == Bytes(Meetings \ Expired)
           over == BudgetPass.over
           rest == Meetings \ (Expired \cup over)
<1>0. budget \in Nat /\ L \in Nat
  BY SetsAre, ConstantsAssumption DEF SweepTypeOK
<1>1. PassAt(BudgetPass, Cardinality(Candidates))
  BY BudgetPassIs
<1>2. /\ over \in SUBSET Candidates /\ BudgetPass.left = L - Bytes(over)
      /\ Cardinality(over) = Cardinality(Candidates)
  BY <1>1 DEF PassAt
<1> HIDE DEF over
<1>3. over = Candidates
  BY <1>2, SetsAre, Smaller, FS_Subset
<1>4. L = Bytes(over) + Bytes((Meetings \ Expired) \ over)
  BY <1>3, SetsAre, BytesSplit
<1>5. (Meetings \ Expired) \ over = rest /\ rest \in SUBSET Meetings /\ over \in SUBSET Meetings
  BY <1>3, SetsAre
<1>6. Bytes(over) \in Nat /\ Bytes(rest) \in Nat
  BY <1>5, BytesAre
<1>7. BudgetPass.left = Bytes(rest)
  <2>1. L = Bytes(over) + Bytes(rest)
    BY <1>4, <1>5
  <2> HIDE DEF rest, L
  <2> QED BY <1>0, <1>2, <1>6, <2>1
<1>8. Bytes(rest) = Bytes(Held(rest))
  <2>1. Held(rest) \in SUBSET rest
    BY DEF Held
  <2>2. Bytes(rest) = Bytes(Held(rest)) + Bytes(rest \ Held(rest))
    BY <1>5, <2>1, BytesSplit
  <2>3. ASSUME NEW m \in rest \ Held(rest) PROVE AudioBytes(m) = 0
    <3>1. m \in Meetings \ Expired /\ ~IsEvictable(m) /\ AudioBytes(m) \in Nat
      BY <1>3, SizesAre DEF Candidates
    <3>2. ~IsForever(m) /\ IsTranscribed(m)
      BY <2>3 DEF Held
    <3> QED BY <3>1, <3>2 DEF IsEvictable
  <2>4. rest \ Held(rest) \in SUBSET Meetings
    OBVIOUS
  <2> HIDE DEF rest
  <2>5. Bytes(rest \ Held(rest)) = 0
    BY <2>3, <2>4, NoBytes
  <2>6. Bytes(Held(rest)) \in Nat
    BY <1>5, <2>1, BytesAre
  <2> QED BY <2>2, <2>5, <2>6
<1>9. SweepPlan.after = BudgetPass.left /\ SweepPlan.held = Bytes(Held(rest))
  <2>1. BudgetPass.left > budget
    BY <1>0, <1>6, <1>7
  <2> QED BY <2>1 DEF SweepPlan, over
<1> QED BY <1>7, <1>8, <1>9

(* expires_at_ms: no deadline for what is `forever' or not transcribed.    *)
LEMMA ExpiresAtIs ==
  ASSUME SweepTypeOK, NEW m \in Meetings
  PROVE  /\ ExpiresAt(m) \in Nat \cup {None}
         /\ ExpiresAt(m) # None => /\ IsTranscribed(m) /\ ~IsForever(m)
                                   /\ readyAt[m] # None /\ policy[m].kind # "forever"
         /\ IsForever(m) <=> policy[m].kind = "forever"
<1> DEFINE p == FromColumns(policy[m])
<1>1. /\ MaxU64 \in Nat /\ DefaultDays \in Nat
      /\ readyAt[m] \in Nat \cup {None}
      /\ policy[m] \in [kind : {"default", "forever", "until_transcribed", "days"},
                        days : Nat \cup {None}]
  BY ConstantsAssumption DEF SweepTypeOK, Default, None
<1>2. /\ p.kind \in {"default", "forever", "until_transcribed", "days"}
      /\ p.kind = "days" => p.days \in Nat
      /\ p.kind = "forever" <=> policy[m].kind = "forever"
  BY <1>1 DEF FromColumns, Default, None
<1>3. CASE ~IsTranscribed(m) \/ p.kind = "forever"
  BY <1>2, <1>3 DEF ExpiresAt, IsForever
<1>4. CASE IsTranscribed(m) /\ p.kind # "forever"
  <2> DEFINE d == CASE p.kind = "default"           -> DefaultDays
                    [] p.kind = "until_transcribed" -> 0
                    [] p.kind = "days"              -> p.days
  <2>1. d \in Nat
    BY <1>1, <1>2, <1>4
  <2>2. ExpiresAt(m) = SatAdd(readyAt[m], d)
    BY <1>4 DEF ExpiresAt
  <2> HIDE DEF d
  <2>3. readyAt[m] \in Nat /\ readyAt[m] # None
    BY <1>1, <1>4 DEF IsTranscribed
  <2>4. SatAdd(readyAt[m], d) \in Nat
    BY <1>1, <2>1, <2>3 DEF SatAdd, Least
  <2> QED BY <1>2, <1>4, <2>2, <2>3, <2>4 DEF IsForever
<1> QED BY <1>3, <1>4

(* The deadline written fits its column.                                   *)
LEMMA DeadlineIs ==
  ASSUME SweepTypeOK, NEW m \in Meetings
  PROVE  /\ Deadline(m) \in 0 .. MaxI64 \cup {None}
         /\ Deadline(m) # None => Deadline(m) = ExpiresAt(m)
<1>1. MaxI64 \in Nat /\ ExpiresAt(m) \in Nat \cup {None} /\ None = -1
  BY ExpiresAtIs, ConstantsAssumption DEF None
<1> QED BY <1>1 DEF Deadline

(* What a sweep may evict: it has its transcript and is not `forever'.      *)
LEMMA PlanTakes ==
  ASSUME SweepTypeOK, NEW m \in SweepPlan.evicted
  PROVE  /\ m \in Meetings /\ readyAt[m] # None /\ policy[m].kind # "forever"
<1>1. SweepPlan.evicted = Expired \cup BudgetPass.over
  BY DEF SweepPlan
<1>2. BudgetPass.over \in SUBSET Candidates
  BY BudgetPassIs DEF PassAt
<1>3. m \in Expired \/ m \in Candidates
  BY <1>1, <1>2
<1>4. CASE m \in Expired
  <2>1. m \in Meetings /\ ExpiresAt(m) # None
    BY <1>4 DEF Expired
  <2> QED BY <2>1, ExpiresAtIs
<1>5. CASE m \in Candidates
  <2>1. m \in Meetings /\ ~IsForever(m) /\ IsTranscribed(m)
    BY <1>5 DEF Candidates, IsEvictable
  <2> QED BY <2>1, ExpiresAtIs DEF IsTranscribed
<1> QED BY <1>3, <1>4, <1>5

(* Audio whose deadline has passed is evicted.                             *)
LEMMA PlanKeepsDeadlines == SweepTypeOK => DeadlinesAreKept
<1> SUFFICES ASSUME SweepTypeOK, NEW m \in Meetings
             PROVE  /\ Deadline(m) \in 0 .. MaxI64 \cup {None}
                    /\ HasPath(m) /\ Deadline(m) # None /\ Deadline(m) <= now =>
                         m \in SweepPlan.evicted
  BY DEF DeadlinesAreKept
<1>1. Deadline(m) \in 0 .. MaxI64 \cup {None}
  BY DeadlineIs
<1>2. ASSUME HasPath(m), Deadline(m) # None, Deadline(m) <= now
      PROVE  m \in SweepPlan.evicted
  <2>1. ExpiresAt(m) = Deadline(m)
    BY <1>2, DeadlineIs
  <2>2. m \in Expired
    BY <1>2, <2>1 DEF Expired
  <2> QED BY <2>2 DEF SweepPlan
<1> QED BY <1>1, <1>2

-----------------------------------------------------------------------------
(* Retention: the specification.                                           *)

(* What a sweep carries out had its transcript when it looked, and no      *)
(* transcript goes away; it was not `forever' when the sweep looked.       *)
EvictionsInv ==
  \A s \in Runs : \A m \in run[s].evictions :
    readyAt[m] # None /\ (policy[m].kind = "forever" => m \in run[s].saved)

SweepInv == SweepTypeOK /\ EvictionsInv

(* The initial library satisfies both ...                                  *)
LEMMA SweepInitKeeps == SweepInit => SweepInv
<1>1. MaxNow \in Nat /\ MaxBack \in Nat /\ MaxEdits \in Nat /\ DefaultBudget \in Budgets
  BY ConstantsAssumption
<1>2. SweepInit => SweepTypeOK
  BY <1>1 DEF SweepInit, SweepTypeOK, Idle
<1>3. SweepInit => EvictionsInv
  BY DEF SweepInit, EvictionsInv, Idle
<1> QED BY <1>2, <1>3 DEF SweepInv

(* ... looking keeps them ...                                              *)
LEMMA LookKeeps ==
  ASSUME SweepInv, NEW s \in Runs, Look(s), UNCHANGED <<readyAt, policy>>
  PROVE  /\ run' \in [Runs -> [evictions : SUBSET Meetings, saved : SUBSET Meetings]]
         /\ EvictionsInv'
<1> USE DEF SweepInv
<1> DEFINE gone == SweepPlan.evicted
<1>1. gone \in SUBSET Meetings
  BY PlanTakes
<1>2. \A m \in gone : readyAt[m] # None /\ policy[m].kind # "forever"
  BY PlanTakes
<1>3. run' = [run EXCEPT ![s] = [evictions |-> gone, saved |-> {}]]
  BY DEF Look
<1> HIDE DEF gone
<1>4. run \in [Runs -> [evictions : SUBSET Meetings, saved : SUBSET Meetings]]
  BY DEF SweepTypeOK
<1>5. \A t \in Runs : run'[t] = IF t = s THEN [evictions |-> gone, saved |-> {}] ELSE run[t]
  BY <1>3, <1>4
<1>6. EvictionsInv'
  BY <1>2, <1>5 DEF EvictionsInv
<1> QED BY <1>1, <1>3, <1>4, <1>6

(* ... as does removing ...                                                *)
LEMMA RemoveKeeps ==
  ASSUME SweepInv, NEW s \in Runs, NEW m \in Meetings, RemoveAudio(s, m)
  PROVE  SweepInv'
<1> USE DEF SweepInv
<1> DEFINE R == [evictions : SUBSET Meetings, saved : SUBSET Meetings]
           r == IF run[s].evictions = {m} THEN Idle
                ELSE [run[s] EXCEPT !.evictions = @ \ {m}]
<1>1. run \in [Runs -> R]
  BY DEF SweepTypeOK
<1>2. run' = [run EXCEPT ![s] = r]
  BY <1>1 DEF RemoveAudio
<1>3. /\ r \in R /\ r.evictions \subseteq run[s].evictions
      /\ r.evictions # {} => r.saved = run[s].saved
  <2>1. CASE run[s].evictions = {m}
    BY <2>1 DEF Idle
  <2>2. CASE run[s].evictions # {m}
    BY <1>1, <2>2
  <2> QED BY <2>1, <2>2
<1> HIDE DEF r
<1>4. run' \in [Runs -> R]
  BY <1>1, <1>2, <1>3
<1>5. \A t \in Runs : run'[t] = IF t = s THEN r ELSE run[t]
  BY <1>1, <1>2
<1>6. UNCHANGED <<clock, meetingRows, budget, capturing, lastRun>>
  BY DEF RemoveAudio
<1>7. audio' \in [Meetings -> {"none", "complete", "deleted"}]
  BY DEF RemoveAudio, SweepTypeOK
<1>8. SweepTypeOK'
  BY <1>4, <1>6, <1>7 DEF SweepTypeOK, clock, meetingRows
<1>9. EvictionsInv'
  BY <1>3, <1>5, <1>6 DEF EvictionsInv, meetingRows
<1> QED BY <1>8, <1>9

(* ... and a policy saved meanwhile, which the sweeps under way note.      *)
LEMMA SaveKeeps ==
  ASSUME SweepInv, NEW m \in Meetings, NEW p \in Policies, SetRetainAudio(m, p)
  PROVE  SweepInv'
<1> USE DEF SweepInv
<1> DEFINE R == [evictions : SUBSET Meetings, saved : SUBSET Meetings]
<1>0. MaxEdits \in Nat
  BY ConstantsAssumption
<1>1. run \in [Runs -> R]
  BY DEF SweepTypeOK
<1>2. run' = [s \in Runs |->
       IF run[s] = Idle THEN run[s] ELSE [run[s] EXCEPT !.saved = @ \cup {m}]]
  BY DEF SetRetainAudio
<1>3. ASSUME NEW s \in Runs
      PROVE  /\ run'[s] \in R /\ run'[s].evictions = run[s].evictions
             /\ run[s].saved \subseteq run'[s].saved
             /\ run[s].evictions # {} => m \in run'[s].saved
  <2>1. CASE run[s] = Idle
    BY <1>1, <1>2, <2>1 DEF Idle
  <2>2. CASE run[s] # Idle
    <3>1. run[s] \in R
      BY <1>1
    <3>2. run'[s] = [run[s] EXCEPT !.saved = @ \cup {m}]
      BY <1>2, <2>2
    <3> QED BY <3>1, <3>2
  <2> QED BY <2>1, <2>2
<1>4. run' \in [Runs -> R]
  BY <1>2, <1>3
<1>5. SweepTypeOK'
  <2>1. edits' \in 0 .. MaxEdits
    BY <1>0 DEF SetRetainAudio, SweepTypeOK
  <2>2. policy' \in [Meetings -> Policies \cup {Default}]
    BY DEF SetRetainAudio, SweepTypeOK
  <2>3. UNCHANGED <<now, backs, state, started, readyAt, audio, budget, capturing, lastRun>>
    BY DEF SetRetainAudio
  <2> QED BY <1>4, <2>1, <2>2, <2>3 DEF SweepTypeOK
<1>6. EvictionsInv'
  <2> SUFFICES ASSUME NEW s \in Runs, NEW n \in run'[s].evictions
               PROVE  readyAt'[n] # None /\ (policy'[n].kind = "forever" => n \in run'[s].saved)
    BY DEF EvictionsInv
  <2>1. n \in run[s].evictions /\ n \in Meetings
    BY <1>1, <1>3
  <2>2. readyAt' = readyAt /\ policy' = [policy EXCEPT ![m] = p]
    BY DEF SetRetainAudio
  <2>3. readyAt[n] # None /\ (policy[n].kind = "forever" => n \in run[s].saved)
    BY <2>1 DEF EvictionsInv
  <2>4. CASE n = m
    BY <1>3, <2>1, <2>2, <2>3, <2>4
  <2>5. CASE n # m
    <3>1. policy'[n] = policy[n]
      BY <2>1, <2>2, <2>5 DEF SweepTypeOK
    <3> QED BY <1>3, <2>2, <2>3, <3>1
  <2> QED BY <2>4, <2>5
<1> QED BY <1>5, <1>6

(* ... so every step does.                                                 *)
LEMMA SweepNextKeeps == SweepInv /\ [SweepNext]_sweepVars => SweepInv'
<1> SUFFICES ASSUME SweepInv, [SweepNext]_sweepVars PROVE SweepInv'
  OBVIOUS
<1> USE DEF SweepInv
<1>0. MaxNow \in Nat /\ MaxBack \in Nat /\ MaxEdits \in Nat /\ MaxI64 \in Nat
  BY ConstantsAssumption
<1>1. CASE Poll
  <2>1. lastRun' = now /\ UNCHANGED <<clock, meetingRows, audio, budget, capturing>>
    BY <1>1 DEF Poll, Turn
  <2>2. "daemon" \in Runs /\ Look("daemon") /\ UNCHANGED <<readyAt, policy>>
    BY <1>1, <2>1 DEF Poll, Runs, meetingRows
  <2>3. /\ run' \in [Runs -> [evictions : SUBSET Meetings, saved : SUBSET Meetings]]
        /\ EvictionsInv'
    BY <2>2, LookKeeps
  <2>4. SweepTypeOK'
    BY <2>1, <2>3 DEF SweepTypeOK, clock, meetingRows
  <2> QED BY <2>3, <2>4
<1>2. CASE RetentionCommand
  <2>1. UNCHANGED <<clock, meetingRows, audio, budget, capturing, lastRun>>
    BY <1>2 DEF RetentionCommand
  <2>2. "command" \in Runs /\ Look("command") /\ UNCHANGED <<readyAt, policy>>
    BY <1>2, <2>1 DEF RetentionCommand, Runs, meetingRows
  <2>3. /\ run' \in [Runs -> [evictions : SUBSET Meetings, saved : SUBSET Meetings]]
        /\ EvictionsInv'
    BY <2>2, LookKeeps
  <2>4. SweepTypeOK'
    BY <2>1, <2>3 DEF SweepTypeOK, clock, meetingRows
  <2> QED BY <2>3, <2>4
<1>3. CASE Tick
  BY <1>0, <1>3 DEF Tick, SweepTypeOK, meetingRows, EvictionsInv
<1>4. CASE StepBack
  BY <1>0, <1>4 DEF StepBack, SweepTypeOK, meetingRows, EvictionsInv
<1>5. ASSUME NEW m \in Meetings, StartRecording(m) PROVE SweepInv'
  BY <1>0, <1>5 DEF StartRecording, SweepTypeOK, clock, EvictionsInv
<1>6. ASSUME NEW m \in Meetings, FinishRecording(m) \/ Transcribe(m) PROVE SweepInv'
  <2>1. SweepTypeOK'
    BY <1>0, <1>6 DEF FinishRecording, Transcribe, SweepTypeOK, clock
  <2>2. /\ UNCHANGED <<policy, run>>
        /\ readyAt' = readyAt \/ readyAt' = [readyAt EXCEPT ![m] = now]
    BY <1>6 DEF FinishRecording, Transcribe
  <2>3. \A n \in Meetings : readyAt[n] # None => readyAt'[n] # None
    BY <1>0, <2>2 DEF SweepTypeOK, None
  <2>4. \A s \in Runs : run[s].evictions \subseteq Meetings
    BY DEF SweepTypeOK
  <2>5. EvictionsInv'
    BY <2>2, <2>3, <2>4 DEF EvictionsInv
  <2> QED BY <2>1, <2>5
<1>7. ASSUME NEW s \in Runs, NEW m \in Meetings, RemoveAudio(s, m) PROVE SweepInv'
  BY <1>7, RemoveKeeps
<1>8. ASSUME NEW m \in Meetings, NEW p \in Policies, SetRetainAudio(m, p) PROVE SweepInv'
  BY <1>8, SaveKeeps
<1>9. ASSUME NEW b \in Budgets, SetBudget(b) PROVE SweepInv'
  BY <1>0, <1>9 DEF SetBudget, SweepTypeOK, meetingRows, EvictionsInv
<1>10. CASE UNCHANGED sweepVars
  BY <1>10 DEF sweepVars, clock, meetingRows, SweepTypeOK, EvictionsInv
<1> QED BY <1>1, <1>2, <1>3, <1>4, <1>5, <1>6, <1>7, <1>8, <1>9, <1>10 DEF SweepNext

(* Only a sweep that planned to takes audio away.                          *)
LEMMA SweepMoves ==
  ASSUME SweepInv, [SweepNext]_sweepVars, NEW m \in Meetings,
         audio[m] = "complete", audio'[m] = "deleted"
  PROVE  \E s \in Runs : /\ m \in run[s].evictions /\ run'[s] # run[s]
                         /\ readyAt[m] # None
                         /\ policy[m].kind = "forever" => m \in run[s].saved
<1> USE DEF SweepInv
<1>1. PICK s \in Runs, n \in Meetings : RemoveAudio(s, n)
  <2>1. CASE Poll \/ RetentionCommand
    BY <2>1 DEF Poll, RetentionCommand
  <2>2. CASE Tick \/ StepBack
    BY <2>2 DEF Tick, StepBack
  <2>3. ASSUME NEW n \in Meetings, StartRecording(n) \/ Transcribe(n) PROVE FALSE
    BY <2>3 DEF StartRecording, Transcribe
  <2>4. ASSUME NEW n \in Meetings, FinishRecording(n) PROVE FALSE
    BY <2>4 DEF FinishRecording, SweepTypeOK
  <2>5. ASSUME NEW n \in Meetings, NEW p \in Policies, SetRetainAudio(n, p) PROVE FALSE
    BY <2>5 DEF SetRetainAudio
  <2>6. ASSUME NEW b \in Budgets, SetBudget(b) PROVE FALSE
    BY <2>6 DEF SetBudget
  <2>7. CASE UNCHANGED sweepVars
    BY <2>7 DEF sweepVars
  <2> QED BY <2>1, <2>2, <2>3, <2>4, <2>5, <2>6, <2>7 DEF SweepNext
<1>2. n = m /\ m \in run[s].evictions
  BY <1>1 DEF RemoveAudio, SweepTypeOK
<1>3. run'[s] # run[s]
  <2>1. run[s] \in [evictions : SUBSET Meetings, saved : SUBSET Meetings] /\ run \in [Runs -> [evictions : SUBSET Meetings, saved : SUBSET Meetings]]
    BY DEF SweepTypeOK
  <2>2. run'[s] = IF run[s].evictions = {m} THEN Idle
                  ELSE [run[s] EXCEPT !.evictions = @ \ {m}]
    BY <1>1, <1>2, <2>1 DEF RemoveAudio
  <2>3. m \notin run'[s].evictions
    BY <2>1, <2>2 DEF Idle
  <2> QED BY <1>2, <2>3
<1> QED BY <1>2, <1>3 DEF EvictionsInv

(* plan_sweep: at every moment of every library, whatever the clock, the   *)
(* policies and the budget did, the plan evicts oldest first and no more   *)
(* than the budget asks, names every byte it may not take, evicts what its *)
(* deadlines say, and these fit their column.                              *)
THEOREM PlansAreRight == SweepSpec => []PlanIsRight
<1>1. SweepInit => SweepInv
  BY SweepInitKeeps
<1>2. SweepInv /\ [SweepNext]_sweepVars => SweepInv'
  BY SweepNextKeeps
<1>3. SweepInv => PlanIsRight
  BY PassIsMinimal, PlanIsExplained, PlanKeepsDeadlines DEF PlanIsRight, SweepInv
<1> QED BY <1>1, <1>2, <1>3, PTL DEF SweepSpec

(* sweep, which reads the library once and never looks again, beside       *)
(* another sweep, late transcripts and changed policies: what it removes   *)
(* has its transcript, and is not `forever' unless that was saved while it *)
(* was under way.                                                          *)
THEOREM SweepsKeep == SweepSpec => SweepsKeepTheirWord
<1>1. SweepInit => SweepInv
  BY SweepInitKeeps
<1>2. SweepInv /\ [SweepNext]_sweepVars => SweepInv'
  BY SweepNextKeeps
<1>3. SweepInv /\ [SweepNext]_sweepVars =>
        [\A m \in Meetings : audio[m] = "complete" /\ audio'[m] = "deleted" =>
           \E s \in Runs : /\ m \in run[s].evictions /\ run'[s] # run[s]
                           /\ readyAt[m] # None
                           /\ policy[m].kind = "forever" => m \in run[s].saved]_sweepVars
  BY SweepMoves
<1> QED BY <1>1, <1>2, <1>3, PTL DEF SweepSpec, SweepsKeepTheirWord
=============================================================================
