--------------------------- MODULE RecorderProofs ---------------------------
(***************************************************************************)
(* Proofs about Recorder, for every finite set of attempts and every clock  *)
(* bound.  RecorderInv is inductive; the safety properties follow from it.  *)
(***************************************************************************)
EXTENDS Recorder, FiniteSetTheorems, TLAPS

\* The times a variable may hold: readings of the clock, and NoTime, which is
\* none of them.
LEMMA ClockFacts ==
  /\ Clock \subseteq Times /\ NoTime \in Times /\ NoTime \notin Clock /\ 0 \in Clock
  /\ \A t \in Clock : t < MaxTime => t + 1 \in Clock
BY MaxTimeAssumption DEF Clock, Times, NoTime

\* Every type except that of the lease counter, which rests on its meaning.
TypeButWork == TypeShared /\ TypeActors /\ TypeSignals /\ TypeCapture /\ TypeClock

\* The initial state satisfies the invariant: no attempt, no lease.
LEMMA InitInv == Init => RecorderInv
<1> SUFFICES ASSUME Init PROVE RecorderInv
  OBVIOUS
<1>1. TypeOK
  <2>1. NoTime \in Times /\ 0 \in Clock
    BY ClockFacts
  <2>2. QED
    BY <2>1, Zenon DEF Init, TypeOK, TypeShared, TypeActors, TypeSignals,
      TypeCapture, TypeClock, CallerStates, TaskStates, PumpStates
<1>2. \A a \in Attempts : PhaseOK(a) /\ SignalOK(a) /\ (OwnsSlot(a) => slot = a)
  BY AttemptsAssumption DEF Init, PhaseOK, SignalOK, OwnsSlot, Reserving, Capturing, HasAudio,
         Opening, Running, Ended, Tapping
<1>3. WorkAccounted
  <2>1. {a \in Attempts : HoldsWork(a)} = {}
    BY DEF Init, HoldsWork, Reserving, Capturing
  <2>2. QED
    BY <2>1, FS_EmptySet DEF Init, WorkAccounted
<1>4. QED
  BY <1>1, <1>2, <1>3 DEF RecorderInv

\* Types are kept by the caller.
LEMMA CallerType ==
  ASSUME TypeButWork, NEW a \in Attempts, CallerStep(a)
  PROVE  TypeButWork'
<1> USE DEF shared, work, control, capture, clock,
        CallerStep, StartRefused, StartAdmitted, Audit, Render, Resolve,
        Dispatch, PendingClear, PendingRelease, WaitReady, WaitFailed,
        WaitExpired, ReportExpiry, AbandonStart, CallerAdvance, ClearSlot,
        DropWork, Stopped, CallerStates, TaskStates
<1>1. TypeShared'
  BY DEF TypeButWork, TypeShared
<1>2. TypeActors'
  BY DEF TypeButWork, TypeActors
<1>3. TypeSignals'
  BY DEF TypeButWork, TypeSignals
<1>4. TypeCapture'
  BY DEF TypeButWork, TypeCapture
<1>5. TypeClock'
  BY DEF TypeButWork, TypeClock
<1>6. QED
  BY <1>1, <1>2, <1>3, <1>4, <1>5 DEF TypeButWork

\* Types are kept by the session task up to the pump.
LEMMA SetupType ==
  ASSUME TypeButWork, NEW a \in Attempts,
         BeginTask(a) \/ Prepare(a) \/ Admit(a) \/ OpenMic(a) \/ OpenSystem(a)
  PROVE  TypeButWork'
<1> USE DEF shared, work, control, capture, clock,
        BeginTask, Prepare, Admit, OpenMic, OpenSystem, CaptureFails,
        BeginCaptureSetup, TaskAdvance, TaskStates
<1>1. TypeShared'
  BY DEF TypeButWork, TypeShared
<1>2. TypeActors'
  BY DEF TypeButWork, TypeActors
<1>3. TypeSignals'
  BY DEF TypeButWork, TypeSignals
<1>4. TypeCapture'
  BY DEF TypeButWork, TypeCapture
<1>5. TypeClock'
  BY DEF TypeButWork, TypeClock
<1>6. QED
  BY <1>1, <1>2, <1>3, <1>4, <1>5 DEF TypeButWork

\* Types are kept by the session task while it captures.
LEMMA CaptureType ==
  ASSUME TypeButWork, NEW a \in Attempts,
         CreateWal(a) \/ SpawnPump(a) \/ SignalCapture(a) \/ EndCapture(a)
         \/ LatchPump(a) \/ JoinPump(a)
  PROVE  TypeButWork'
<1> USE DEF shared, work, control, capture, clock,
        CreateWal, SpawnPump, SignalCapture, EndCapture, LatchPump, JoinPump,
        CaptureFails, Freeze, TaskAdvance, TaskStates, PumpStates
<1> Clock \subseteq Times
  BY ClockFacts
<1>1. TypeShared'
  BY DEF TypeButWork, TypeShared
<1>2. TypeActors'
  BY DEF TypeButWork, TypeActors
<1>3. TypeSignals'
  BY DEF TypeButWork, TypeSignals
<1>4. TypeCapture'
  BY DEF TypeButWork, TypeCapture
<1>5. TypeClock'
  BY DEF TypeButWork, TypeClock
<1>6. QED
  BY <1>1, <1>2, <1>3, <1>4, <1>5 DEF TypeButWork

\* Types are kept by the session task as it finishes.
LEMMA FinishType ==
  ASSUME TypeButWork, NEW a \in Attempts,
         ReleaseDevice(a) \/ WatcherClears(a) \/ SettleFailure(a) \/ Persist(a)
  PROVE  TypeButWork'
<1> USE DEF shared, work, control, capture, clock,
        ReleaseDevice, WatcherClears, SettleFailure, Persist, ClearSlot,
        DropWork, TaskAdvance, TaskStates
<1>1. TypeShared'
  BY DEF TypeButWork, TypeShared
<1>2. TypeActors'
  BY DEF TypeButWork, TypeActors
<1>3. TypeSignals'
  BY DEF TypeButWork, TypeSignals
<1>4. TypeCapture'
  BY DEF TypeButWork, TypeCapture
<1>5. TypeClock'
  BY DEF TypeButWork, TypeClock
<1>6. QED
  BY <1>1, <1>2, <1>3, <1>4, <1>5 DEF TypeButWork

\* Types are kept by the pump, native workers and tickets.
LEMMA PumpType ==
  ASSUME TypeButWork, NEW a \in Attempts, PumpStep(a) \/ NativeExits(a) \/ CancelTicket(a)
  PROVE  TypeButWork'
<1> USE DEF shared, work, control, capture, clock,
        PumpStep, PumpMove, PumpStopsTaps, PumpFinalizes, PumpFails,
        PumpStates, NativeExits, CancelTicket, Stopped
<1>1. TypeShared'
  BY DEF TypeButWork, TypeShared
<1>2. TypeActors'
  BY DEF TypeButWork, TypeActors
<1>3. TypeSignals'
  BY DEF TypeButWork, TypeSignals
<1>4. TypeCapture'
  BY DEF TypeButWork, TypeCapture
<1>5. TypeClock'
  BY DEF TypeButWork, TypeClock
<1>6. QED
  BY <1>1, <1>2, <1>3, <1>4, <1>5 DEF TypeButWork

\* Types are kept by every Stop under the slot lock.
LEMMA StopType ==
  ASSUME TypeButWork, Stop \/ StopObserved \/ BeginShutdown
  PROVE  TypeButWork'
<1> USE DEF shared, work, control, capture, clock,
        Stop, StopObserved, BeginShutdown, StopLive, StopFrame, Freeze, Stopped
<1> Clock \subseteq Times
  BY ClockFacts
<1>1. TypeShared'
  BY DEF TypeButWork, TypeShared
<1>2. TypeActors'
  BY DEF TypeButWork, TypeShared, TypeActors
<1>3. TypeSignals'
  BY DEF TypeButWork, TypeShared, TypeSignals
<1>4. TypeCapture'
  BY DEF TypeButWork, TypeShared, TypeCapture
<1>5. TypeClock'
  BY DEF TypeButWork, TypeShared, TypeClock
<1>6. QED
  BY <1>1, <1>2, <1>3, <1>4, <1>5 DEF TypeButWork

\* Types are kept by the rest of a Stop, observation, shutdown and the clock.
LEMMA OtherType ==
  ASSUME TypeButWork, StopUnready \/ Observe \/ CloseAdmission \/ Tick
  PROVE  TypeButWork'
<1> USE DEF shared, work, control, capture, clock,
        StopUnready, Observe, CloseAdmission, Tick, Stopped
<1> Clock \subseteq Times
  BY ClockFacts
<1>1. TypeShared'
  BY DEF TypeButWork, TypeShared
<1>2. TypeActors'
  BY DEF TypeButWork, TypeShared, TypeActors
<1>3. TypeSignals'
  BY DEF TypeButWork, TypeShared, TypeSignals
<1>4. TypeCapture'
  BY DEF TypeButWork, TypeShared, TypeCapture
<1>5. TypeClock'
  BY ClockFacts DEF TypeButWork, TypeShared, TypeClock
<1>6. QED
  BY <1>1, <1>2, <1>3, <1>4, <1>5 DEF TypeButWork

\* Every step of the system, or a stuttering step, keeps the types.
LEMMA TypeStep == TypeButWork /\ [Next]_vars => TypeButWork'
<1> SUFFICES ASSUME TypeButWork, [Next]_vars PROVE TypeButWork'
  OBVIOUS
<1>1. CASE Next
  BY <1>1, CallerType, SetupType, CaptureType, FinishType, PumpType, StopType,
     OtherType DEF Next, TaskStep, NativeStep
<1>2. CASE UNCHANGED vars
  BY <1>2 DEF TypeButWork, TypeShared, TypeActors, TypeSignals, TypeCapture,
     TypeClock, vars, shared, work, control, capture, clock
<1>3. QED
  BY <1>1, <1>2

\* The steps of the caller keep the phases of every attempt.
LEMMA CallerPhase ==
  ASSUME TypeButWork, NEW b \in Attempts, PhaseOK(b),
         NEW a \in Attempts, CallerStep(a)
  PROVE  PhaseOK(b)'
BY ClockFacts DEF PhaseOK, TypeButWork, TypeShared, TypeActors, TypeSignals, TypeCapture,
   TypeClock, Opening, Running, Ended, Tapping, shared, work, control, capture, clock,
   CallerStep, StartRefused, StartAdmitted, Audit, Render, Resolve, Dispatch,
   PendingClear, PendingRelease, WaitReady, WaitFailed, WaitExpired,
   ReportExpiry, AbandonStart, CallerAdvance, ClearSlot, DropWork, Stopped,
   CallerStates, TaskStates

\* The steps of the session task up to the pump keep the phases of every attempt.
LEMMA SetupPhase ==
  ASSUME TypeButWork, NEW b \in Attempts, PhaseOK(b),
         NEW a \in Attempts, BeginTask(a) \/ Prepare(a) \/ Admit(a) \/ OpenMic(a) \/ OpenSystem(a)
  PROVE  PhaseOK(b)'
BY ClockFacts DEF PhaseOK, TypeButWork, TypeShared, TypeActors, TypeSignals, TypeCapture,
   TypeClock, Opening, Running, Ended, Tapping, shared, work, control, capture, clock,
   BeginTask, Prepare, Admit, OpenMic, OpenSystem, CaptureFails,
   BeginCaptureSetup, TaskAdvance, TaskStates

\* The steps of the session task while it captures keep the phases of every attempt.
LEMMA CapturePhase ==
  ASSUME TypeButWork, NEW b \in Attempts, PhaseOK(b),
         NEW a \in Attempts, CreateWal(a) \/ SpawnPump(a) \/ SignalCapture(a) \/ EndCapture(a)
         \/ LatchPump(a) \/ JoinPump(a)
  PROVE  PhaseOK(b)'
<1> USE ClockFacts DEF PhaseOK, TypeButWork, TypeShared, TypeActors, TypeSignals, TypeCapture,
   TypeClock, Opening, Running, Ended, Tapping, shared, work, control, capture, clock,
   CreateWal, SpawnPump, SignalCapture, EndCapture, LatchPump, JoinPump,
   CaptureFails, Freeze, TaskAdvance, TaskStates, PumpStates
<1>1. CASE CreateWal(a)
  BY <1>1
<1>2. CASE SpawnPump(a)
  BY <1>2
<1>3. CASE SignalCapture(a)
  BY <1>3
<1>4. CASE EndCapture(a)
  BY <1>4
<1>5. CASE LatchPump(a)
  BY <1>5
<1>6. CASE JoinPump(a)
  BY <1>6
<1>7. QED
  BY <1>1, <1>2, <1>3, <1>4, <1>5, <1>6

\* The steps of the session task as it finishes keep the phases of every attempt.
LEMMA FinishPhase ==
  ASSUME TypeButWork, NEW b \in Attempts, PhaseOK(b),
         NEW a \in Attempts, ReleaseDevice(a) \/ WatcherClears(a) \/ SettleFailure(a) \/ Persist(a)
  PROVE  PhaseOK(b)'
BY ClockFacts DEF PhaseOK, TypeButWork, TypeShared, TypeActors, TypeSignals, TypeCapture,
   TypeClock, Opening, Running, Ended, Tapping, shared, work, control, capture, clock,
   ReleaseDevice, WatcherClears, SettleFailure, Persist, ClearSlot,
   DropWork, TaskAdvance, TaskStates

\* The steps of the pump, native workers and tickets keep the phases of every attempt.
LEMMA PumpPhase ==
  ASSUME TypeButWork, NEW b \in Attempts, PhaseOK(b),
         NEW a \in Attempts, PumpStep(a) \/ NativeExits(a) \/ CancelTicket(a)
  PROVE  PhaseOK(b)'
BY ClockFacts DEF PhaseOK, TypeButWork, TypeShared, TypeActors, TypeSignals, TypeCapture,
   TypeClock, Opening, Running, Ended, Tapping, shared, work, control, capture, clock,
   PumpStep, PumpMove, PumpStopsTaps, PumpFinalizes, PumpFails,
   PumpStates, NativeExits, CancelTicket, Stopped

\* The steps of a Stop under the slot lock keep the phases of every attempt.
LEMMA StopPhase ==
  ASSUME TypeButWork, NEW b \in Attempts, PhaseOK(b),
         Stop \/ StopObserved \/ BeginShutdown
  PROVE  PhaseOK(b)'
BY ClockFacts DEF PhaseOK, TypeButWork, TypeShared, TypeActors, TypeSignals, TypeCapture,
   TypeClock, Opening, Running, Ended, Tapping, shared, work, control, capture, clock,
   Stop, StopObserved, BeginShutdown, SameSession, StopLive, StopFrame, Freeze,
   Stopped

\* The steps of the rest of a Stop, observation, shutdown and the clock keep the phases of every attempt.
LEMMA OtherPhase ==
  ASSUME TypeButWork, NEW b \in Attempts, PhaseOK(b),
         StopUnready \/ Observe \/ CloseAdmission \/ Tick
  PROVE  PhaseOK(b)'
BY ClockFacts DEF PhaseOK, TypeButWork, TypeShared, TypeActors, TypeSignals, TypeCapture,
   TypeClock, Opening, Running, Ended, Tapping, shared, work, control, capture, clock,
   StopUnready, Observe, CloseAdmission, Tick, Stopped

\* The steps of the caller keep the signals of every attempt consistent.
LEMMA CallerSignal ==
  ASSUME TypeButWork, NEW b \in Attempts, PhaseOK(b), SignalOK(b),
         NEW a \in Attempts, CallerStep(a)
  PROVE  SignalOK(b)'
BY AttemptsAssumption DEF SignalOK, HasAudio, PhaseOK, TypeButWork, TypeShared, TypeActors, TypeSignals, TypeCapture,
   TypeClock, Opening, Running, Ended, Tapping, shared, work, control, capture, clock,
   CallerStep, StartRefused, StartAdmitted, Audit, Render, Resolve, Dispatch,
   PendingClear, PendingRelease, WaitReady, WaitFailed, WaitExpired,
   ReportExpiry, AbandonStart, CallerAdvance, ClearSlot, DropWork, Stopped,
   CallerStates, TaskStates

\* The steps of the session task up to the pump keep the signals of every attempt consistent.
LEMMA SetupSignal ==
  ASSUME TypeButWork, NEW b \in Attempts, PhaseOK(b), SignalOK(b),
         NEW a \in Attempts, BeginTask(a) \/ Prepare(a) \/ Admit(a) \/ OpenMic(a) \/ OpenSystem(a)
  PROVE  SignalOK(b)'
BY AttemptsAssumption DEF SignalOK, HasAudio, PhaseOK, TypeButWork, TypeShared, TypeActors, TypeSignals, TypeCapture,
   TypeClock, Opening, Running, Ended, Tapping, shared, work, control, capture, clock,
   BeginTask, Prepare, Admit, OpenMic, OpenSystem, CaptureFails,
   BeginCaptureSetup, TaskAdvance, TaskStates

\* The steps of the session task while it captures keep the signals of every attempt consistent.
LEMMA CaptureSignal ==
  ASSUME TypeButWork, NEW b \in Attempts, PhaseOK(b), SignalOK(b),
         NEW a \in Attempts, CreateWal(a) \/ SpawnPump(a) \/ SignalCapture(a) \/ EndCapture(a)
         \/ LatchPump(a) \/ JoinPump(a)
  PROVE  SignalOK(b)'
BY AttemptsAssumption DEF SignalOK, HasAudio, PhaseOK, TypeButWork, TypeShared, TypeActors, TypeSignals, TypeCapture,
   TypeClock, Opening, Running, Ended, Tapping, shared, work, control, capture, clock,
   CreateWal, SpawnPump, SignalCapture, EndCapture, LatchPump, JoinPump,
   CaptureFails, Freeze, TaskAdvance, TaskStates, PumpStates

\* The steps of the session task as it finishes keep the signals of every attempt consistent.
LEMMA FinishSignal ==
  ASSUME TypeButWork, NEW b \in Attempts, PhaseOK(b), SignalOK(b),
         NEW a \in Attempts, ReleaseDevice(a) \/ WatcherClears(a) \/ SettleFailure(a) \/ Persist(a)
  PROVE  SignalOK(b)'
BY AttemptsAssumption DEF SignalOK, HasAudio, PhaseOK, TypeButWork, TypeShared, TypeActors, TypeSignals, TypeCapture,
   TypeClock, Opening, Running, Ended, Tapping, shared, work, control, capture, clock,
   ReleaseDevice, WatcherClears, SettleFailure, Persist, ClearSlot,
   DropWork, TaskAdvance, TaskStates

\* The steps of the pump, native workers and tickets keep the signals of every attempt consistent.
LEMMA PumpSignal ==
  ASSUME TypeButWork, NEW b \in Attempts, PhaseOK(b), SignalOK(b),
         NEW a \in Attempts, PumpStep(a) \/ NativeExits(a) \/ CancelTicket(a)
  PROVE  SignalOK(b)'
BY AttemptsAssumption DEF SignalOK, HasAudio, PhaseOK, TypeButWork, TypeShared, TypeActors, TypeSignals, TypeCapture,
   TypeClock, Opening, Running, Ended, Tapping, shared, work, control, capture, clock,
   PumpStep, PumpMove, PumpStopsTaps, PumpFinalizes, PumpFails,
   PumpStates, NativeExits, CancelTicket, Stopped

\* The steps of a Stop under the slot lock keep the signals of every attempt consistent.
LEMMA StopSignal ==
  ASSUME TypeButWork, NEW b \in Attempts, PhaseOK(b), SignalOK(b),
         Stop \/ StopObserved \/ BeginShutdown
  PROVE  SignalOK(b)'
BY AttemptsAssumption DEF SignalOK, HasAudio, PhaseOK, TypeButWork, TypeShared, TypeActors, TypeSignals, TypeCapture,
   TypeClock, Opening, Running, Ended, Tapping, shared, work, control, capture, clock,
   Stop, StopObserved, BeginShutdown, SameSession, StopLive, StopFrame, Freeze,
   Stopped

\* The steps of the rest of a Stop, observation, shutdown and the clock keep the signals of every attempt consistent.
LEMMA OtherSignal ==
  ASSUME TypeButWork, NEW b \in Attempts, PhaseOK(b), SignalOK(b),
         StopUnready \/ Observe \/ CloseAdmission \/ Tick
  PROVE  SignalOK(b)'
BY AttemptsAssumption DEF SignalOK, HasAudio, PhaseOK, TypeButWork, TypeShared, TypeActors, TypeSignals, TypeCapture,
   TypeClock, Opening, Running, Ended, Tapping, shared, work, control, capture, clock,
   StopUnready, Observe, CloseAdmission, Tick, Stopped

\* The steps of the caller keep the slot with its owner.
LEMMA CallerSlot ==
  ASSUME TypeButWork, NEW b \in Attempts, PhaseOK(b), OwnsSlot(b) => slot = b,
         NEW a \in Attempts, CallerStep(a),
         PhaseOK(a), OwnsSlot(a) => slot = a
  PROVE  OwnsSlot(b)' => slot' = b
BY AttemptsAssumption DEF OwnsSlot, Reserving, Capturing, PhaseOK,
   TypeButWork, TypeShared, TypeActors, TypeSignals, TypeCapture,
   TypeClock, Opening, Running, Ended, Tapping, shared, work, control, capture, clock,
   CallerStep, StartRefused, StartAdmitted, Audit, Render, Resolve, Dispatch,
   PendingClear, PendingRelease, WaitReady, WaitFailed, WaitExpired,
   ReportExpiry, AbandonStart, CallerAdvance, ClearSlot, DropWork, Stopped,
   CallerStates, TaskStates

\* The steps of the session task up to the pump keep the slot with its owner.
LEMMA SetupSlot ==
  ASSUME TypeButWork, NEW b \in Attempts, PhaseOK(b), OwnsSlot(b) => slot = b,
         NEW a \in Attempts, BeginTask(a) \/ Prepare(a) \/ Admit(a) \/ OpenMic(a) \/ OpenSystem(a),
         PhaseOK(a), OwnsSlot(a) => slot = a
  PROVE  OwnsSlot(b)' => slot' = b
BY AttemptsAssumption DEF OwnsSlot, Reserving, Capturing, PhaseOK,
   TypeButWork, TypeShared, TypeActors, TypeSignals, TypeCapture,
   TypeClock, Opening, Running, Ended, Tapping, shared, work, control, capture, clock,
   BeginTask, Prepare, Admit, OpenMic, OpenSystem, CaptureFails,
   BeginCaptureSetup, TaskAdvance, TaskStates

\* The steps of the session task while it captures keep the slot with its owner.
LEMMA CaptureSlot ==
  ASSUME TypeButWork, NEW b \in Attempts, PhaseOK(b), OwnsSlot(b) => slot = b,
         NEW a \in Attempts, CreateWal(a) \/ SpawnPump(a) \/ SignalCapture(a) \/ EndCapture(a)
         \/ LatchPump(a) \/ JoinPump(a),
         PhaseOK(a), OwnsSlot(a) => slot = a
  PROVE  OwnsSlot(b)' => slot' = b
BY AttemptsAssumption DEF OwnsSlot, Reserving, Capturing, PhaseOK,
   TypeButWork, TypeShared, TypeActors, TypeSignals, TypeCapture,
   TypeClock, Opening, Running, Ended, Tapping, shared, work, control, capture, clock,
   CreateWal, SpawnPump, SignalCapture, EndCapture, LatchPump, JoinPump,
   CaptureFails, Freeze, TaskAdvance, TaskStates, PumpStates

\* The steps of the session task as it finishes keep the slot with its owner.
LEMMA FinishSlot ==
  ASSUME TypeButWork, NEW b \in Attempts, PhaseOK(b), OwnsSlot(b) => slot = b,
         NEW a \in Attempts, ReleaseDevice(a) \/ WatcherClears(a) \/ SettleFailure(a) \/ Persist(a),
         PhaseOK(a), OwnsSlot(a) => slot = a
  PROVE  OwnsSlot(b)' => slot' = b
BY AttemptsAssumption DEF OwnsSlot, Reserving, Capturing, PhaseOK,
   TypeButWork, TypeShared, TypeActors, TypeSignals, TypeCapture,
   TypeClock, Opening, Running, Ended, Tapping, shared, work, control, capture, clock,
   ReleaseDevice, WatcherClears, SettleFailure, Persist, ClearSlot,
   DropWork, TaskAdvance, TaskStates

\* The steps of the pump, native workers and tickets keep the slot with its owner.
LEMMA PumpSlot ==
  ASSUME TypeButWork, NEW b \in Attempts, PhaseOK(b), OwnsSlot(b) => slot = b,
         NEW a \in Attempts, PumpStep(a) \/ NativeExits(a) \/ CancelTicket(a),
         PhaseOK(a), OwnsSlot(a) => slot = a
  PROVE  OwnsSlot(b)' => slot' = b
BY AttemptsAssumption DEF OwnsSlot, Reserving, Capturing, PhaseOK,
   TypeButWork, TypeShared, TypeActors, TypeSignals, TypeCapture,
   TypeClock, Opening, Running, Ended, Tapping, shared, work, control, capture, clock,
   PumpStep, PumpMove, PumpStopsTaps, PumpFinalizes, PumpFails,
   PumpStates, NativeExits, CancelTicket, Stopped

\* The steps of a Stop under the slot lock keep the slot with its owner.
LEMMA StopSlot ==
  ASSUME TypeButWork, NEW b \in Attempts, PhaseOK(b), OwnsSlot(b) => slot = b,
         Stop \/ StopObserved \/ BeginShutdown
  PROVE  OwnsSlot(b)' => slot' = b
BY AttemptsAssumption DEF OwnsSlot, Reserving, Capturing, PhaseOK,
   TypeButWork, TypeShared, TypeActors, TypeSignals, TypeCapture,
   TypeClock, Opening, Running, Ended, Tapping, shared, work, control, capture, clock,
   Stop, StopObserved, BeginShutdown, SameSession, StopLive, StopFrame, Freeze,
   Stopped

\* The steps of the rest of a Stop, observation, shutdown and the clock keep the slot with its owner.
LEMMA OtherSlot ==
  ASSUME TypeButWork, NEW b \in Attempts, PhaseOK(b), OwnsSlot(b) => slot = b,
         StopUnready \/ Observe \/ CloseAdmission \/ Tick
  PROVE  OwnsSlot(b)' => slot' = b
BY AttemptsAssumption DEF OwnsSlot, Reserving, Capturing, PhaseOK,
   TypeButWork, TypeShared, TypeActors, TypeSignals, TypeCapture,
   TypeClock, Opening, Running, Ended, Tapping, shared, work, control, capture, clock,
   StopUnready, Observe, CloseAdmission, Tick, Stopped

\* The set of attempts that hold a lease is finite, so it has a size.
LEMMA HoldersFinite ==
  /\ IsFiniteSet({a \in Attempts : HoldsWork(a)})
  /\ Cardinality({a \in Attempts : HoldsWork(a)}) \in Nat
BY AttemptsAssumption, FS_Subset, FS_CardinalityType

\* Taking a lease counts one more.
LEMMA TakeWork ==
  ASSUME WorkAccounted, NEW a \in Attempts, ~HoldsWork(a),
         \A b \in Attempts : HoldsWork(b)' <=> HoldsWork(b) \/ b = a,
         outstanding' = outstanding + 1
  PROVE  WorkAccounted'
<1> DEFINE H == {b \in Attempts : HoldsWork(b)}
<1>1. {b \in Attempts : HoldsWork(b)'} = H \cup {a}
  OBVIOUS
<1>2. Cardinality(H \cup {a}) = Cardinality(H) + 1
  BY HoldersFinite, FS_AddElement
<1>3. QED
  BY <1>1, <1>2 DEF WorkAccounted

\* Dropping a lease counts one less.
LEMMA ReturnWork ==
  ASSUME WorkAccounted, NEW a \in Attempts, HoldsWork(a),
         \A b \in Attempts : HoldsWork(b)' <=> HoldsWork(b) /\ b # a,
         outstanding' = outstanding - 1
  PROVE  WorkAccounted'
<1> DEFINE H == {b \in Attempts : HoldsWork(b)}
<1>1. {b \in Attempts : HoldsWork(b)'} = H \ {a}
  OBVIOUS
<1>2. Cardinality(H \ {a}) = Cardinality(H) - 1
  BY HoldersFinite, FS_RemoveElement
<1>3. QED
  BY <1>1, <1>2 DEF WorkAccounted

\* A step that hands a lease over, or touches none, keeps the count.
LEMMA KeepWork ==
  ASSUME WorkAccounted, \A b \in Attempts : HoldsWork(b)' <=> HoldsWork(b),
         outstanding' = outstanding
  PROVE  WorkAccounted'
<1>1. {b \in Attempts : HoldsWork(b)'} = {b \in Attempts : HoldsWork(b)}
  OBVIOUS
<1>2. QED
  BY <1>1 DEF WorkAccounted

\* Every step keeps the lease count equal to the number of holders.
LEMMA WorkStep ==
  ASSUME TypeButWork, WorkAccounted, \A b \in Attempts : PhaseOK(b), [Next]_vars
  PROVE  WorkAccounted'
<1> USE DEF TypeButWork, TypeShared, TypeActors, HoldsWork, Reserving, Capturing,
        shared, work, control, capture, clock
<1>1. ASSUME NEW a \in Attempts, StartAdmitted(a) PROVE WorkAccounted'
  <2>1. ~HoldsWork(a) /\ \A b \in Attempts : HoldsWork(b)' <=> HoldsWork(b) \/ b = a
    BY <1>1 DEF StartAdmitted, PhaseOK, CallerStates
  <2>2. QED
    BY <1>1, <2>1, TakeWork DEF StartAdmitted
<1>2. ASSUME NEW a \in Attempts, PendingRelease(a) PROVE WorkAccounted'
  <2>1. HoldsWork(a) /\ \A b \in Attempts : HoldsWork(b)' <=> HoldsWork(b) /\ b # a
    BY <1>2 DEF PendingRelease, PhaseOK, CallerStates
  <2>2. QED
    BY <1>2, <2>1, ReturnWork DEF PendingRelease, DropWork
<1>3. ASSUME NEW a \in Attempts, SettleFailure(a) PROVE WorkAccounted'
  <2>1. HoldsWork(a) /\ \A b \in Attempts : HoldsWork(b)' <=> HoldsWork(b) /\ b # a
    BY <1>3 DEF SettleFailure, TaskAdvance, PhaseOK, CallerStates
  <2>2. QED
    BY <1>3, <2>1, ReturnWork DEF SettleFailure, DropWork
<1>4. ASSUME NEW a \in Attempts, Persist(a) PROVE WorkAccounted'
  <2>1. HoldsWork(a) /\ \A b \in Attempts : HoldsWork(b)' <=> HoldsWork(b) /\ b # a
    BY <1>4 DEF Persist, TaskAdvance, PhaseOK, CallerStates
  <2>2. QED
    BY <1>4, <2>1, ReturnWork DEF Persist, DropWork
<1>5. ASSUME NEW a \in Attempts,
             CallerStep(a), ~StartAdmitted(a), ~PendingRelease(a)
      PROVE  WorkAccounted'
  <2>1. outstanding' = outstanding /\ \A b \in Attempts : HoldsWork(b)' <=> HoldsWork(b)
    BY <1>5 DEF CallerStep, StartRefused, Audit, Render, Resolve, Dispatch,
       PendingClear, WaitReady, WaitFailed, WaitExpired, ReportExpiry,
       AbandonStart, CallerAdvance, ClearSlot, PhaseOK, CallerStates
  <2>2. QED
    BY <2>1, KeepWork
<1>6. ASSUME NEW a \in Attempts, TaskStep(a) \/ NativeStep(a),
             ~SettleFailure(a), ~Persist(a)
      PROVE  WorkAccounted'
  <2>1. outstanding' = outstanding /\ \A b \in Attempts : HoldsWork(b)' <=> HoldsWork(b)
    BY <1>6 DEF TaskStep, NativeStep, BeginTask, Prepare, Admit, OpenMic,
       OpenSystem, CreateWal, SpawnPump, SignalCapture, EndCapture, LatchPump,
       JoinPump, ReleaseDevice, WatcherClears, CaptureFails, TaskAdvance, ClearSlot
  <2>2. QED
    BY <2>1, KeepWork
<1>7. ASSUME UNCHANGED <<outstanding, caller, task>> PROVE WorkAccounted'
  BY <1>7, KeepWork
<1>8. ASSUME NEW a \in Attempts, PumpStep(a) \/ NativeExits(a) \/ CancelTicket(a)
      PROVE  UNCHANGED <<outstanding, caller, task>>
  BY <1>8 DEF PumpStep, PumpStopsTaps, PumpFinalizes, PumpFails, PumpMove,
     NativeExits, CancelTicket
<1>9. ASSUME \/ Stop \/ StopUnready \/ StopObserved \/ Observe
             \/ CloseAdmission \/ BeginShutdown \/ Tick
      PROVE  UNCHANGED <<outstanding, caller, task>>
  BY <1>9 DEF Stop, StopUnready, StopObserved, Observe, CloseAdmission,
     BeginShutdown, Tick, StopFrame
<1>10. CASE UNCHANGED vars
  BY <1>10, <1>7 DEF vars
<1>11. CASE Next
  BY <1>11, <1>1, <1>2, <1>3, <1>4, <1>5, <1>6, <1>7, <1>8, <1>9 DEF Next
<1>12. QED
  BY <1>10, <1>11

\* Every step keeps the phases and the signals of every attempt, and leaves
\* the slot with its owner.
LEMMA AttemptStep ==
  ASSUME RecorderInv, [Next]_vars, NEW b \in Attempts
  PROVE  PhaseOK(b)' /\ SignalOK(b)' /\ (OwnsSlot(b)' => slot' = b)
<1> TypeButWork
  BY DEF RecorderInv, TypeOK, TypeButWork
<1> \A c \in Attempts : PhaseOK(c) /\ SignalOK(c) /\ (OwnsSlot(c) => slot = c)
  BY DEF RecorderInv
<1>1. CASE Next
  <2>1. PhaseOK(b)'
    BY <1>1, CallerPhase, SetupPhase, CapturePhase, FinishPhase, PumpPhase,
       StopPhase, OtherPhase DEF Next, TaskStep, NativeStep
  <2>2. SignalOK(b)'
    BY <1>1, CallerSignal, SetupSignal, CaptureSignal, FinishSignal, PumpSignal,
       StopSignal, OtherSignal DEF Next, TaskStep, NativeStep
  <2>3. OwnsSlot(b)' => slot' = b
    BY <1>1, CallerSlot, SetupSlot, CaptureSlot, FinishSlot, PumpSlot,
       StopSlot, OtherSlot DEF Next, TaskStep, NativeStep
  <2>4. QED
    BY <2>1, <2>2, <2>3
<1>2. CASE UNCHANGED vars
  BY <1>2 DEF PhaseOK, SignalOK, HasAudio, OwnsSlot, Reserving, Capturing,
     vars, shared, work, control, capture, clock
<1>3. QED
  BY <1>1, <1>2

\* RecorderInv is inductive: the lease count, and from it the counter's type;
\* the other types; the attempts one by one.
LEMMA InvStep == RecorderInv /\ [Next]_vars => RecorderInv'
<1> SUFFICES ASSUME RecorderInv, [Next]_vars PROVE RecorderInv'
  OBVIOUS
<1>1. TypeButWork /\ TypeButWork'
  BY TypeStep DEF RecorderInv, TypeOK, TypeButWork
<1>2. WorkAccounted'
  BY <1>1, WorkStep DEF RecorderInv
<1>3. outstanding' \in Nat
  <2>1. Cardinality({a \in Attempts : HoldsWork(a)'}) \in Nat
    BY AttemptsAssumption, FS_Subset, FS_CardinalityType
  <2>2. QED
    BY <1>2, <2>1 DEF WorkAccounted
<1>4. TypeOK'
  BY <1>1, <1>3 DEF TypeOK, TypeButWork
<1>5. \A b \in Attempts : PhaseOK(b)' /\ SignalOK(b)' /\ (OwnsSlot(b)' => slot' = b)
  BY AttemptStep
<1>6. QED
  BY <1>2, <1>4, <1>5 DEF RecorderInv

\* The inductive invariant holds in every reachable state.
THEOREM RecorderInvariance == Spec => []RecorderInv
BY InitInv, InvStep, PTL DEF Spec

\* Every variable keeps its type; the lease counter never underflows.
THEOREM RecorderTypes == Spec => []TypeOK
<1>1. RecorderInv => TypeOK
  BY DEF RecorderInv
<1>2. QED
  BY <1>1, RecorderInvariance, PTL

\* Open or opening taps own the device slot, unless their pump was abandoned:
\* whatever Stop, the deadline and the session do, no two live captures overlap.
THEOREM CaptureExclusion == Spec => []CaptureOwnsSlot
<1>1. RecorderInv => CaptureOwnsSlot
  BY DEF RecorderInv, TypeOK, TypeActors, TypeCapture, CaptureOwnsSlot, PhaseOK,
     OwnsSlot, Capturing, Abandoned, Opening, Running, Ended, Tapping, TaskStates
<1>2. QED
  BY <1>1, RecorderInvariance, PTL

\* A Stop answered "preparation cancelled" is never followed by a capture.
THEOREM CancellationIsFinal == Spec => []CancelledMeansNoCapture
<1>1. RecorderInv => CancelledMeansNoCapture
  BY DEF RecorderInv, CancelledMeansNoCapture, PhaseOK, SignalOK, Opening
<1>2. QED
  BY <1>1, RecorderInvariance, PTL

\* CON-01 for every schedule: the audit record precedes every tap and all audio.
THEOREM AuditComesFirst == Spec => []AuditBeforeAudio
<1>1. RecorderInv => AuditBeforeAudio
  BY DEF RecorderInv, AuditBeforeAudio, HasAudio, PhaseOK, Opening
<1>2. QED
  BY <1>1, RecorderInvariance, PTL

\* A refused Start leaves no capture that is neither stopped nor ended.
THEOREM RefusalStops == Spec => []RefusedStartIsStopped
<1>1. RecorderInv => RefusedStartIsStopped
  BY DEF RecorderInv, TypeOK, TypeActors, TypeCapture, RefusedStartIsStopped,
     PhaseOK, SignalOK, Opening, Running, Ended, TaskStates
<1>2. QED
  BY <1>1, RecorderInvariance, PTL

\* "recording" is shown only over open taps, or over a pump that died.
THEOREM BadgeIsHonest == Spec => []BadgeOverOpenTaps
<1>1. RecorderInv => BadgeOverOpenTaps
  BY DEF RecorderInv, TypeOK, TypeActors, BadgeOverOpenTaps, Recording,
     PhaseOK, Opening, Running, Ended, TaskStates
<1>2. QED
  BY <1>1, RecorderInvariance, PTL

\* A stop reaches only an attempt somebody asked to stop.
THEOREM StopIsTargeted == Spec => []StopReachesOnlyAsked
<1>1. RecorderInv => StopReachesOnlyAsked
  BY DEF RecorderInv, StopReachesOnlyAsked, SignalOK
<1>2. QED
  BY <1>1, RecorderInvariance, PTL

\* With no lease outstanding no attempt is configuring, capturing or saving.
LEMMA NoWorkLeft ==
  ASSUME RecorderInv, outstanding = 0, NEW a \in Attempts PROVE ~HoldsWork(a)
<1>1. {b \in Attempts : HoldsWork(b)} = {}
  BY HoldersFinite, FS_EmptySet DEF RecorderInv, WorkAccounted
<1>2. QED
  BY <1>1

\* A drained shutdown has saved all captured audio, or says that it has not.
THEOREM DrainSaves == Spec => []DrainedMeansSaved
<1>1. RecorderInv => DrainedMeansSaved
  <2> SUFFICES ASSUME RecorderInv, Drained, NEW a \in Attempts, HasAudio(a)
               PROVE  saved[a] \/ saveFailed
    BY DEF DrainedMeansSaved
  <2>1. ~HoldsWork(a)
    BY NoWorkLeft DEF Drained
  <2>2. task[a] = "done"
    BY <2>1 DEF RecorderInv, TypeOK, TypeActors, PhaseOK, HasAudio, HoldsWork,
       Capturing, TaskStates
  <2>3. QED
    BY <2>2 DEF RecorderInv, SignalOK
<1>2. QED
  BY <1>1, RecorderInvariance, PTL

\* Drained is final: nothing takes the slot or a lease after it.
THEOREM DrainIsFinal == Spec => DrainedIsFinal
<1>1. RecorderInv /\ [Next]_vars => (Drained => Drained')
  <2> SUFFICES ASSUME RecorderInv, [Next]_vars, Drained PROVE Drained'
    OBVIOUS
  <2>1. \A a \in Attempts : ~HoldsWork(a)
    BY NoWorkLeft DEF Drained
  <2> USE DEF Drained, shared, work, control, capture, clock
  <2>2. ASSUME NEW a \in Attempts, CallerStep(a) PROVE Drained'
    BY <2>1, <2>2 DEF HoldsWork, Reserving, CallerStep, StartRefused, StartAdmitted,
       Audit, Render, Resolve, Dispatch, PendingClear, PendingRelease, WaitReady,
       WaitFailed, WaitExpired, ReportExpiry, AbandonStart, CallerAdvance, ClearSlot
  <2>3. ASSUME NEW a \in Attempts, TaskStep(a) \/ NativeStep(a) PROVE Drained'
    BY <2>1, <2>3 DEF HoldsWork, Capturing, TaskStep, NativeStep, BeginTask, Prepare,
       Admit, OpenMic, OpenSystem, CreateWal, SpawnPump, SignalCapture, EndCapture,
       LatchPump, JoinPump, ReleaseDevice, WatcherClears, SettleFailure, Persist,
       ClearSlot
  <2>4. ASSUME NEW a \in Attempts, PumpStep(a) \/ NativeExits(a) \/ CancelTicket(a)
        PROVE  Drained'
    BY <2>4 DEF PumpStep, PumpStopsTaps, PumpFinalizes, PumpFails, PumpMove,
       NativeExits, CancelTicket
  <2>5. CASE Stop \/ StopUnready \/ StopObserved \/ Observe
             \/ CloseAdmission \/ BeginShutdown \/ Tick
    BY <2>5 DEF Stop, StopUnready, StopObserved, Observe, CloseAdmission,
       BeginShutdown, Tick, StopFrame
  <2>6. CASE UNCHANGED vars
    BY <2>6 DEF vars
  <2>7. QED
    BY <2>2, <2>3, <2>4, <2>5, <2>6 DEF Next
<1>2. QED
  BY <1>1, RecorderInvariance, PTL DEF Spec, DrainedIsFinal

-----------------------------------------------------------------------------
(* The end shown while finishing.                                          *)

\* A stop is stamped with a time that has come.
StopsPast == \A a \in Attempts : stoppedAt[a] = NoTime \/ stoppedAt[a] <= now

\* Few steps touch the stamps: the manifest, the end of capture, and Stop.
LEMMA StampSteps ==
  ASSUME TypeShared, [Next]_vars
  PROVE  \/ UNCHANGED <<startedAt, stoppedAt, endedAt>> /\ now' \in {now, now + 1}
         \/ \E a \in Attempts : \/ CreateWal(a) \/ EndCapture(a)
                                \/ StopLive(a) /\ StopFrame
         \/ StopUnready
<1> USE DEF shared, work, control, capture, clock
<1>1. ASSUME NEW a \in Attempts, CallerStep(a) \/ PumpStep(a) \/ NativeExits(a) \/ CancelTicket(a)
      PROVE  UNCHANGED <<startedAt, stoppedAt, endedAt, now>>
  BY <1>1 DEF CallerStep, StartRefused, StartAdmitted, Audit, Render, Resolve, Dispatch,
     PendingClear, PendingRelease, WaitReady, WaitFailed, WaitExpired, ReportExpiry,
     AbandonStart, CallerAdvance, ClearSlot, PumpStep, PumpStopsTaps, PumpFinalizes,
     PumpFails, PumpMove, NativeExits, CancelTicket
<1>2. ASSUME NEW a \in Attempts, TaskStep(a) \/ NativeStep(a)
      PROVE  CreateWal(a) \/ EndCapture(a) \/ UNCHANGED <<startedAt, stoppedAt, endedAt, now>>
  BY <1>2 DEF TaskStep, NativeStep, BeginTask, Prepare, Admit, OpenMic, OpenSystem, SpawnPump,
     SignalCapture, LatchPump, JoinPump, ReleaseDevice, WatcherClears, SettleFailure,
     Persist, ClearSlot, CaptureFails, TaskAdvance
<1>3. CASE Stop \/ StopObserved \/ BeginShutdown
  BY <1>3 DEF Stop, StopObserved, BeginShutdown, TypeShared
<1>4. CASE Observe \/ CloseAdmission \/ Tick
  BY <1>4 DEF Observe, CloseAdmission, Tick
<1>5. CASE UNCHANGED vars
  BY <1>5 DEF vars
<1>6. QED
  BY <1>1, <1>2, <1>3, <1>4, <1>5 DEF Next

\* The clock only goes on, and a stop is stamped with what it shows.
LEMMA StopsPastStep ==
  ASSUME RecorderInv, StopsPast, [Next]_vars
  PROVE  StopsPast'
<1>1. TypeShared /\ TypeClock /\ now \in Nat
  BY MaxTimeAssumption DEF RecorderInv, TypeOK, TypeClock, Clock
<1>2. \A a \in Attempts : stoppedAt[a] \in Nat
  BY <1>1, MaxTimeAssumption DEF TypeClock, Times, NoTime
<1>3. CASE UNCHANGED <<startedAt, stoppedAt, endedAt>> /\ now' \in {now, now + 1}
  BY <1>1, <1>2, <1>3 DEF StopsPast
<1>4. ASSUME NEW a \in Attempts, CreateWal(a) \/ EndCapture(a)
      PROVE  StopsPast'
  BY <1>4 DEF StopsPast, CreateWal, EndCapture, CaptureFails, clock
<1>5. ASSUME NEW a \in Attempts, StopLive(a), StopFrame
      PROVE  StopsPast'
  BY <1>1, <1>2, <1>5 DEF StopsPast, StopLive, StopFrame, TypeClock
<1>6. CASE StopUnready
  BY <1>1, <1>2, <1>6 DEF StopsPast, StopUnready, TypeShared, TypeClock
<1>7. QED
  BY <1>1, <1>3, <1>4, <1>5, <1>6, StampSteps

\* One step of the end that is shown for attempt b.
LEMMA ShownStep ==
  ASSUME RecorderInv, StopsPast, [Next]_vars, NEW b \in Attempts, Finishing(b)
  PROVE  /\ ShownEnd(b) >= startedAt[b]
         /\ Finishing(b)' => ShownEnd(b)' >= ShownEnd(b)
<1>1. TypeShared /\ TypeClock /\ PhaseOK(b)
  BY DEF RecorderInv, TypeOK
<1>2. /\ now \in Nat /\ startedAt[b] \in Nat /\ stoppedAt[b] \in Nat /\ endedAt[b] \in Nat
      /\ rdy[b] /\ (endedAt[b] # NoTime \/ stoppedAt[b] # NoTime) /\ NoTime \in Nat
      /\ now # NoTime
      /\ stoppedAt[b] = NoTime \/ stoppedAt[b] <= now
  BY <1>1, MaxTimeAssumption DEF TypeClock, Times, NoTime, Clock, Finishing, StopsPast
<1>3. ShownEnd(b) >= startedAt[b]
  BY <1>2 DEF ShownEnd
<1>4. ASSUME startedAt'[b] = startedAt[b],
             endedAt[b] # NoTime => endedAt'[b] = endedAt[b],
             stoppedAt[b] # NoTime => stoppedAt'[b] = stoppedAt[b],
             endedAt[b] = NoTime => endedAt'[b] \in {NoTime, now, stoppedAt[b]}
      PROVE  ShownEnd(b)' >= ShownEnd(b)
  BY <1>2, <1>4 DEF ShownEnd
<1>5. CASE UNCHANGED <<startedAt, stoppedAt, endedAt>>
  <2>1. startedAt'[b] = startedAt[b] /\ stoppedAt'[b] = stoppedAt[b] /\ endedAt'[b] = endedAt[b]
    BY <1>5
  <2>2. QED
    BY <1>3, <1>4, <2>1
<1>6. ASSUME NEW a \in Attempts, CreateWal(a)
      PROVE  ShownEnd(b)' >= ShownEnd(b)
  <2>1. task[b] # "createWal"
    BY <1>1, <1>2 DEF PhaseOK, Opening
  <2>2. a # b \/ UNCHANGED <<startedAt, stoppedAt, endedAt>>
    BY <1>6, <2>1 DEF CreateWal
  <2>3. startedAt'[b] = startedAt[b] /\ UNCHANGED <<stoppedAt, endedAt>>
    BY <1>1, <1>6, <2>1, <2>2 DEF CreateWal, CaptureFails, clock, TypeClock
  <2>4. QED
    BY <1>4, <2>3
<1>7. ASSUME NEW a \in Attempts, EndCapture(a)
      PROVE  ShownEnd(b)' >= ShownEnd(b)
  BY <1>1, <1>4, <1>7 DEF EndCapture, Freeze, TypeClock
<1>8. ASSUME NEW a \in Attempts, StopLive(a), StopFrame
      PROVE  ShownEnd(b)' >= ShownEnd(b)
  BY <1>1, <1>2, <1>4, <1>8 DEF StopLive, StopFrame, Freeze, TypeClock
<1>9. CASE StopUnready
  <2>1. startedAt'[b] = startedAt[b] /\ endedAt'[b] = endedAt[b]
    BY <1>9 DEF StopUnready
  <2>2. stoppedAt[b] # NoTime => stoppedAt'[b] = stoppedAt[b]
    BY <1>1, <1>9 DEF StopUnready, TypeShared, TypeClock
  <2>3. QED
    BY <1>3, <1>4, <2>1, <2>2
<1>10. QED
  BY <1>1, <1>3, <1>5, <1>6, <1>7, <1>8, <1>9, StampSteps

\* What has ended stays ended: a drained recorder takes nothing up again, and the
\* end shown while finishing is not before the start and never moves back, for
\* any number of attempts.
THEOREM EndsStayFinal == Spec => EndsAreFinal
<1>1. Init => StopsPast
  BY DEF Init, StopsPast
<1>2. RecorderInv /\ StopsPast /\ [Next]_vars => StopsPast'
  BY StopsPastStep
<1>3. RecorderInv /\ StopsPast /\ [Next]_vars =>
        [\A a \in Attempts : Finishing(a) => /\ ShownEnd(a) >= startedAt[a]
                                             /\ Finishing(a)' => ShownEnd(a)' >= ShownEnd(a)]_vars
  BY ShownStep
<1>4. Spec => FinishingClockSane
  BY <1>1, <1>2, <1>3, RecorderInvariance, PTL DEF Spec, FinishingClockSane
<1>5. QED
  BY <1>4, DrainIsFinal DEF EndsAreFinal

=============================================================================
