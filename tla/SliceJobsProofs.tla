--------------------------- MODULE SliceJobsProofs ---------------------------
(***************************************************************************)
(* Theorems about SliceJobs and SliceUi for every set of jobs and          *)
(* calibrations and every length of the plate list: the engine is used by  *)
(* one thread at a time and only calibrates for those who asked; a job     *)
(* behaves as SliceLifecycle says, so its listeners get one outcome; and   *)
(* the slice panel shows what the workers said.                            *)
(***************************************************************************)
EXTENDS SliceUi, TLAPS

Outside == WorkerPc \cup CalibPc \cup Waiting

(* The shapes a step can have for the engine. *)
Quiet(u) ==
  /\ pc[u] \in Outside
  /\ \E to \in Outside : pc' = [pc EXCEPT ![u] = to]
  /\ UNCHANGED engineVars

Away ==
  /\ UNCHANGED pc
  /\ UNCHANGED engineVars \/ CancelActive

LEMMA OutsideNotHolding == Outside \cap Holding = {}
  BY DEF Outside, WorkerPc, CalibPc, Waiting, Holding, InPrint, Returning,
         BeforePlate, InPlate, AtRest

(* Every step of the orchestrator is, for the engine, one of four things. *)
LEMMA StepShapes ==
  ASSUME [Next]_vars
  PROVE  \/ \E u \in User : Quiet(u)
         \/ \E u \in User : EngineStep(u)
         \/ \E u \in User : \E to \in Outside : Release(u, to)
         \/ Away
<1> USE DEF Outside, WorkerPc, CalibPc, Waiting, BeforePlate, InPlate, AtRest
<1>1. ASSUME NEW j \in Job, StartJob(j) PROVE Quiet(j)
  BY <1>1 DEF StartJob, Quiet, Move
<1>2. ASSUME NEW j \in Job, WorkerStep(j)
      PROVE  Quiet(j) \/ \E to \in Outside : Release(j, to)
  <2>1. CASE PassCheck(j)
    BY <2>1 DEF PassCheck, Quiet, Move
  <2>2. CASE CancelAtCheck(j)
    BY <2>2 DEF CancelAtCheck, Quiet, Move
  <2>3. CASE BeginPlate(j)
    BY <2>3 DEF BeginPlate, Quiet, Move
  <2>4. CASE AnnouncePlate(j)
    BY <2>4 DEF AnnouncePlate, Quiet, Move
  <2>5. CASE Prepared(j)
    BY <2>5 DEF Prepared, Quiet, Move
  <2>6. CASE PrepareFails(j)
    BY <2>6 DEF PrepareFails, Quiet, Move
  <2>7. CASE CancelBeforeSlice(j)
    BY <2>7 DEF CancelBeforeSlice, Quiet, Move
  <2>8. CASE CallSlice(j)
    BY <2>8 DEF CallSlice, Quiet, Move
  <2>9. CASE SliceReturns(j)
    BY <2>9 DEF SliceReturns
  <2>10. CASE Warn(j)
    BY <2>10 DEF Warn, Quiet, Move
  <2>11. CASE CancelAfterSlice(j)
    BY <2>11 DEF CancelAfterSlice, Quiet
  <2>12. CASE Accept(j)
    BY <2>12 DEF Accept, Quiet, Move
  <2>13. CASE Reject(j)
    BY <2>13 DEF Reject, Quiet, Move
  <2>14. CASE FinishPlate(j)
    BY <2>14 DEF FinishPlate, Quiet, Move
  <2>15. CASE EmitFailed(j)
    BY <2>15 DEF EmitFailed, Quiet, Move
  <2>16. CASE Complete(j)
    BY <2>16 DEF Complete, Quiet, Move
  <2>17. CASE EmitFinished(j)
    BY <2>17 DEF EmitFinished, Quiet, Move
  <2>18. CASE Prune(j)
    BY <2>18 DEF Prune, Quiet, Move
  <2> QED
    BY <1>2, <2>1, <2>2, <2>3, <2>4, <2>5, <2>6, <2>7, <2>8, <2>9, <2>10,
       <2>11, <2>12, <2>13, <2>14, <2>15, <2>16, <2>17, <2>18 DEF WorkerStep
<1>3. ASSUME NEW j \in Job, Tick(j) \/ CancelFlag(j) PROVE Away
  BY <1>3 DEF Tick, CancelFlag, Away
<1>4. ASSUME NEW c \in Calib, CalibNext(c)
      PROVE  Quiet(c) \/ \E to \in Outside : Release(c, to)
  <2>1. CASE Calibrate(c)
    BY <2>1 DEF Calibrate, Quiet, Move
  <2>2. CASE CalibrationReturns(c)
    BY <2>2 DEF CalibrationReturns
  <2> QED
    BY <1>4, <2>1, <2>2 DEF CalibNext
<1>5. ASSUME CancelMark \/ CancelAbort PROVE Away
  BY <1>5 DEF CancelMark, CancelAbort, Away
<1>6. ASSUME UNCHANGED vars PROVE Away
  BY <1>6 DEF vars, Away
<1> QED
  BY <1>1, <1>2, <1>3, <1>4, <1>5, <1>6 DEF Next, JobNext, EngineStepOf, User

-----------------------------------------------------------------------------
(* The engine.  The lock and the published Print follow the control        *)
(* points, and the arming follows the one thread that may be armed.        *)
ArmedIsHeld ==
  /\ \A u \in User : pc[u] = "armed" => armed /\ u \in Calib
  /\ armed => \E u \in User : pc[u] = "armed"

EngineInv ==
  /\ pc \in [User -> WorkerPc \cup CalibPc \cup EnginePc]
  /\ EngineTypeOK
  /\ EngineExclusive
  /\ PublishedWhileProcessing
  /\ ArmedIsHeld
  /\ SweepOnlyCalibrates

LEMMA EngineInvInit == Init => EngineInv
  BY EngineAssumption
  DEF Init, EngineInit, EngineInv, EngineTypeOK, EngineExclusive,
      PublishedWhileProcessing, ArmedIsHeld, SweepOnlyCalibrates, User,
      WorkerPc, CalibPc, EnginePc, Waiting, Holding, InPrint, Returning

LEMMA EngineInvStep == EngineInv /\ [Next]_vars => EngineInv'
<1> SUFFICES ASSUME EngineInv, [Next]_vars PROVE EngineInv'
  OBVIOUS
<1>0. \/ \E u \in User : Quiet(u)
      \/ \E u \in User : EngineStep(u)
      \/ \E u \in User : \E to \in Outside : Release(u, to)
      \/ Away
  BY StepShapes
<1> USE EngineAssumption
    DEF EngineInv, EngineTypeOK, EngineExclusive, PublishedWhileProcessing,
        ArmedIsHeld, SweepOnlyCalibrates, engineVars,
        EnginePc, Waiting, Holding, InPrint, Returning
<1>1. ASSUME NEW u \in User, Quiet(u) PROVE EngineInv'
  <2>1. PICK to \in Outside : pc' = [pc EXCEPT ![u] = to]
    BY <1>1 DEF Quiet
  <2>2. pc[u] \notin Holding /\ to \notin Holding
    BY <1>1, <2>1, OutsideNotHolding DEF Quiet
  <2> QED
    BY <1>1, <2>1, <2>2 DEF Quiet, Outside
<1>2. ASSUME NEW u \in User, EngineStep(u) PROVE EngineInv'
  <2>1. CASE TakeLock(u)
    BY <2>1 DEF TakeLock, Move, User
  <2>2. CASE Arm(u)
    BY <2>2 DEF Arm, Move, User
  <2>3. CASE Enter(u)
    BY <2>3 DEF Enter, Move, User
  <2>4. CASE Invalid(u)
    BY <2>4 DEF Invalid, Move, User
  <2>5. CASE Publish(u)
    BY <2>5 DEF Publish, Move, User
  <2>6. CASE ProcessThrows(u)
    BY <2>6 DEF ProcessThrows, Move, User
  <2>7. CASE ProcessDone(u)
    BY <2>7 DEF ProcessDone, Move, User
  <2>8. CASE Export(u)
    BY <2>8 DEF Export, Move, User
  <2> QED
    BY <1>2, <2>1, <2>2, <2>3, <2>4, <2>5, <2>6, <2>7, <2>8 DEF EngineStep
<1>3. ASSUME NEW u \in User, NEW to \in Outside, Release(u, to)
      PROVE  EngineInv'
  <2>1. to \notin Holding /\ to \in WorkerPc \cup CalibPc \cup EnginePc
    BY OutsideNotHolding DEF Outside
  <2> QED
    BY <1>3, <2>1 DEF Release, User
<1>4. CASE Away
  <2>1. /\ pc' = pc /\ lock' = lock /\ active' = active
        /\ armed' = armed /\ sweep' = sweep
    BY <1>4 DEF Away, CancelActive
  <2>2. abort' \in BOOLEAN
    BY <1>4 DEF Away, CancelActive
  <2> QED
    BY <2>1, <2>2
<1> HIDE DEF EngineInv
<1> QED
  BY <1>0, <1>1, <1>2, <1>3, <1>4

LEMMA EngineInvariant == Spec => []EngineInv
  BY EngineInvInit, EngineInvStep, PTL DEF Spec

(* SLICE_LOCK excludes: one thread at a time between taking and dropping. *)
THEOREM EngineIsExclusive == Spec => []EngineExclusive
<1>1. EngineInv => EngineExclusive
  BY DEF EngineInv
<1> QED
  BY <1>1, EngineInvariant, PTL

(* slic3r_cancel reaches a Print only while it is in process(). *)
THEOREM PrintIsPublishedWhileProcessing == Spec => []PublishedWhileProcessing
<1>1. EngineInv => PublishedWhileProcessing
  BY DEF EngineInv
<1> QED
  BY <1>1, EngineInvariant, PTL

(* Armed calibration parameters never leak into another slice. *)
THEOREM SweepNeverLeaks == Spec => []SweepOnlyCalibrates
<1>1. EngineInv => SweepOnlyCalibrates
  BY DEF EngineInv
<1> QED
  BY <1>1, EngineInvariant, PTL

(* The three together: the shim's process globals belong to whoever is      *)
(* between lock and unlock (lib.rs:1814, slic3r_ffi.cpp:1514).              *)
THEOREM EngineAlwaysOwned == Spec => []EngineIsOwned
  BY EngineIsExclusive, PrintIsPublishedWhileProcessing, SweepNeverLeaks, PTL
     DEF EngineIsOwned

-----------------------------------------------------------------------------
(* The workers.  A worker inside a plate has a plate left to finish, one   *)
(* about to report the job finished has none, and only jobs that were      *)
(* started are in the registry.                                            *)
PlatesLeft ==
  \A j \in Job :
    /\ pc[j] \in {"begin", "announce"} \cup InPlate \cup EnginePc
         => done[j] < plates[j]
    /\ pc[j] = "finishing" => done[j] = plates[j]

RegisteredIsStarted == \A j \in registered : pc[j] # "unborn"

JobInv ==
  /\ EngineInv
  /\ JobTypeOK
  /\ PlatesLeft
  /\ RegisteredIsStarted

LEMMA EmitType ==
  ASSUME JobTypeOK, NEW j \in Job, NEW kind \in Kind, NEW plate \in Nat,
         Emit(j, kind, plate)
  PROVE  log' \in [Job -> Seq(Event)]
<1> DEFINE e == [kind |-> kind, plate |-> plate, late |-> flag[j]]
<1>1. e \in Event /\ log[j] \in Seq(Event)
  BY DEF Event, JobTypeOK
<1>2. log' = [log EXCEPT ![j] = Append(log[j], e)]
  BY DEF Emit
<1>3. Append(log[j], e) \in Seq(Event)
  BY <1>1
<1> QED
  BY <1>2, <1>3 DEF JobTypeOK

LEMMA PlateType == ASSUME JobTypeOK, NEW j \in Job
                   PROVE  Plate(j) \in Nat /\ done[j] \in Nat
  BY DEF JobTypeOK, Plate

LEMMA JobInvInit == Init => JobInv
<1> SUFFICES ASSUME Init PROVE JobInv
  OBVIOUS
<1>1. JobTypeOK
  BY BoundsAssumption DEF Init, JobTypeOK, Status, NoCall
<1>2. PlatesLeft /\ RegisteredIsStarted
  BY DEF Init, PlatesLeft, RegisteredIsStarted, User, InPlate, EnginePc,
         Waiting, Holding, InPrint, Returning
<1> QED
  BY <1>1, <1>2, EngineInvInit DEF JobInv

LEMMA JobTypeStep == JobInv /\ [Next]_vars => JobTypeOK'
<1> SUFFICES ASSUME JobInv, [Next]_vars PROVE JobTypeOK'
  OBVIOUS
<1>0. JobTypeOK
  BY DEF JobInv
<1> USE DEF JobTypeOK
<1>1. ASSUME NEW j \in Job, StartJob(j) PROVE JobTypeOK'
  BY <1>0, <1>1, BoundsAssumption DEF StartJob
<1>2. ASSUME NEW j \in Job, CancelAtCheck(j) PROVE JobTypeOK'
  BY <1>0, <1>2, EmitType, PlateType DEF CancelAtCheck, Kind, Terminal
<1>3. ASSUME NEW j \in Job, BeginPlate(j) PROVE JobTypeOK'
  BY <1>0, <1>3 DEF BeginPlate, SetStatus, Status
<1>4. ASSUME NEW j \in Job, AnnouncePlate(j) PROVE JobTypeOK'
  BY <1>0, <1>4, EmitType, PlateType DEF AnnouncePlate, Kind
<1>5. ASSUME NEW j \in Job, PrepareFails(j) PROVE JobTypeOK'
  BY <1>0, <1>5 DEF PrepareFails, SetStatus, Status
<1>6. ASSUME NEW j \in Job, CancelBeforeSlice(j) PROVE JobTypeOK'
  BY <1>0, <1>6, EmitType, PlateType DEF CancelBeforeSlice, Kind, Terminal
<1>7. ASSUME NEW j \in Job, Tick(j) PROVE JobTypeOK'
  <2>1. log' \in [Job -> Seq(Event)]
    BY <1>0, <1>7, EmitType, PlateType DEF Tick, Kind
  <2>2. ticks' \in [Job -> 0..MaxTicks] /\ status' \in [Job -> Status]
    BY <1>0, <1>7, BoundsAssumption DEF Tick, SetStatus, Status
  <2> QED
    BY <1>0, <1>7, <2>1, <2>2 DEF Tick
<1>8. ASSUME NEW j \in Job, Warn(j) PROVE JobTypeOK'
  <2>1. log' \in [Job -> Seq(Event)]
    BY <1>0, <1>8, EmitType, PlateType DEF Warn, Kind
  <2> QED
    BY <1>0, <1>8, <2>1 DEF Warn
<1>9. ASSUME NEW j \in Job, CancelAfterSlice(j) PROVE JobTypeOK'
  BY <1>0, <1>9, EmitType, PlateType DEF CancelAfterSlice, Kind, Terminal
<1>10. ASSUME NEW j \in Job, Reject(j) PROVE JobTypeOK'
  BY <1>0, <1>10 DEF Reject, SetStatus, Status
<1>11. ASSUME NEW j \in Job, FinishPlate(j) PROVE JobTypeOK'
  <2>0. done[j] < plates[j]
    BY <1>11 DEF FinishPlate, Move, JobInv, PlatesLeft, InPlate
  <2>1. log' \in [Job -> Seq(Event)]
    BY <1>0, <1>11, EmitType, PlateType DEF FinishPlate, Kind
  <2>2. done' \in [Job -> 0..MaxPlates]
    BY <1>0, <1>11, <2>0, BoundsAssumption DEF FinishPlate
  <2> QED
    BY <1>0, <1>11, <2>1, <2>2 DEF FinishPlate
<1>12. ASSUME NEW j \in Job, EmitFailed(j) PROVE JobTypeOK'
  BY <1>0, <1>12, EmitType, PlateType DEF EmitFailed, Kind, Terminal
<1>13. ASSUME NEW j \in Job, Complete(j) PROVE JobTypeOK'
  BY <1>0, <1>13 DEF Complete, SetStatus, Status
<1>14. ASSUME NEW j \in Job, EmitFinished(j) PROVE JobTypeOK'
  BY <1>0, <1>14, EmitType, PlateType DEF EmitFinished, Kind, Terminal
<1>15. ASSUME NEW j \in Job, Prune(j) PROVE JobTypeOK'
  BY <1>0, <1>15 DEF Prune
<1>16. ASSUME NEW j \in Job, CancelFlag(j) PROVE JobTypeOK'
  BY <1>0, <1>16 DEF CancelFlag
<1>17. CASE CancelMark
  <2>1. call \in [job : Job, step : {"mark", "abort"}]
    BY <1>0, <1>17 DEF CancelMark, NoCall
  <2>2. status' \in [Job -> Status]
    BY <1>0, <1>17, <2>1 DEF CancelMark, SetStatus, Status
  <2>3. call' \in [job : Job, step : {"mark", "abort"}]
    BY <1>17, <2>1 DEF CancelMark
  <2> QED
    BY <1>0, <1>17, <2>2, <2>3 DEF CancelMark
<1>18. CASE CancelAbort
  BY <1>0, <1>18 DEF CancelAbort
<1>19. CASE UNCHANGED jobVars
  BY <1>0, <1>19 DEF jobVars
<1>20. ASSUME NEW j \in Job, WorkerStep(j) PROVE JobTypeOK'
  BY <1>2, <1>3, <1>4, <1>5, <1>6, <1>8, <1>9, <1>10, <1>11, <1>12, <1>13,
     <1>14, <1>15, <1>19, <1>20
     DEF WorkerStep, PassCheck, Prepared, CallSlice, SliceReturns, Accept
<1> QED
  BY <1>1, <1>7, <1>16, <1>17, <1>18, <1>19, <1>20
     DEF Next, JobNext, CalibNext, Calibrate, CalibrationReturns,
         EngineStepOf, vars

Busy == {"begin", "announce"} \cup InPlate \cup EnginePc

(* One job moves; what it reaches agrees with the plates it has left. *)
LEMMA PlatesLeftMove ==
  ASSUME JobInv, NEW j \in Job, NEW to, pc' = [pc EXCEPT ![j] = to],
         \A k \in Job \ {j} : done'[k] = done[k] /\ plates'[k] = plates[k],
         registered' \subseteq registered \cup {j},
         to # "unborn",
         to \in Busy => done'[j] < plates'[j],
         to = "finishing" => done'[j] = plates'[j]
  PROVE  PlatesLeft' /\ RegisteredIsStarted'
<1>1. /\ pc \in [User -> WorkerPc \cup CalibPc \cup EnginePc]
      /\ Job \subseteq User /\ registered \in SUBSET Job
      /\ PlatesLeft /\ RegisteredIsStarted
  BY DEF JobInv, EngineInv, JobTypeOK, User
<1>2. pc'[j] = to /\ \A k \in Job \ {j} : pc'[k] = pc[k]
  BY <1>1
<1> QED
  BY <1>1, <1>2 DEF PlatesLeft, RegisteredIsStarted, Busy

LEMMA PlatesLeftStep == JobInv /\ [Next]_vars => PlatesLeft' /\ RegisteredIsStarted'
<1> SUFFICES ASSUME JobInv, [Next]_vars
             PROVE  PlatesLeft' /\ RegisteredIsStarted'
  OBVIOUS
<1>0. /\ JobTypeOK /\ PlatesLeft /\ RegisteredIsStarted
      /\ pc \in [User -> WorkerPc \cup CalibPc \cup EnginePc]
      /\ Job \subseteq User
  BY DEF JobInv, EngineInv, User
<1>a. \A j \in Job : pc[j] \in Busy => done[j] < plates[j]
  BY <1>0 DEF PlatesLeft, Busy
<1> USE <1>0 DEF Busy, InPlate, EnginePc, Waiting, Holding, InPrint, Returning
<1>1. ASSUME NEW j \in Job, StartJob(j)
      PROVE  PlatesLeft' /\ RegisteredIsStarted'
  BY <1>1, PlatesLeftMove DEF StartJob, Move, JobTypeOK
<1>2. ASSUME NEW j \in Job, PassCheck(j)
      PROVE  PlatesLeft' /\ RegisteredIsStarted'
  BY <1>2, PlatesLeftMove DEF PassCheck, Move, jobVars
<1>3. ASSUME NEW j \in Job, CancelAtCheck(j) \/ CancelBeforeSlice(j)
      PROVE  PlatesLeft' /\ RegisteredIsStarted'
  BY <1>3, PlatesLeftMove DEF CancelAtCheck, CancelBeforeSlice, Move
<1>4. ASSUME NEW j \in Job, BeginPlate(j) \/ AnnouncePlate(j) \/ Prepared(j)
      PROVE  PlatesLeft' /\ RegisteredIsStarted'
  BY <1>a, <1>4, PlatesLeftMove
     DEF BeginPlate, AnnouncePlate, Prepared, Move, jobVars
<1>5. ASSUME NEW j \in Job, PrepareFails(j) \/ CallSlice(j) \/ Warn(j)
      PROVE  PlatesLeft' /\ RegisteredIsStarted'
  BY <1>a, <1>5, PlatesLeftMove DEF PrepareFails, CallSlice, Warn, Move, jobVars
<1>6. ASSUME NEW j \in Job, SliceReturns(j)
      PROVE  PlatesLeft' /\ RegisteredIsStarted'
  BY <1>a, <1>6, PlatesLeftMove DEF SliceReturns, Release, jobVars
<1>7. ASSUME NEW j \in Job, CancelAfterSlice(j) \/ Accept(j) \/ Reject(j)
      PROVE  PlatesLeft' /\ RegisteredIsStarted'
  BY <1>a, <1>7, PlatesLeftMove
     DEF CancelAfterSlice, Accept, Reject, Move, jobVars
<1>8. ASSUME NEW j \in Job, FinishPlate(j)
      PROVE  PlatesLeft' /\ RegisteredIsStarted'
  BY <1>8, PlatesLeftMove DEF FinishPlate, Move, JobTypeOK
<1>9. ASSUME NEW j \in Job, Complete(j)
      PROVE  PlatesLeft' /\ RegisteredIsStarted'
  BY <1>9, PlatesLeftMove DEF Complete, Move
<1>10. ASSUME NEW j \in Job, EmitFailed(j) \/ EmitFinished(j) \/ Prune(j)
       PROVE  PlatesLeft' /\ RegisteredIsStarted'
  BY <1>10, PlatesLeftMove DEF EmitFailed, EmitFinished, Prune, Move
<1> USE DEF PlatesLeft, RegisteredIsStarted
<1>11. ASSUME NEW j \in Job, Tick(j) \/ CancelFlag(j)
       PROVE  PlatesLeft' /\ RegisteredIsStarted'
  BY <1>11 DEF Tick, CancelFlag
<1>12. ASSUME NEW c \in Calib, CalibNext(c)
       PROVE  PlatesLeft' /\ RegisteredIsStarted'
  <2>1. UNCHANGED jobVars /\ \E to : pc' = [pc EXCEPT ![c] = to]
    BY <1>12 DEF CalibNext, Calibrate, CalibrationReturns, Release, Move
  <2>2. \A j \in Job : pc'[j] = pc[j]
    BY <1>0, <2>1, EngineAssumption
  <2>3. done' = done /\ plates' = plates /\ registered' = registered
    BY <2>1 DEF jobVars
  <2>4. registered \subseteq Job
    BY <1>0 DEF JobTypeOK
  <2> QED
    BY <1>0, <2>2, <2>3, <2>4
<1>13. ASSUME NEW u \in User, EngineStepOf(u)
       PROVE  PlatesLeft' /\ RegisteredIsStarted'
  <2>1. UNCHANGED jobVars /\ EngineStep(u)
    BY <1>13 DEF EngineStepOf
  <2>2. /\ pc[u] \in EnginePc
        /\ \E to \in EnginePc : pc' = [pc EXCEPT ![u] = to]
    BY <2>1 DEF EngineStep, TakeLock, Arm, Enter, Invalid, Publish,
                ProcessThrows, ProcessDone, Export, Move
  <2> QED
    BY <2>1, <2>2 DEF jobVars
<1>14. ASSUME CancelMark \/ CancelAbort \/ UNCHANGED vars
       PROVE  PlatesLeft' /\ RegisteredIsStarted'
  BY <1>14 DEF CancelMark, CancelAbort, vars, jobVars
<1> HIDE <1>0 DEF PlatesLeft, RegisteredIsStarted
<1>15. ASSUME NEW j \in Job, WorkerStep(j)
       PROVE  PlatesLeft' /\ RegisteredIsStarted'
  BY <1>2, <1>3, <1>4, <1>5, <1>6, <1>7, <1>8, <1>9, <1>10, <1>15 DEF WorkerStep
<1> QED
  BY <1>1, <1>11, <1>12, <1>13, <1>14, <1>15 DEF Next, JobNext

LEMMA JobInvariant == Spec => []JobInv
<1>1. JobInv /\ [Next]_vars => JobInv'
  BY JobTypeStep, PlatesLeftStep, EngineInvStep DEF JobInv
<1> QED
  BY <1>1, JobInvInit, PTL DEF Spec

(* The model's variables keep their types. *)
THEOREM JobsTypeCorrect == Spec => []TypeOK
<1>1. JobInv => TypeOK
  BY DEF JobInv, EngineInv, TypeOK
<1> QED
  BY <1>1, JobInvariant, PTL

-----------------------------------------------------------------------------
(* What a worker tells its listeners.  Once a boundary was reported with    *)
(* the flag up, the worker is past every point from which it could report   *)
(* another; the finished plates reported are those it has done; and a job   *)
(* reported finished is at rest.                                            *)
Stopping == {"preparing", "precheck", "failing", "check", "finishing"} \cup AtRest

LateBoundary(j, n) ==
  log[j][n].late /\ log[j][n].kind \in {"PlateStarted", "PlateFinished"}

Prompt(j) ==
  /\ \A i, k \in 1..Len(log[j]) : LateBoundary(j, i) /\ LateBoundary(j, k) => i = k
  /\ \A i \in 1..Len(log[j]) : LateBoundary(j, i) => flag[j] /\ pc[j] \in Stopping

Reported(j) ==
  /\ {log[j][i].plate : i \in FinishesOf(j)} = 1..done[j]
  /\ \A i, k \in FinishesOf(j) : i < k => log[j][i].plate < log[j][k].plate
  /\ \A i \in 1..Len(log[j]) :
       log[j][i].kind = "JobFinished" => pc[j] \in AtRest /\ done[j] = plates[j]

Served(j) ==
  /\ pc[j] \notin {"unborn", "pruned"} => j \in registered
  /\ status[j] = "Finished" => pc[j] \in {"finishing"} \cup AtRest
  /\ status[j] = "Failed" => pc[j] \in {"failing"} \cup AtRest

(* For one job a step is silent, a remark that closes or opens no plate, or *)
(* one of the three events the properties are about.                        *)
Onward(j) ==
  /\ pc[j] \in AtRest => pc'[j] \in AtRest
  /\ flag[j] /\ pc[j] \in Stopping => pc'[j] \in Stopping
  /\ flag[j] => flag'[j]
  /\ done'[j] = done[j]
  /\ plates'[j] = plates[j] \/ pc[j] = "unborn"

Silent(j) == log'[j] = log[j] /\ Onward(j)

Remark == {e \in Event : e.kind \notin {"PlateStarted", "PlateFinished", "JobFinished"}}

Remarks(j) == Onward(j) /\ \E e \in Remark : log'[j] = Append(log[j], e)

LEMMA EmitIsRemark ==
  ASSUME JobTypeOK, NEW j \in Job, NEW plate \in Nat,
         NEW kind \in Kind \ {"PlateStarted", "PlateFinished", "JobFinished"},
         Emit(j, kind, plate)
  PROVE  \E e \in Remark : log'[j] = Append(log[j], e)
<1> DEFINE e == [kind |-> kind, plate |-> plate, late |-> flag[j]]
<1>1. e \in Remark
  BY DEF Event, Remark, JobTypeOK
<1>2. log'[j] = Append(log[j], e)
  BY DEF Emit, JobTypeOK
<1> QED
  BY <1>1, <1>2

LEMMA WhatAStepSays ==
  ASSUME JobInv, [Next]_vars, NEW j \in Job
  PROVE  Silent(j) \/ Remarks(j) \/ AnnouncePlate(j) \/ FinishPlate(j) \/ EmitFinished(j)
<1>0. /\ JobTypeOK /\ j \in User
      /\ pc \in [User -> WorkerPc \cup CalibPc \cup EnginePc]
      /\ Plate(j) \in Nat /\ done[j] \in Nat
  BY PlateType DEF JobInv, EngineInv, User
<1>a. \A u \in User : \A to : u # j /\ pc' = [pc EXCEPT ![u] = to] => pc'[j] = pc[j]
  BY <1>0
<1>1. ASSUME NEW k \in Job \ {j}, WorkerStep(k) \/ StartJob(k) PROVE Silent(j)
  <2>1. pc'[j] = pc[j]
    BY <1>0, <1>a, <1>1
       DEF WorkerStep, StartJob, PassCheck, CancelAtCheck, BeginPlate, AnnouncePlate,
           Prepared, PrepareFails, CancelBeforeSlice, CallSlice, SliceReturns, Warn,
           CancelAfterSlice, Accept, Reject, FinishPlate, EmitFailed, Complete,
           EmitFinished, Prune, Move, Release, User
  <2>2. log'[j] = log[j]
    BY <1>0, <1>1
       DEF WorkerStep, StartJob, PassCheck, CancelAtCheck, BeginPlate, AnnouncePlate,
           Prepared, PrepareFails, CancelBeforeSlice, CallSlice, SliceReturns, Warn,
           CancelAfterSlice, Accept, Reject, FinishPlate, EmitFailed, Complete,
           EmitFinished, Prune, Emit, JobTypeOK, jobVars
  <2>3. flag' = flag /\ done'[j] = done[j] /\ plates'[j] = plates[j]
    BY <1>0, <1>1
       DEF WorkerStep, StartJob, PassCheck, CancelAtCheck, BeginPlate, AnnouncePlate,
           Prepared, PrepareFails, CancelBeforeSlice, CallSlice, SliceReturns, Warn,
           CancelAfterSlice, Accept, Reject, FinishPlate, EmitFailed, Complete,
           EmitFinished, Prune, JobTypeOK, jobVars
  <2> QED
    BY <2>1, <2>2, <2>3 DEF Silent, Onward
<1>2. ASSUME NEW u \in User, EngineStepOf(u) PROVE Silent(j)
  <2>1. UNCHANGED jobVars /\ EngineStep(u)
    BY <1>2 DEF EngineStepOf
  <2>2. pc[u] \in EnginePc /\ \E to \in EnginePc : pc' = [pc EXCEPT ![u] = to]
    BY <2>1 DEF EngineStep, TakeLock, Arm, Enter, Invalid, Publish, ProcessThrows,
                ProcessDone, Export, Move, EnginePc, Waiting, Holding, InPrint, Returning
  <2>3. pc[j] \in Stopping => pc'[j] = pc[j]
    BY <1>0, <2>2 DEF Stopping, AtRest, EnginePc, Waiting, Holding, InPrint, Returning
  <2> QED
    BY <2>1, <2>3 DEF Silent, Onward, jobVars, Stopping
<1>3. ASSUME NEW c \in Calib, CalibNext(c) PROVE Silent(j)
  <2>1. UNCHANGED jobVars /\ \E to : pc' = [pc EXCEPT ![c] = to]
    BY <1>3 DEF CalibNext, Calibrate, CalibrationReturns, Release, Move
  <2>2. pc'[j] = pc[j]
    BY <1>0, <1>a, <2>1, EngineAssumption DEF User
  <2> QED
    BY <2>1, <2>2 DEF Silent, Onward, jobVars
<1>4. ASSUME CancelMark \/ CancelAbort \/ UNCHANGED vars PROVE Silent(j)
  BY <1>4 DEF CancelMark, CancelAbort, vars, jobVars, Silent, Onward
<1>5. ASSUME NEW k \in Job, CancelFlag(k) PROVE Silent(j)
  BY <1>0, <1>5 DEF CancelFlag, Silent, Onward, JobTypeOK
<1>6. ASSUME NEW k \in Job, Tick(k) PROVE Silent(j) \/ Remarks(j)
  <2>1. Onward(j)
    BY <1>6 DEF Tick, Onward
  <2>2. k # j => log'[j] = log[j]
    BY <1>0, <1>6 DEF Tick, Emit, JobTypeOK
  <2>3. k = j /\ log' # log => \E e \in Remark : log'[j] = Append(log[j], e)
    BY <1>0, <1>6, EmitIsRemark DEF Tick, Kind, Terminal
  <2> QED
    BY <2>1, <2>2, <2>3 DEF Silent, Remarks
<1>7. ASSUME StartJob(j) \/ WorkerStep(j)
      PROVE  Silent(j) \/ Remarks(j) \/ AnnouncePlate(j) \/ FinishPlate(j) \/ EmitFinished(j)
  <2> USE <1>0 DEF Move, Stopping, AtRest
  <2>1. CASE StartJob(j)
    BY <2>1 DEF StartJob, Silent, Onward
  <2>2. CASE PassCheck(j) \/ Prepared(j) \/ CallSlice(j) \/ Accept(j)
    BY <2>2 DEF PassCheck, Prepared, CallSlice, Accept, Silent, Onward, jobVars
  <2>3. CASE BeginPlate(j) \/ PrepareFails(j) \/ Reject(j) \/ Complete(j) \/ Prune(j)
    BY <2>3 DEF BeginPlate, PrepareFails, Reject, Complete, Prune, Silent, Onward
  <2>4. CASE SliceReturns(j)
    BY <2>4 DEF SliceReturns, Release, Returning, Silent, Onward, jobVars
  <2>5. CASE CancelAtCheck(j) \/ CancelBeforeSlice(j) \/ CancelAfterSlice(j)
    <3>1. Onward(j)
      BY <2>5 DEF CancelAtCheck, CancelBeforeSlice, CancelAfterSlice, Onward
    <3>2. \E n \in Nat : Emit(j, "Cancelled", n)
      BY <2>5 DEF CancelAtCheck, CancelBeforeSlice, CancelAfterSlice
    <3> QED
      BY <3>1, <3>2, EmitIsRemark DEF Remarks, Kind, Terminal
  <2>6. CASE Warn(j)
    <3>1. Onward(j)
      BY <2>6 DEF Warn, Onward
    <3>2. Emit(j, "PlateWarning", Plate(j)) \/ log' = log
      BY <2>6 DEF Warn
    <3> QED
      BY <3>1, <3>2, EmitIsRemark DEF Silent, Remarks, Kind, Terminal
  <2>7. CASE EmitFailed(j)
    <3>1. Onward(j) /\ Emit(j, "JobFailed", Plate(j))
      BY <2>7 DEF EmitFailed, Onward
    <3> QED
      BY <3>1, EmitIsRemark DEF Remarks, Kind, Terminal
  <2> QED
    BY <1>7, <2>1, <2>2, <2>3, <2>4, <2>5, <2>6, <2>7 DEF WorkerStep
<1> QED
  BY <1>1, <1>2, <1>3, <1>4, <1>5, <1>6, <1>7 DEF Next, JobNext

HonestInv == JobInv /\ \A j \in Job : Prompt(j) /\ Reported(j) /\ Served(j)

(* A log that grows by one event keeps the ones it has. *)
LEMMA GrownLog ==
  ASSUME NEW l \in Seq(Event), NEW e \in Event, NEW m, m = Append(l, e)
  PROVE  /\ Len(m) = Len(l) + 1 /\ Len(l) \in Nat
         /\ m[Len(l) + 1] = e
         /\ \A i \in 1..Len(l) : m[i] = l[i]
         /\ 1..Len(m) = 1..Len(l) \cup {Len(l) + 1}
  OBVIOUS

LEMMA HonestInit == Init => HonestInv
<1> SUFFICES ASSUME Init, NEW j \in Job PROVE Prompt(j) /\ Reported(j) /\ Served(j)
  BY JobInvInit DEF HonestInv
<1>1. pc[j] = "unborn" /\ log[j] = <<>> /\ done[j] = 0 /\ status[j] = "Queued"
  BY DEF Init, User
<1>2. FinishesOf(j) = {}
  BY <1>1 DEF FinishesOf
<1> QED
  BY <1>1, <1>2 DEF Prompt, Reported, Served

LEMMA SilentKeeps ==
  ASSUME NEW j \in Job, Silent(j), Prompt(j), Reported(j)
  PROVE  Prompt(j)' /\ Reported(j)'
<1>1. FinishesOf(j)' = FinishesOf(j)
  BY DEF Silent, FinishesOf
<1> QED
  BY <1>1 DEF Silent, Onward, Prompt, Reported, LateBoundary, AtRest

LEMMA RemarkKeeps ==
  ASSUME JobTypeOK, NEW j \in Job, Remarks(j), Prompt(j), Reported(j)
  PROVE  Prompt(j)' /\ Reported(j)'
<1>1. PICK e \in Remark : log'[j] = Append(log[j], e)
  BY DEF Remarks
<1>2. log[j] \in Seq(Event) /\ e \in Event
  BY DEF JobTypeOK, Remark
<1>3. /\ Len(log'[j]) = Len(log[j]) + 1 /\ Len(log[j]) \in Nat
      /\ log'[j][Len(log[j]) + 1] = e
      /\ \A i \in 1..Len(log[j]) : log'[j][i] = log[j][i]
      /\ 1..Len(log'[j]) = 1..Len(log[j]) \cup {Len(log[j]) + 1}
  BY <1>1, <1>2, GrownLog
<1>4. Onward(j)
  BY DEF Remarks
<1>5. e.kind \notin {"PlateStarted", "PlateFinished", "JobFinished"}
  BY DEF Remark
<1>6. FinishesOf(j)' = FinishesOf(j)
  BY <1>3, <1>5 DEF FinishesOf
<1>7. FinishesOf(j) \subseteq 1..Len(log[j])
  BY DEF FinishesOf
<1>8. {log[j][i].plate : i \in FinishesOf(j)}' = {log[j][i].plate : i \in FinishesOf(j)}
  BY <1>3, <1>6, <1>7
<1>9. Reported(j)'
  BY <1>3, <1>4, <1>5, <1>6, <1>7, <1>8 DEF Reported, Onward, AtRest
<1>10. \A i \in 1..Len(log'[j]) : LateBoundary(j, i)' => i \in 1..Len(log[j]) /\ LateBoundary(j, i)
  BY <1>3, <1>5 DEF LateBoundary
<1>11. Prompt(j)'
  BY <1>4, <1>10 DEF Prompt, Onward
<1> QED
  BY <1>9, <1>11

(* The worker announces a plate with no late boundary behind it.            *)
LEMMA AnnounceKeeps ==
  ASSUME JobInv, NEW j \in Job, AnnouncePlate(j), Prompt(j), Reported(j)
  PROVE  Prompt(j)' /\ Reported(j)'
<1> DEFINE e == [kind |-> "PlateStarted", plate |-> Plate(j), late |-> flag[j]]
<1>0. /\ JobTypeOK /\ j \in User
      /\ pc \in [User -> WorkerPc \cup CalibPc \cup EnginePc]
  BY DEF JobInv, EngineInv, User
<1>1. /\ pc[j] = "announce" /\ pc'[j] = "preparing"
      /\ log'[j] = Append(log[j], e)
      /\ flag' = flag /\ done' = done /\ plates' = plates
  BY <1>0 DEF AnnouncePlate, Move, Emit, JobTypeOK
<1>2. log[j] \in Seq(Event) /\ e \in Event
  BY <1>0, PlateType DEF JobTypeOK, Event, Kind
<1>3. /\ Len(log'[j]) = Len(log[j]) + 1 /\ Len(log[j]) \in Nat
      /\ log'[j][Len(log[j]) + 1] = e
      /\ \A i \in 1..Len(log[j]) : log'[j][i] = log[j][i]
      /\ 1..Len(log'[j]) = 1..Len(log[j]) \cup {Len(log[j]) + 1}
  BY <1>1, <1>2, GrownLog
<1>4. e.kind = "PlateStarted" /\ e.late = flag[j]
  OBVIOUS
<1> HIDE DEF e
<1>5. \A i \in 1..Len(log[j]) : ~LateBoundary(j, i) /\ ~LateBoundary(j, i)'
  BY <1>1, <1>3 DEF Prompt, LateBoundary, Stopping, AtRest
<1>6. Prompt(j)'
  BY <1>1, <1>3, <1>4, <1>5 DEF Prompt, LateBoundary, Stopping
<1>7. FinishesOf(j)' = FinishesOf(j) /\ FinishesOf(j) \subseteq 1..Len(log[j])
  BY <1>3, <1>4 DEF FinishesOf
<1>8. {log[j][i].plate : i \in FinishesOf(j)}' = {log[j][i].plate : i \in FinishesOf(j)}
  BY <1>3, <1>7
<1>9. \A i \in 1..Len(log'[j]) : log'[j][i].kind # "JobFinished"
  BY <1>1, <1>3, <1>4 DEF Reported, AtRest
<1> QED
  BY <1>1, <1>3, <1>6, <1>7, <1>8, <1>9 DEF Reported

(* The next plate reported finished is the one after those done.            *)
LEMMA FinishKeeps ==
  ASSUME JobInv, NEW j \in Job, FinishPlate(j), Prompt(j), Reported(j)
  PROVE  Prompt(j)' /\ Reported(j)'
<1> DEFINE e == [kind |-> "PlateFinished", plate |-> Plate(j), late |-> flag[j]]
           n == Len(log[j]) + 1
<1>0. /\ JobTypeOK /\ j \in User
      /\ pc \in [User -> WorkerPc \cup CalibPc \cup EnginePc]
  BY DEF JobInv, EngineInv, User
<1>1. /\ pc[j] = "posthook" /\ pc'[j] = "check"
      /\ log'[j] = Append(log[j], e)
      /\ flag' = flag /\ plates' = plates
      /\ done[j] \in Nat /\ done'[j] = done[j] + 1
  BY <1>0, PlateType DEF FinishPlate, Move, Emit, JobTypeOK
<1>2. log[j] \in Seq(Event) /\ e \in Event
  BY <1>0, PlateType DEF JobTypeOK, Event, Kind
<1>3. /\ Len(log'[j]) = n /\ Len(log[j]) \in Nat
      /\ log'[j][n] = e
      /\ \A i \in 1..Len(log[j]) : log'[j][i] = log[j][i]
      /\ 1..Len(log'[j]) = 1..Len(log[j]) \cup {n}
  BY <1>1, <1>2, GrownLog
<1>4. e.kind = "PlateFinished" /\ e.late = flag[j] /\ e.plate = done[j] + 1
  BY DEF Plate
<1> HIDE DEF e
<1>5. \A i \in 1..Len(log[j]) : ~LateBoundary(j, i) /\ ~LateBoundary(j, i)'
  BY <1>1, <1>3 DEF Prompt, LateBoundary, Stopping, AtRest
<1>6. Prompt(j)'
  BY <1>1, <1>3, <1>4, <1>5 DEF Prompt, LateBoundary, Stopping
<1>7. FinishesOf(j)' = FinishesOf(j) \cup {n} /\ FinishesOf(j) \subseteq 1..Len(log[j])
  BY <1>3, <1>4 DEF FinishesOf
<1>8. {log[j][i].plate : i \in FinishesOf(j)}'
        = {log[j][i].plate : i \in FinishesOf(j)} \cup {done[j] + 1}
  <2>1. \A i \in FinishesOf(j) : log'[j][i].plate = log[j][i].plate
    BY <1>3, <1>7
  <2>2. log'[j][n].plate = done[j] + 1
    BY <1>3, <1>4
  <2>3. {log'[j][i].plate : i \in FinishesOf(j)'}
          = {log'[j][i].plate : i \in FinishesOf(j)} \cup {log'[j][n].plate}
    BY <1>7
  <2>4. {log'[j][i].plate : i \in FinishesOf(j)} = {log[j][i].plate : i \in FinishesOf(j)}
    BY <2>1
  <2> QED
    BY <2>2, <2>3, <2>4
<1>9. {log[j][i].plate : i \in FinishesOf(j)}' = 1..done'[j]
  <2>1. 1..done'[j] = 1..done[j] \cup {done[j] + 1}
    BY <1>1
  <2>2. {log[j][i].plate : i \in FinishesOf(j)} = 1..done[j]
    BY DEF Reported
  <2> QED
    BY <1>8, <2>1, <2>2
<1>10. \A i \in FinishesOf(j) : log[j][i].plate \in 1..done[j]
  BY DEF Reported
<1>11. \A i, k \in FinishesOf(j)' : i < k => log'[j][i].plate < log'[j][k].plate
  <2> SUFFICES ASSUME NEW i \in FinishesOf(j) \cup {n}, NEW k \in FinishesOf(j) \cup {n}, i < k
               PROVE  log'[j][i].plate < log'[j][k].plate
    BY <1>7
  <2>1. i \in FinishesOf(j)
    BY <1>3, <1>7
  <2>2. CASE k = n
    <3>1. log'[j][k].plate = done[j] + 1
      BY <2>2, <1>3, <1>4
    <3>2. log'[j][i].plate = log[j][i].plate
      BY <2>1, <1>3, <1>7
    <3> QED
      BY <1>1, <1>10, <2>1, <3>1, <3>2
  <2>3. CASE k \in FinishesOf(j)
    BY <2>1, <2>3, <1>3, <1>7 DEF Reported
  <2> QED
    BY <2>2, <2>3
<1>12. \A i \in 1..Len(log'[j]) : log'[j][i].kind # "JobFinished"
  BY <1>1, <1>3, <1>4 DEF Reported, AtRest
<1> QED
  BY <1>6, <1>9, <1>11, <1>12 DEF Reported

(* JobFinished goes out when there is no plate left to do.                  *)
LEMMA CloseKeeps ==
  ASSUME JobInv, NEW j \in Job, EmitFinished(j), Prompt(j), Reported(j)
  PROVE  Prompt(j)' /\ Reported(j)'
<1> DEFINE e == [kind |-> "JobFinished", plate |-> 0, late |-> flag[j]]
<1>0. /\ JobTypeOK /\ PlatesLeft /\ j \in User
      /\ pc \in [User -> WorkerPc \cup CalibPc \cup EnginePc]
  BY DEF JobInv, EngineInv, User
<1>1. /\ pc[j] = "finishing" /\ pc'[j] = "retained"
      /\ log'[j] = Append(log[j], e)
      /\ flag' = flag /\ done' = done /\ plates' = plates
  BY <1>0 DEF EmitFinished, Move, Emit, JobTypeOK
<1>2. log[j] \in Seq(Event) /\ e \in Event
  BY <1>0 DEF JobTypeOK, Event, Kind, Terminal
<1>3. /\ Len(log'[j]) = Len(log[j]) + 1 /\ Len(log[j]) \in Nat
      /\ log'[j][Len(log[j]) + 1] = e
      /\ \A i \in 1..Len(log[j]) : log'[j][i] = log[j][i]
      /\ 1..Len(log'[j]) = 1..Len(log[j]) \cup {Len(log[j]) + 1}
  BY <1>1, <1>2, GrownLog
<1>4. e.kind = "JobFinished" /\ e.late = flag[j]
  OBVIOUS
<1> HIDE DEF e
<1>5. done'[j] = plates'[j]
  BY <1>0, <1>1 DEF PlatesLeft
<1>6. \A i \in 1..Len(log'[j]) : LateBoundary(j, i)' => i \in 1..Len(log[j]) /\ LateBoundary(j, i)
  BY <1>3, <1>4 DEF LateBoundary
<1>7. Prompt(j)'
  BY <1>1, <1>6 DEF Prompt, Stopping, AtRest
<1>8. FinishesOf(j)' = FinishesOf(j) /\ FinishesOf(j) \subseteq 1..Len(log[j])
  BY <1>3, <1>4 DEF FinishesOf
<1>9. {log[j][i].plate : i \in FinishesOf(j)}' = {log[j][i].plate : i \in FinishesOf(j)}
  BY <1>3, <1>8
<1>10. \A i, k \in FinishesOf(j)' : i < k => log'[j][i].plate < log'[j][k].plate
  BY <1>3, <1>8 DEF Reported
<1> QED
  BY <1>1, <1>3, <1>5, <1>7, <1>8, <1>9, <1>10 DEF Reported, AtRest

(* The registry and the status, for the worker that moves and for the       *)
(* commands that write to both.                                             *)
LEMMA ServedStep ==
  ASSUME JobInv, [Next]_vars, NEW j \in Job, Served(j)
  PROVE  Served(j)'
<1>0. /\ JobTypeOK /\ j \in User
      /\ pc \in [User -> WorkerPc \cup CalibPc \cup EnginePc]
      /\ Plate(j) \in Nat /\ done[j] \in Nat
  BY PlateType DEF JobInv, EngineInv, User
<1>a. \A u \in User : \A to : u # j /\ pc' = [pc EXCEPT ![u] = to] => pc'[j] = pc[j]
  BY <1>0
<1>1. ASSUME NEW k \in Job \ {j}, WorkerStep(k) \/ StartJob(k) PROVE Served(j)'
  <2>1. pc'[j] = pc[j]
    BY <1>0, <1>a, <1>1
       DEF WorkerStep, StartJob, PassCheck, CancelAtCheck, BeginPlate, AnnouncePlate,
           Prepared, PrepareFails, CancelBeforeSlice, CallSlice, SliceReturns, Warn,
           CancelAfterSlice, Accept, Reject, FinishPlate, EmitFailed, Complete,
           EmitFinished, Prune, Move, Release, User
  <2>2. status'[j] = status[j] /\ (j \in registered => j \in registered')
    BY <1>0, <1>1
       DEF WorkerStep, StartJob, PassCheck, CancelAtCheck, BeginPlate, AnnouncePlate,
           Prepared, PrepareFails, CancelBeforeSlice, CallSlice, SliceReturns, Warn,
           CancelAfterSlice, Accept, Reject, FinishPlate, EmitFailed, Complete,
           EmitFinished, Prune, SetStatus, JobTypeOK, jobVars
  <2> QED
    BY <2>1, <2>2 DEF Served
<1>2. ASSUME NEW u \in User, EngineStepOf(u) PROVE Served(j)'
  <2>1. UNCHANGED jobVars /\ EngineStep(u)
    BY <1>2 DEF EngineStepOf
  <2>2. /\ pc[u] \in EnginePc
        /\ \E to \in EnginePc : pc' = [pc EXCEPT ![u] = to]
    BY <2>1 DEF EngineStep, TakeLock, Arm, Enter, Invalid, Publish, ProcessThrows,
                ProcessDone, Export, Move, EnginePc, Waiting, Holding, InPrint, Returning
  <2>3. pc'[j] = pc[j] \/ (pc[j] \in EnginePc /\ pc'[j] \in EnginePc)
    BY <1>0, <2>2
  <2>4. EnginePc \cap ({"unborn", "pruned", "finishing", "failing"} \cup AtRest) = {}
    BY DEF AtRest, EnginePc, Waiting, Holding, InPrint, Returning
  <2> QED
    BY <2>1, <2>3, <2>4 DEF Served, jobVars, AtRest
<1>3. ASSUME NEW c \in Calib, CalibNext(c) PROVE Served(j)'
  <2>1. UNCHANGED jobVars /\ \E to : pc' = [pc EXCEPT ![c] = to]
    BY <1>3 DEF CalibNext, Calibrate, CalibrationReturns, Release, Move
  <2>2. pc'[j] = pc[j]
    BY <1>0, <1>a, <2>1, EngineAssumption DEF User
  <2> QED
    BY <2>1, <2>2 DEF Served, jobVars
<1>4. CASE CancelMark
  <2>1. pc' = pc /\ registered' = registered
        /\ status'[j] \in {status[j], "Cancelling"}
    BY <1>0, <1>4 DEF CancelMark, SetStatus, JobTypeOK
  <2> QED
    BY <2>1 DEF Served
<1>5. ASSUME CancelAbort \/ UNCHANGED vars \/ \E k \in Job : CancelFlag(k)
      PROVE  Served(j)'
  BY <1>5 DEF CancelAbort, CancelFlag, vars, jobVars, Served
<1>6. ASSUME NEW k \in Job, Tick(k) PROVE Served(j)'
  <2>1. pc' = pc /\ registered' = registered /\ status'[j] \in {status[j], "Running"}
    BY <1>0, <1>6 DEF Tick, SetStatus, JobTypeOK
  <2> QED
    BY <2>1 DEF Served
<1>7. ASSUME StartJob(j) \/ WorkerStep(j) PROVE Served(j)'
  <2> USE <1>0 DEF Move, AtRest, Served, JobTypeOK
  <2>1. CASE StartJob(j)
    BY <2>1 DEF StartJob
  <2>2. CASE PassCheck(j) \/ Prepared(j) \/ CallSlice(j) \/ Accept(j)
    BY <2>2 DEF PassCheck, Prepared, CallSlice, Accept, jobVars
  <2>3. CASE BeginPlate(j) \/ PrepareFails(j) \/ Reject(j) \/ Complete(j)
    BY <2>3 DEF BeginPlate, PrepareFails, Reject, Complete, SetStatus
  <2>4. CASE SliceReturns(j)
    BY <2>4 DEF SliceReturns, Release, Returning, jobVars
  <2>5. CASE CancelAtCheck(j) \/ CancelBeforeSlice(j) \/ CancelAfterSlice(j)
             \/ EmitFailed(j) \/ EmitFinished(j)
    BY <2>5 DEF CancelAtCheck, CancelBeforeSlice, CancelAfterSlice, EmitFailed, EmitFinished
  <2>6. CASE Warn(j) \/ AnnouncePlate(j) \/ FinishPlate(j)
    BY <2>6 DEF Warn, AnnouncePlate, FinishPlate
  <2>7. CASE Prune(j)
    BY <2>7 DEF Prune
  <2> QED
    BY <1>7, <2>1, <2>2, <2>3, <2>4, <2>5, <2>6, <2>7 DEF WorkerStep
<1> QED
  BY <1>1, <1>2, <1>3, <1>4, <1>5, <1>6, <1>7 DEF Next, JobNext

LEMMA HonestStep == HonestInv /\ [Next]_vars => HonestInv'
<1> SUFFICES ASSUME HonestInv, [Next]_vars PROVE HonestInv'
  OBVIOUS
<1>1. JobInv /\ JobInv'
  BY JobTypeStep, PlatesLeftStep, EngineInvStep DEF HonestInv, JobInv
<1>2. ASSUME NEW j \in Job PROVE Prompt(j)' /\ Reported(j)' /\ Served(j)'
  <2>1. Prompt(j) /\ Reported(j) /\ Served(j) /\ JobTypeOK
    BY <1>1 DEF HonestInv, JobInv
  <2>2. Served(j)'
    BY <1>1, <2>1, ServedStep
  <2>3. Prompt(j)' /\ Reported(j)'
    BY <1>1, <2>1, WhatAStepSays, SilentKeeps, RemarkKeeps, AnnounceKeeps,
       FinishKeeps, CloseKeeps
  <2> QED
    BY <2>2, <2>3
<1> QED
  BY <1>1, <1>2 DEF HonestInv

(* A listener may trust what a worker says: JobFinished closes a report of  *)
(* every plate in order, after a cancel at most one more boundary is        *)
(* reported, and a job can be asked about as long as its worker speaks      *)
(* (orchestrator.rs:622 run_worker, job.rs:124 JobRegistry).                *)
THEOREM WorkersAreHonest == Spec => []WorkerIsHonest
<1>1. HonestInv => WorkerIsHonest
  <2> SUFFICES ASSUME HonestInv PROVE WorkerIsHonest
    OBVIOUS
  <2>1. FinishedIsComplete
    BY DEF HonestInv, Reported, FinishedIsComplete
  <2>2. CancelIsPrompt
    BY DEF HonestInv, Prompt, LateBoundary, CancelIsPrompt
  <2>3. StatusServesTheWorker
    BY DEF HonestInv, Served, StatusServesTheWorker
  <2> QED
    BY <2>1, <2>2, <2>3 DEF WorkerIsHonest
<1>2. Spec => []HonestInv
  BY HonestInit, HonestStep, PTL DEF Spec
<1> QED
  BY <1>1, <1>2, PTL

-----------------------------------------------------------------------------
(***************************************************************************)
(* The orchestrator implements the lifecycle its listeners rely on: each   *)
(* step of SliceJobs is one step of SliceLifecycle or changes nothing a    *)
(* listener can see.  One outcome per job follows.                         *)
(***************************************************************************)
Phases == [j \in Job |-> PhaseOf(pc[j])]

LEMMA PhaseValues ==
  /\ PhaseOf("unborn") = "idle"
  /\ \A p \in BeforePlate : PhaseOf(p) = "between"
  /\ \A p \in AtRest : PhaseOf(p) = "ended"
  /\ \A p \in InPlate \cup EnginePc : PhaseOf(p) = "slicing"
<1> USE DEF PhaseOf, BeforePlate, AtRest, InPlate, EnginePc, Waiting, Holding,
            InPrint, Returning
<1>1. PhaseOf("unborn") = "idle"
  OBVIOUS
<1>2. \A p \in BeforePlate : PhaseOf(p) = "between"
  OBVIOUS
<1>3. \A p \in AtRest : PhaseOf(p) = "ended"
  OBVIOUS
<1>4. \A p \in InPlate \cup EnginePc : PhaseOf(p) = "slicing"
  OBVIOUS
<1> QED
  BY <1>1, <1>2, <1>3, <1>4

(* A worker that moves shifts its own phase, a calibration none. *)
LEMMA PhaseMove ==
  ASSUME JobInv, NEW u \in User, NEW to, pc' = [pc EXCEPT ![u] = to]
  PROVE  /\ u \in Job => Phases' = [Phases EXCEPT ![u] = PhaseOf(to)]
         /\ u \in Job /\ PhaseOf(to) = PhaseOf(pc[u]) => Phases' = Phases
         /\ u \in Calib => Phases' = Phases
<1>1. pc \in [User -> WorkerPc \cup CalibPc \cup EnginePc]
  BY DEF JobInv, EngineInv
<1>2. \A k \in Job \ {u} : PhaseOf(pc'[k]) = PhaseOf(pc[k])
  BY <1>1 DEF User
<1>3. PhaseOf(pc'[u]) = PhaseOf(to)
  BY <1>1
<1> QED
  BY <1>2, <1>3, EngineAssumption DEF Phases

(* The same words and moves on both sides. *)
LEMMA ShiftMaps ==
  ASSUME JobInv, NEW j \in Job, NEW to, pc' = [pc EXCEPT ![j] = to]
  PROVE  Lifecycle!Shift(j, PhaseOf(pc[j]), PhaseOf(to))
<1>1. Phases' = [Phases EXCEPT ![j] = PhaseOf(to)]
  BY PhaseMove DEF User
<1>2. Phases[j] = PhaseOf(pc[j])
  BY DEF Phases
<1> QED
  BY <1>1, <1>2 DEF Lifecycle!Shift, Phases

LEMMA EmitMaps ==
  ASSUME NEW j \in Job, NEW kind, NEW plate, Emit(j, kind, plate)
  PROVE  Lifecycle!Hear(j, kind, plate)
  BY DEF Emit, Lifecycle!Hear

(* A step that says nothing and keeps the phases is no step at all. *)
Unheard == UNCHANGED <<Phases, plates, done, flag, log>>

LEMMA Silence ==
  ASSUME JobInv, NEW u \in User, NEW to, pc' = [pc EXCEPT ![u] = to],
         u \in Job => PhaseOf(to) = PhaseOf(pc[u]),
         UNCHANGED <<plates, done, flag, log>>
  PROVE  Unheard
  BY PhaseMove DEF Unheard, User

(* What a worker does by itself. *)
LEMMA WorkerRefines ==
  ASSUME JobInv, NEW j \in Job, WorkerStep(j)
  PROVE  Lifecycle!Advance(j) \/ Unheard
<1>0. /\ JobTypeOK /\ PlatesLeft /\ j \in User
      /\ pc[j] \in Busy => done[j] < plates[j]
  BY DEF JobInv, User, PlatesLeft, Busy
<1> USE DEF BeforePlate, InPlate, AtRest, EnginePc, Waiting, Holding, InPrint,
            Returning, Lifecycle!Advance
<1>1. ASSUME PassCheck(j) \/ BeginPlate(j) \/ Complete(j) PROVE Unheard
  BY <1>0, <1>1, PhaseValues, Silence
     DEF PassCheck, BeginPlate, Complete, Move, jobVars
<1>2. ASSUME Prepared(j) \/ PrepareFails(j) \/ CallSlice(j) \/ Accept(j) \/ Reject(j)
      PROVE  Unheard
  BY <1>0, <1>2, PhaseValues, Silence
     DEF Prepared, PrepareFails, CallSlice, Accept, Reject, Move, jobVars
<1>3. ASSUME SliceReturns(j) \/ Prune(j) PROVE Unheard
  BY <1>0, <1>3, PhaseValues, Silence
     DEF SliceReturns, Prune, Release, Move, jobVars
<1>4. ASSUME AnnouncePlate(j) PROVE Lifecycle!StartPlate(j)
  <2>1. Lifecycle!Shift(j, "between", "slicing")
    BY <1>4, ShiftMaps, PhaseValues DEF AnnouncePlate, Move
  <2> QED
    BY <1>0, <1>4, <2>1, EmitMaps
       DEF AnnouncePlate, Move, Plate, Lifecycle!StartPlate, Busy
<1>5. ASSUME Warn(j) PROVE Lifecycle!Chatter(j) \/ Unheard
  <2>1. CASE UNCHANGED log
    BY <1>0, <1>5, <2>1, PhaseValues, Silence DEF Warn, Move
  <2>2. CASE Emit(j, "PlateWarning", Plate(j))
    <3>1. Lifecycle!Hear(j, "PlateWarning", done[j] + 1)
      BY <2>2, EmitMaps DEF Plate
    <3>2. PhaseOf(pc[j]) = "slicing" /\ Phases' = Phases
      BY <1>0, <1>5, PhaseValues, PhaseMove DEF Warn, Move
    <3> QED
      BY <1>5, <3>1, <3>2 DEF Warn, Lifecycle!Chatter, Lifecycle!Chat, Phases
  <2> QED
    BY <1>5, <2>1, <2>2 DEF Warn
<1>6. ASSUME FinishPlate(j) PROVE Lifecycle!FinishPlate(j)
  <2>1. Lifecycle!Shift(j, "slicing", "between")
    BY <1>6, ShiftMaps, PhaseValues DEF FinishPlate, Move
  <2> QED
    BY <1>6, <2>1, EmitMaps DEF FinishPlate, Plate, Lifecycle!FinishPlate
<1>7. ASSUME EmitFinished(j) PROVE Lifecycle!Finish(j)
  <2>1. Lifecycle!Shift(j, "between", "ended")
    BY <1>7, ShiftMaps, PhaseValues DEF EmitFinished, Move
  <2> QED
    BY <1>0, <1>7, <2>1, EmitMaps
       DEF EmitFinished, Move, Lifecycle!Finish, PlatesLeft
<1>8. ASSUME EmitFailed(j) PROVE Lifecycle!Fail(j)
  <2>1. Lifecycle!Shift(j, "slicing", "ended")
    BY <1>8, ShiftMaps, PhaseValues DEF EmitFailed, Move
  <2> QED
    BY <1>8, <2>1, EmitMaps DEF EmitFailed, Plate, Lifecycle!Fail
<1>9. ASSUME CancelAtCheck(j) PROVE Lifecycle!Cancel(j)
  <2>1. Lifecycle!Shift(j, "between", "ended")
    BY <1>9, ShiftMaps, PhaseValues DEF CancelAtCheck, Move
  <2> QED
    BY <1>9, <2>1, EmitMaps DEF CancelAtCheck, Lifecycle!Cancel
<1>10. ASSUME CancelBeforeSlice(j) \/ CancelAfterSlice(j)
       PROVE  Lifecycle!Cancel(j)
  <2>1. Lifecycle!Shift(j, "slicing", "ended")
    BY <1>10, ShiftMaps, PhaseValues
       DEF CancelBeforeSlice, CancelAfterSlice, Move
  <2> QED
    BY <1>0, <1>10, <2>1, EmitMaps
       DEF CancelBeforeSlice, CancelAfterSlice, Move, Plate, Lifecycle!Cancel, Busy
<1> QED
  BY <1>1, <1>2, <1>3, <1>4, <1>5, <1>6, <1>7, <1>8, <1>9, <1>10 DEF WorkerStep

LEMMA StepRefines ==
  JobInv /\ [Next]_vars
    => (\E j \in Job :
          Lifecycle!Accept(j) \/ Lifecycle!Ask(j) \/ Lifecycle!Advance(j))
       \/ Unheard
<1> SUFFICES ASSUME JobInv, [Next]_vars
             PROVE  (\E j \in Job : \/ Lifecycle!Accept(j) \/ Lifecycle!Ask(j)
                                    \/ Lifecycle!Advance(j))
                    \/ Unheard
  OBVIOUS
<1>0. /\ JobTypeOK /\ RegisteredIsStarted /\ User = Job \cup Calib
      /\ Job \cap Calib = {}
  BY EngineAssumption DEF JobInv, User
<1>1. ASSUME NEW j \in Job, StartJob(j) PROVE Lifecycle!Accept(j)
  <2>1. Lifecycle!Shift(j, "idle", "between")
    BY <1>1, ShiftMaps, PhaseValues DEF StartJob, Move, BeforePlate
  <2>2. PICK n \in 1..MaxPlates : plates' = [plates EXCEPT ![j] = n]
    BY <1>1 DEF StartJob
  <2>3. plates'[j] = n
    BY <1>0, <2>2 DEF JobTypeOK
  <2>4. n \in Nat \ {0}
    BY BoundsAssumption
  <2>5. plates' = [plates EXCEPT ![j] = plates'[j]]
    BY <2>2, <2>3
  <2> QED
    BY <1>1, <2>1, <2>3, <2>4, <2>5 DEF StartJob, Lifecycle!Accept
<1>2. ASSUME NEW j \in Job, CancelFlag(j) PROVE Lifecycle!Ask(j)
  <2>1. PhaseOf(pc[j]) # "idle" /\ pc' = pc
    BY <1>0, <1>2 DEF CancelFlag, RegisteredIsStarted, PhaseOf
  <2> QED
    BY <1>2, <2>1 DEF CancelFlag, Lifecycle!Ask
<1>3. ASSUME NEW j \in Job, Tick(j) PROVE Lifecycle!Advance(j) \/ Unheard
  <2>1. PhaseOf(pc[j]) = "slicing" /\ pc' = pc
    BY <1>3, PhaseValues DEF Tick, EnginePc, Holding, InPrint
  <2>2. CASE UNCHANGED log
    BY <1>3, <2>1, <2>2 DEF Tick, Unheard, Phases
  <2>3. CASE Emit(j, "PlateProgress", Plate(j))
    <3>1. Lifecycle!Hear(j, "PlateProgress", done[j] + 1)
      BY <2>3, EmitMaps DEF Plate
    <3> QED
      BY <1>3, <2>1, <3>1
         DEF Tick, Lifecycle!Advance, Lifecycle!Chatter, Lifecycle!Chat
  <2> QED
    BY <1>3, <2>2, <2>3 DEF Tick
<1>4. ASSUME NEW c \in Calib, CalibNext(c) PROVE Unheard
  <2>1. \E to : pc' = [pc EXCEPT ![c] = to]
    BY <1>4 DEF CalibNext, Calibrate, CalibrationReturns, Release, Move
  <2>2. UNCHANGED <<plates, done, flag, log>>
    BY <1>4 DEF CalibNext, Calibrate, CalibrationReturns, jobVars
  <2> QED
    BY <1>0, <2>1, <2>2, Silence
<1>5. ASSUME NEW u \in User, EngineStepOf(u) PROVE Unheard
  <2>1. /\ pc[u] \in EnginePc
        /\ \E to \in EnginePc : pc' = [pc EXCEPT ![u] = to]
    BY <1>5 DEF EngineStepOf, EngineStep, TakeLock, Arm, Enter, Invalid,
                Publish, ProcessThrows, ProcessDone, Export, Move, EnginePc,
                Waiting, Holding, InPrint, Returning
  <2>2. UNCHANGED <<plates, done, flag, log>>
    BY <1>5 DEF EngineStepOf, jobVars
  <2> QED
    BY <2>1, <2>2, PhaseValues, Silence
<1>6. ASSUME CancelMark \/ CancelAbort \/ UNCHANGED vars PROVE Unheard
  BY <1>6 DEF CancelMark, CancelAbort, vars, jobVars, Unheard, Phases
<1>7. ASSUME NEW j \in Job, WorkerStep(j) PROVE Lifecycle!Advance(j) \/ Unheard
  BY <1>7, WorkerRefines
<1> QED
  BY <1>1, <1>2, <1>3, <1>4, <1>5, <1>6, <1>7 DEF Next, JobNext

-----------------------------------------------------------------------------
(* The orchestrator implements the lifecycle, whatever the instance. *)
THEOREM JobsFollowTheLifecycle == Spec => Lifecycle!Spec
<1>1. Init => Lifecycle!Init
  BY PhaseValues DEF Init, Lifecycle!Init, User
<1>2. JobInv /\ [Next]_vars => [Lifecycle!Next]_(Lifecycle!vars)
  BY StepRefines DEF Lifecycle!Next, Lifecycle!vars, Unheard, Phases
<1> QED
  BY <1>1, <1>2, JobInvariant, PTL DEF Spec, Lifecycle!Spec

LP == INSTANCE SliceLifecycleProofs WITH
  phase <- [j \in Job |-> PhaseOf(pc[j])],
  total <- plates,
  asked <- flag

(* One outcome per job, and silence after it, whoever cancels and whenever. *)
THEOREM JobsHaveOneOutcome == Spec => []OneOutcome
<1>1. Lifecycle!Init => LP!Init
  BY DEF Lifecycle!Init, LP!Init
<1>2. [Lifecycle!Next]_(Lifecycle!vars) => [LP!Next]_(LP!vars)
  BY DEF Lifecycle!Next, Lifecycle!Advance, Lifecycle!Accept, Lifecycle!Ask,
         Lifecycle!StartPlate, Lifecycle!Chatter, Lifecycle!FinishPlate,
         Lifecycle!Finish, Lifecycle!Fail, Lifecycle!Cancel, Lifecycle!Hear,
         Lifecycle!Shift, Lifecycle!Chat, Lifecycle!vars,
         LP!Next, LP!Advance, LP!Accept, LP!Ask,
         LP!StartPlate, LP!Chatter, LP!FinishPlate,
         LP!Finish, LP!Fail, LP!Cancel, LP!Hear, LP!Shift, LP!Chat, LP!vars
<1>3. LP!OneOutcome => OneOutcome
  BY DEF LP!OneOutcome, OneOutcome, LP!Terminal, Terminal
<1> QED
  BY <1>1, <1>2, <1>3, JobsFollowTheLifecycle, LP!LifecycleHasOneOutcome, PTL
     DEF Lifecycle!Spec, LP!Spec

-----------------------------------------------------------------------------
(***************************************************************************)
(* The slice panel (SliceUi) against the workers.  To the page a step of   *)
(* the backend is mute, or one event of a working job: a report that leaves*)
(* the worker at work, or its outcome.  From that, an inductive invariant  *)
(* of the panel, the channel and the reply: what is on the channel was     *)
(* said, and until a reload one job at most is pending.                    *)
(***************************************************************************)
Says(j, kind) ==
  /\ Working(j)
  /\ \E e \in Event : /\ e.kind = kind
                      /\ log' = [log EXCEPT ![j] = Append(log[j], e)]
  /\ \A k \in Job \ {j} : pc'[k] = pc[k]

Reports(j, kind) ==
  /\ Says(j, kind)
  /\ kind \in Kind \ Terminal
  /\ Working(j)'
  /\ kind = "PlateStarted" \/ log[j] # <<>>

Closes(j, kind) ==
  /\ Says(j, kind)
  /\ kind \in Terminal
  /\ ~Working(j)'
  /\ kind = "Cancelled" \/ log[j] # <<>>

Mute == log' = log /\ \A k \in Job : Working(k)' <=> Working(k)

(* The first event of a job is PlateStarted, or Cancelled if it was         *)
(* cancelled before its first plate; a job that was accepted has a plate.   *)
Speech(j) ==
  /\ pc[j] = "unborn" => log[j] = <<>> /\ done[j] = 0
  /\ pc[j] # "unborn" => plates[j] > 0
  /\ log[j] = <<>> => /\ pc[j] \in {"unborn", "check", "begin", "announce"}
                      /\ done[j] = 0

SpeechInv == JobInv /\ \A j \in Job : Speech(j)

LEMMA OneMoves ==
  ASSUME JobInv, NEW u \in User, NEW to, pc' = [pc EXCEPT ![u] = to]
  PROVE  pc'[u] = to /\ \A k \in Job \ {u} : pc'[k] = pc[k]
  BY DEF JobInv, EngineInv, User

LEMMA EmitSays ==
  ASSUME JobInv, NEW j \in Job, NEW kind \in Kind, NEW plate \in Nat,
         Emit(j, kind, plate), Working(j), NEW to, pc' = [pc EXCEPT ![j] = to]
  PROVE  Says(j, kind) /\ pc'[j] = to
<1> DEFINE e == [kind |-> kind, plate |-> plate, late |-> flag[j]]
<1>1. e \in Event /\ e.kind = kind
  BY DEF Event, JobInv, JobTypeOK
<1>2. log' = [log EXCEPT ![j] = Append(log[j], e)]
  BY DEF Emit
<1> HIDE DEF e
<1> QED
  BY <1>1, <1>2, OneMoves DEF Says, User

LEMMA WorkerIsHeard ==
  ASSUME JobInv, NEW j \in Job, Speech(j), WorkerStep(j) \/ Tick(j)
  PROVE  Mute \/ \E kind \in Kind : Reports(j, kind) \/ Closes(j, kind)
<1>0. /\ JobTypeOK /\ j \in User /\ PlatesLeft
      /\ pc \in [User -> WorkerPc \cup CalibPc \cup EnginePc]
      /\ Plate(j) \in Nat /\ done[j] \in Nat /\ plates[j] \in Nat
  BY PlateType DEF JobInv, EngineInv, JobTypeOK, User
<1>a. ASSUME NEW to, pc' = [pc EXCEPT ![j] = to], log' = log, Working(j)' <=> Working(j)
      PROVE  Mute
  BY <1>0, <1>a, OneMoves DEF Mute, Working
<1>1. ASSUME PassCheck(j) \/ Prepared(j) \/ CallSlice(j) \/ Accept(j) PROVE Mute
  BY <1>0, <1>1, <1>a, OneMoves
     DEF PassCheck, Prepared, CallSlice, Accept, Move, jobVars, Working, AtRest
<1>2. ASSUME BeginPlate(j) \/ PrepareFails(j) \/ Reject(j) \/ Complete(j) \/ Prune(j)
      PROVE  Mute
  BY <1>0, <1>2, <1>a, OneMoves
     DEF BeginPlate, PrepareFails, Reject, Complete, Prune, Move, Working, AtRest
<1>3. ASSUME SliceReturns(j) PROVE Mute
  BY <1>0, <1>3, <1>a, OneMoves
     DEF SliceReturns, Release, Returning, jobVars, Working, AtRest
<1>4. ASSUME AnnouncePlate(j) PROVE Reports(j, "PlateStarted")
  BY <1>0, <1>4, EmitSays
     DEF AnnouncePlate, Move, Reports, Kind, Terminal, Working, AtRest
<1>5. ASSUME FinishPlate(j) PROVE Reports(j, "PlateFinished")
  BY <1>0, <1>5, EmitSays
     DEF FinishPlate, Move, Reports, Kind, Terminal, Working, AtRest, Speech
<1>6. ASSUME Warn(j) PROVE Mute \/ Reports(j, "PlateWarning")
  <2>1. CASE UNCHANGED log
    BY <1>0, <1>6, <2>1, <1>a, OneMoves DEF Warn, Move, Working, AtRest
  <2>2. CASE Emit(j, "PlateWarning", Plate(j))
    BY <1>0, <1>6, <2>2, EmitSays
       DEF Warn, Move, Reports, Kind, Terminal, Working, AtRest, Speech
  <2> QED
    BY <1>6, <2>1, <2>2 DEF Warn
<1>7. ASSUME Tick(j) PROVE Mute \/ Reports(j, "PlateProgress")
  <2>0. pc' = pc /\ pc' = [pc EXCEPT ![j] = pc[j]]
    BY <1>0, <1>7 DEF Tick
  <2>1. CASE UNCHANGED log
    BY <2>0, <2>1 DEF Mute, Working
  <2>2. CASE Emit(j, "PlateProgress", Plate(j))
    <3>1. Working(j) /\ log[j] # <<>>
      BY <1>7 DEF Tick, Working, AtRest, Speech
    <3>2. Says(j, "PlateProgress")
      BY <1>0, <2>0, <2>2, <3>1, EmitSays DEF Kind
    <3> QED
      BY <2>0, <3>1, <3>2 DEF Reports, Kind, Terminal, Working
  <2> QED
    BY <1>7, <2>1, <2>2 DEF Tick
<1>8. ASSUME CancelAtCheck(j) \/ CancelBeforeSlice(j) PROVE Closes(j, "Cancelled")
  BY <1>0, <1>8, EmitSays
     DEF CancelAtCheck, CancelBeforeSlice, Move, Closes, Kind, Terminal, Working, AtRest
<1>9. ASSUME CancelAfterSlice(j) PROVE Closes(j, "Cancelled")
  BY <1>0, <1>9, EmitSays
     DEF CancelAfterSlice, Closes, Kind, Terminal, Working, AtRest
<1>10. ASSUME EmitFailed(j) PROVE Closes(j, "JobFailed")
  BY <1>0, <1>10, EmitSays
     DEF EmitFailed, Move, Closes, Kind, Terminal, Working, AtRest, Speech
<1>11. ASSUME EmitFinished(j) PROVE Closes(j, "JobFinished")
  BY <1>0, <1>11, EmitSays
     DEF EmitFinished, Move, Closes, Kind, Terminal, Working, AtRest, Speech
<1> QED
  BY <1>1, <1>2, <1>3, <1>4, <1>5, <1>6, <1>7, <1>8, <1>9, <1>10, <1>11
     DEF WorkerStep, Kind, Terminal

(* The other threads and the commands are mute.                             *)
LEMMA OthersAreMute ==
  ASSUME JobInv,
         \/ \E u \in User : EngineStepOf(u)
         \/ \E c \in Calib : CalibNext(c)
         \/ \E j \in Job : CancelFlag(j)
         \/ CancelMark \/ CancelAbort \/ UNCHANGED vars
  PROVE  Mute /\ UNCHANGED <<plates, done>>
         /\ \A k \in Job : pc'[k] = pc[k] \/ {pc[k], pc'[k]} \subseteq EnginePc
<1>1. ASSUME NEW u \in User, EngineStepOf(u)
      PROVE  Mute /\ UNCHANGED <<plates, done>>
             /\ \A k \in Job : pc'[k] = pc[k] \/ {pc[k], pc'[k]} \subseteq EnginePc
  <2>1. pc[u] \in EnginePc /\ \E to \in EnginePc : pc' = [pc EXCEPT ![u] = to]
    BY <1>1 DEF EngineStepOf, EngineStep, TakeLock, Arm, Enter, Invalid, Publish,
                ProcessThrows, ProcessDone, Export, Move, EnginePc, Waiting, Holding,
                InPrint, Returning
  <2>2. \A k \in Job : pc'[k] = pc[k] \/ {pc[k], pc'[k]} \subseteq EnginePc
    BY <2>1, OneMoves
  <2>3. \A k \in Job : Working(k)' <=> Working(k)
    BY <2>2 DEF Working, AtRest, EnginePc, Waiting, Holding, InPrint, Returning
  <2> QED
    BY <1>1, <2>2, <2>3 DEF EngineStepOf, jobVars, Mute
<1>2. ASSUME NEW c \in Calib, CalibNext(c)
      PROVE  Mute /\ UNCHANGED <<plates, done>> /\ \A k \in Job : pc'[k] = pc[k]
  <2>1. UNCHANGED jobVars /\ \E to : pc' = [pc EXCEPT ![c] = to]
    BY <1>2 DEF CalibNext, Calibrate, CalibrationReturns, Release, Move
  <2>2. \A k \in Job : pc'[k] = pc[k]
    BY <2>1, OneMoves, EngineAssumption DEF User
  <2> QED
    BY <2>1, <2>2 DEF Mute, Working, jobVars
<1>3. ASSUME CancelMark \/ CancelAbort \/ UNCHANGED vars \/ \E j \in Job : CancelFlag(j)
      PROVE  Mute /\ UNCHANGED <<plates, done>> /\ \A k \in Job : pc'[k] = pc[k]
  BY <1>3 DEF CancelMark, CancelAbort, CancelFlag, vars, jobVars, Mute, Working
<1> QED
  BY <1>1, <1>2, <1>3

LEMMA SpeechInit == Init => SpeechInv
<1> SUFFICES ASSUME Init, NEW j \in Job PROVE Speech(j)
  BY JobInvInit DEF SpeechInv
<1> QED
  BY DEF Init, User, Speech

LEMMA SpeechStep == SpeechInv /\ [Next]_vars => SpeechInv'
<1> SUFFICES ASSUME SpeechInv, [Next]_vars, NEW j \in Job PROVE Speech(j)'
  BY JobTypeStep, PlatesLeftStep, EngineInvStep DEF SpeechInv, JobInv
<1>0. /\ JobInv /\ JobTypeOK /\ j \in User /\ PlatesLeft /\ Speech(j)
      /\ pc \in [User -> WorkerPc \cup CalibPc \cup EnginePc]
      /\ done[j] \in Nat /\ plates[j] \in Nat /\ log[j] \in Seq(Event)
      /\ Plate(j) \in Nat
  BY PlateType DEF SpeechInv, JobInv, EngineInv, JobTypeOK, User
<1>1. CASE \/ \E u \in User : EngineStepOf(u)
           \/ \E c \in Calib : CalibNext(c)
           \/ \E k \in Job : CancelFlag(k)
           \/ CancelMark \/ CancelAbort \/ UNCHANGED vars
  BY <1>0, <1>1, OthersAreMute
     DEF Mute, Speech, EnginePc, Waiting, Holding, InPrint, Returning
<1>2. ASSUME NEW k \in Job \ {j}, WorkerStep(k) \/ StartJob(k) \/ Tick(k) PROVE Speech(j)'
  <2>1. pc'[j] = pc[j]
    <3>1. \E to : pc' = [pc EXCEPT ![k] = to] \/ pc' = pc
      BY <1>2
         DEF WorkerStep, StartJob, PassCheck, CancelAtCheck, BeginPlate, AnnouncePlate,
             Prepared, PrepareFails, CancelBeforeSlice, CallSlice, SliceReturns, Warn,
             CancelAfterSlice, Accept, Reject, FinishPlate, EmitFailed, Complete,
             EmitFinished, Prune, Move, Release, Tick
    <3> QED
      BY <1>0, <3>1, OneMoves DEF User
  <2>2. log'[j] = log[j]
    BY <1>0, <1>2
       DEF WorkerStep, StartJob, PassCheck, CancelAtCheck, BeginPlate, AnnouncePlate,
           Prepared, PrepareFails, CancelBeforeSlice, CallSlice, SliceReturns, Warn,
           CancelAfterSlice, Accept, Reject, FinishPlate, EmitFailed, Complete,
           EmitFinished, Prune, Tick, Emit, JobTypeOK, jobVars
  <2>3. done'[j] = done[j] /\ plates'[j] = plates[j]
    BY <1>0, <1>2
       DEF WorkerStep, StartJob, PassCheck, CancelAtCheck, BeginPlate, AnnouncePlate,
           Prepared, PrepareFails, CancelBeforeSlice, CallSlice, SliceReturns, Warn,
           CancelAfterSlice, Accept, Reject, FinishPlate, EmitFailed, Complete,
           EmitFinished, Prune, Tick, JobTypeOK, jobVars
  <2> QED
    BY <1>0, <2>1, <2>2, <2>3 DEF Speech
<1>3. ASSUME StartJob(j) PROVE Speech(j)'
  <2>1. PICK n \in 1..MaxPlates : plates' = [plates EXCEPT ![j] = n]
    BY <1>3 DEF StartJob
  <2>2. plates'[j] > 0
    BY <1>0, <2>1 DEF JobTypeOK
  <2> QED
    BY <1>0, <1>3, <2>2 DEF StartJob, Move, Speech
<1>4. ASSUME WorkerStep(j) \/ Tick(j) PROVE Speech(j)'
  <2>1. pc[j] # "unborn" /\ pc'[j] # "unborn" /\ plates'[j] = plates[j]
    BY <1>0, <1>4, OneMoves
       DEF WorkerStep, PassCheck, CancelAtCheck, BeginPlate, AnnouncePlate,
           Prepared, PrepareFails, CancelBeforeSlice, CallSlice, SliceReturns, Warn,
           CancelAfterSlice, Accept, Reject, FinishPlate, EmitFailed, Complete,
           EmitFinished, Prune, Move, Release, Returning, Tick, jobVars
  <2>2. (\E kind \in Kind : Says(j, kind)) => log'[j] # <<>>
    BY <1>0 DEF Says, JobTypeOK
  <2>3. CASE \E kind \in Kind : Reports(j, kind) \/ Closes(j, kind)
    BY <1>0, <2>1, <2>2, <2>3 DEF Reports, Closes, Speech
  <2>4. CASE log' = log
    <3>1. ASSUME log[j] = <<>>
          PROVE  /\ pc'[j] \in {"unborn", "check", "begin", "announce"}
                 /\ done'[j] = 0
      <4>1. pc[j] \in {"unborn", "check", "begin", "announce"} /\ done[j] = 0 /\ plates[j] > 0
        BY <1>0, <2>1, <3>1 DEF Speech
      <4>2. PassCheck(j) \/ BeginPlate(j)
        <5>1. ~Complete(j)
          BY <4>1 DEF Complete
        <5>2. ~Emit(j, "Cancelled", done[j]) /\ ~Emit(j, "PlateStarted", Plate(j))
          BY <1>0, <2>4, EmitSays DEF Emit, JobTypeOK
        <5> QED
          BY <1>4, <4>1, <5>1, <5>2
             DEF WorkerStep, PassCheck, CancelAtCheck, BeginPlate, AnnouncePlate,
                 Prepared, PrepareFails, CancelBeforeSlice, CallSlice, SliceReturns, Warn,
                 CancelAfterSlice, Accept, Reject, FinishPlate, EmitFailed,
                 EmitFinished, Prune, Move, Release, Returning, Tick
      <4> QED
        BY <1>0, <4>1, <4>2, OneMoves DEF PassCheck, BeginPlate, Move, jobVars
    <3> QED
      BY <1>0, <2>1, <2>4, <3>1 DEF Speech
  <2> QED
    BY <1>0, <1>4, <2>3, <2>4, WorkerIsHeard DEF Mute
<1> QED
  BY <1>1, <1>2, <1>3, <1>4 DEF Next, JobNext

CalibStep == (\E c \in Calib : CalibNext(c)) /\ UNCHANGED uiVars

(* What the backend does to the page: it is mute, or one worker's event     *)
(* goes on the channel, or a job is accepted and its id is on its way.      *)
Unsaid ==
  /\ Mute
  /\ UNCHANGED <<pageVars, channel, orphans, reloads>>
  /\ asks' \in SUBSET asks

Heralds(j, kind) ==
  /\ Reports(j, kind) \/ Closes(j, kind)
  /\ channel' = Append(channel, [job |-> j, kind |-> kind])
  /\ UNCHANGED <<pageVars, orphans, asks, reloads>>

Accepts(j) ==
  /\ ~Working(j) /\ Working(j)' /\ log[j] = <<>> /\ log' = log
  /\ \A k \in Job \ {j} : pc'[k] = pc[k]
  /\ \/ invoking /\ invoking' = FALSE /\ reply' = j /\ UNCHANGED orphans
     \/ orphans > 0 /\ orphans' = orphans - 1 /\ UNCHANGED <<invoking, reply>>
  /\ UNCHANGED <<ui, channel, asks, stored, resume, reloads>>

LEMMA ForwardHeralds ==
  ASSUME JobInv, NEW j \in Job, NEW kind \in Kind, Reports(j, kind) \/ Closes(j, kind),
         Forwarded
  PROVE  Heralds(j, kind)
<1>0. log \in [Job -> Seq(Event)]
  BY DEF JobInv, JobTypeOK
<1>1. PICK e \in Event : e.kind = kind /\ log' = [log EXCEPT ![j] = Append(log[j], e)]
  BY DEF Reports, Closes, Says
<1>2. /\ log'[j] = Append(log[j], e) /\ log[j] \in Seq(Event)
      /\ \A k \in Job \ {j} : log'[k] = log[k]
  BY <1>0, <1>1
<1>3. Len(log'[j]) = Len(log[j]) + 1 /\ log'[j][Len(log'[j])] = e /\ log'[j] # log[j]
  BY <1>2
<1>4. log' # log
  BY <1>3
<1>5. channel' = Append(channel, [job |-> j, kind |-> log'[j][Len(log'[j])].kind])
  BY <1>2, <1>4 DEF Forwarded, Forward
<1> QED
  BY <1>1, <1>3, <1>5 DEF Heralds, Forwarded

LEMMA BackendShapes ==
  ASSUME SpeechInv, BackendStep \/ CalibStep \/ UNCHANGED <<vars, uiVars>>
  PROVE  \/ Unsaid
         \/ \E j \in Job, kind \in Kind : Heralds(j, kind)
         \/ \E j \in Job : Accepts(j)
<1>0. JobInv /\ \A j \in Job : Speech(j) /\ j \in User
  BY DEF SpeechInv, User
<1>1. ASSUME NEW j \in Job, StartAccepted(j) PROVE Accepts(j)
  <2>1. StartJob(j)
    BY <1>1 DEF StartAccepted
  <2>2. pc'[j] = "check" /\ \A k \in Job \ {j} : pc'[k] = pc[k]
    BY <1>0, <2>1, OneMoves DEF StartJob, Move
  <2>3. ~Working(j) /\ Working(j)' /\ log[j] = <<>> /\ log' = log
    BY <1>0, <2>1, <2>2 DEF StartJob, Move, Working, AtRest, Speech
  <2> QED
    BY <1>1, <2>2, <2>3 DEF StartAccepted, Accepts
<1>2. ASSUME NEW j \in Job, CancelAccepted(j) PROVE Unsaid
  <2>1. CancelFlag(j) /\ asks' = asks \ {j}
    BY <1>2 DEF CancelAccepted
  <2>2. Mute
    BY <1>0, <2>1, OthersAreMute
  <2> QED
    BY <1>2, <2>1, <2>2 DEF CancelAccepted, Unsaid
<1>3. ASSUME NEW j \in Job, WorkerStep(j) \/ Tick(j), Forwarded
      PROVE  Unsaid \/ \E kind \in Kind : Heralds(j, kind)
  <2>1. CASE Mute
    BY <1>3, <2>1 DEF Mute, Forwarded, Forward, Unsaid
  <2>2. ASSUME NEW kind \in Kind, Reports(j, kind) \/ Closes(j, kind)
        PROVE  Heralds(j, kind)
    BY <1>0, <1>3, <2>2, ForwardHeralds
  <2> QED
    BY <1>0, <1>3, <2>1, <2>2, WorkerIsHeard
<1>4. ASSUME \/ \E u \in User : EngineStepOf(u)
             \/ \E c \in Calib : CalibNext(c)
             \/ CancelMark \/ CancelAbort \/ UNCHANGED vars,
             UNCHANGED uiVars
      PROVE  Unsaid
  <2>1. Mute
    BY <1>0, <1>4, OthersAreMute
  <2> QED
    BY <1>4, <2>1 DEF Unsaid, uiVars
<1> QED
  BY <1>1, <1>2, <1>3, <1>4 DEF BackendStep, CalibStep

(* Every step of the composition is a step of the orchestrator.             *)
LEMMA PageIsQuiet ==
  ASSUME [UiNext \/ CalibStep]_<<vars, uiVars>> PROVE [Next]_vars
  BY DEF UiNext, CalibStep, BackendStep, StartAccepted, CancelAccepted, Next, JobNext

-----------------------------------------------------------------------------
ResumeOK ==
  resume \in [step : {"none", "asked", "answered"}, job : Job \cup {NoUser},
              status : Status \cup {"none", "unknown"}]

PageTypeOK == UiTypeOK /\ ResumeOK /\ orphans <= reloads

Message == [job : Job, kind : Kind]

LEMMA HeadAndTail ==
  ASSUME NEW S, NEW s \in Seq(S), s # <<>>
  PROVE  /\ Head(s) = s[1] /\ Head(s) \in S
         /\ Tail(s) \in Seq(S) /\ Len(Tail(s)) = Len(s) - 1 /\ Len(s) \in Nat \ {0}
         /\ \A i \in 1..Len(Tail(s)) : Tail(s)[i] = s[i + 1] /\ i + 1 \in 1..Len(s)
         /\ 1 \in 1..Len(s)
  OBVIOUS

LEMMA ApplyType ==
  ASSUME NEW s \in [status : UiStatus, job : Job \cup {NoUser}], NEW e \in Message
  PROVE  /\ ApplyEvent(s, e) \in [status : UiStatus, job : Job \cup {NoUser}]
         /\ ApplyEvent(s, e).job \in {s.job, e.job}
         /\ s.job # NoUser => ApplyEvent(s, e).job = s.job
         /\ s.job # NoUser /\ e.job # s.job => ApplyEvent(s, e) = s
<1>1. CASE s.job # NoUser /\ e.job # s.job
  BY <1>1 DEF ApplyEvent
<1>2. CASE ~(s.job # NoUser /\ e.job # s.job)
  <2> USE <1>2 DEF ApplyEvent, UiStatus, InFlight, Message, Kind, Terminal
  <2>1. CASE e.kind = "PlateStarted"
    BY <2>1
  <2>2. CASE e.kind = "PlateProgress"
    BY <2>2
  <2>3. CASE e.kind \in Terminal
    BY <2>3
  <2>4. CASE e.kind \in Kind \ ({"PlateStarted", "PlateProgress"} \cup Terminal)
    BY <2>4
  <2> QED
    BY <2>1, <2>2, <2>3, <2>4
<1> QED
  BY <1>1, <1>2

LEMMA PageTypeInit == UiInit => PageTypeOK
<1> SUFFICES ASSUME UiInit PROVE PageTypeOK
  OBVIOUS
<1>1. ui \in [status : UiStatus, job : Job \cup {NoUser}]
  BY DEF UiInit, PageInit, initialState, UiStatus
<1>2. ResumeOK
  BY DEF UiInit, PageInit, ResumeOK, NoResume
<1>3. resume.step \in {"none", "asked", "answered"}
  BY <1>2 DEF ResumeOK
<1>4. orphans \in 0..MaxReloads /\ reloads \in 0..MaxReloads /\ orphans <= reloads
  BY ReloadsAssumption DEF UiInit, PageInit
<1>5. channel \in Seq([job : Job, kind : Kind])
  BY DEF UiInit, PageInit
<1>6. invoking \in BOOLEAN
  BY DEF UiInit, PageInit
<1>7. /\ reply \in Job \cup {NoUser} /\ stored \in Job \cup {NoUser}
      /\ asks \in SUBSET Job
  BY DEF UiInit, PageInit
<1> QED
  BY <1>1, <1>2, <1>3, <1>4, <1>5, <1>6, <1>7 DEF PageTypeOK, UiTypeOK

LEMMA PageTypeStep ==
  ASSUME SpeechInv, PageTypeOK, UiNext \/ CalibStep \/ UNCHANGED <<vars, uiVars>>
  PROVE  PageTypeOK'
<1>0. /\ status \in [Job -> Status] /\ registered \in SUBSET Job
      /\ ui \in [status : UiStatus, job : Job \cup {NoUser}]
      /\ channel \in Seq(Message)
  BY DEF SpeechInv, JobInv, JobTypeOK, PageTypeOK, UiTypeOK, Message
<1> USE <1>0, ReloadsAssumption DEF PageTypeOK, UiTypeOK, ResumeOK, Message
<1>1. CASE Unsaid
  BY <1>1 DEF Unsaid, pageVars
<1>2. ASSUME NEW j \in Job, NEW kind \in Kind, Heralds(j, kind) PROVE PageTypeOK'
  <2>1. channel' \in Seq(Message)
    BY <1>2 DEF Heralds
  <2> QED
    BY <1>2, <2>1 DEF Heralds, pageVars
<1>3. ASSUME NEW j \in Job, Accepts(j) PROVE PageTypeOK'
  <2>1. /\ orphans' \in 0..MaxReloads /\ orphans' <= reloads'
        /\ reply' \in Job \cup {NoUser}
    BY <1>3 DEF Accepts
  <2>2. invoking' \in BOOLEAN
    BY <1>3 DEF Accepts
  <2> QED
    BY <1>3, <2>1, <2>2 DEF Accepts
<1>4. ASSUME PageStep PROVE PageTypeOK'
  <2> USE DEF UiStatus, InFlight, pageVars
  <2>1. CASE ClickSlice \/ StartRejected
    <3>1. ui' \in [status : UiStatus, job : Job \cup {NoUser}]
      BY <2>1 DEF ClickSlice, StartRejected, ReduceStart, initialState
    <3>2. invoking' \in BOOLEAN
      BY <2>1 DEF ClickSlice, StartRejected
    <3>3. UNCHANGED <<channel, orphans, reply, asks, stored, resume, reloads>>
      BY <2>1 DEF ClickSlice, StartRejected
    <3> QED
      BY <3>1, <3>2, <3>3
  <2>2. CASE OrphanRejected
    BY <2>2 DEF OrphanRejected
  <2>3. CASE StartReplies
    BY <2>3 DEF StartReplies, ReduceStart
  <2>4. CASE Deliver
    <3>1. Head(channel) \in Message /\ Tail(channel) \in Seq(Message)
      BY <2>4, HeadAndTail DEF Deliver
    <3>2. ui' \in [status : UiStatus, job : Job \cup {NoUser}]
      BY <2>4, <3>1, ApplyType DEF Deliver
    <3>3. channel' \in Seq(Message)
      BY <2>4, <3>1 DEF Deliver
    <3> QED
      BY <2>4, <3>2, <3>3 DEF Deliver
  <2>5. CASE ClickCancel
    BY <2>5 DEF ClickCancel, ReduceCancelRequested
  <2>6. CASE Reload
    <3>1. /\ orphans' \in 0..MaxReloads /\ orphans' <= reloads'
          /\ reloads' \in 0..MaxReloads
      BY <2>6 DEF Reload
    <3>2. ResumeOK'
      BY <2>6 DEF Reload, NoResume
    <3> QED
      <4>1. ui' \in [status : UiStatus, job : Job \cup {NoUser}]
        BY <2>6 DEF Reload, initialState
      <4>2. resume'.step \in {"none", "asked", "answered"}
        BY <3>2
      <4>3. channel' \in Seq(Message)
        BY <2>6 DEF Reload
      <4>5. invoking' \in BOOLEAN
        BY <2>6 DEF Reload
      <4>4. UNCHANGED <<asks, stored>> /\ reply' \in Job \cup {NoUser}
        BY <2>6 DEF Reload
      <4> QED
        BY <3>1, <3>2, <4>1, <4>2, <4>3, <4>4, <4>5
  <2>7. CASE StatusRead
    BY <2>7 DEF StatusRead
  <2>8. CASE Resume
    BY <2>8 DEF Resume, NoResume
  <2>9. CASE CancelRefused
    BY <2>9 DEF CancelRefused
  <2> QED
    BY <1>4, <2>1, <2>2, <2>3, <2>4, <2>5, <2>6, <2>7, <2>8, <2>9 DEF PageStep
<1> QED
  BY <1>1, <1>2, <1>3, <1>4, BackendShapes DEF UiNext

-----------------------------------------------------------------------------
(* What is on the channel was said, so what the panel shows was.            *)
ChannelHeard ==
  \A i \in 1..Len(channel) : Heard(channel[i].job, channel[i].kind)

TruthInv == SpeechInv /\ PageTypeOK /\ OutcomeIsTrue /\ ChannelHeard

LEMMA HeardStays ==
  ASSUME JobInv, log' = log \/ \E j \in Job, kind \in Kind : Says(j, kind)
  PROVE  \A k \in Job : \A word : Heard(k, word) => Heard(k, word)'
<1>0. log \in [Job -> Seq(Event)]
  BY DEF JobInv, JobTypeOK
<1>1. CASE log' = log
  BY <1>1 DEF Heard
<1>2. ASSUME NEW j \in Job, NEW kind \in Kind, Says(j, kind), NEW k \in Job,
             NEW word, Heard(k, word)
      PROVE  Heard(k, word)'
  <2>1. PICK e \in Event : log' = [log EXCEPT ![j] = Append(log[j], e)]
    BY <1>2 DEF Says
  <2>2. CASE k = j
    BY <1>0, <1>2, <2>1, <2>2, GrownLog DEF Heard
  <2>3. CASE k # j
    BY <1>0, <1>2, <2>1, <2>3 DEF Heard
  <2> QED
    BY <2>2, <2>3
<1> QED
  BY <1>1, <1>2

LEMMA SaidIsHeard ==
  ASSUME JobInv, NEW j \in Job, NEW kind \in Kind, Says(j, kind)
  PROVE  Heard(j, kind)'
<1>1. PICK e \in Event : e.kind = kind /\ log' = [log EXCEPT ![j] = Append(log[j], e)]
  BY DEF Says
<1>2. log \in [Job -> Seq(Event)]
  BY DEF JobInv, JobTypeOK
<1>3. /\ Len(log'[j]) = Len(log[j]) + 1 /\ Len(log[j]) \in Nat
      /\ log'[j][Len(log[j]) + 1] = e
  BY <1>1, <1>2, GrownLog
<1> QED
  BY <1>1, <1>3 DEF Heard

LEMMA MessageFields ==
  ASSUME NEW c \in Seq(Message)
  PROVE  \A i \in 1..Len(c) : c[i] \in Message /\ c[i].job \in Job /\ c[i].kind \in Kind
<1>1. \A i \in 1..Len(c) : c[i] \in Message
  OBVIOUS
<1>2. \A m \in Message : m.job \in Job /\ m.kind \in Kind
  BY DEF Message
<1> QED
  BY <1>1, <1>2

LEMMA ChannelGrows ==
  ASSUME NEW c \in Seq(Message), NEW m \in Message, NEW d, d = Append(c, m)
  PROVE  /\ Len(d) = Len(c) + 1 /\ Len(c) \in Nat
         /\ d[Len(c) + 1] = m /\ d # <<>>
         /\ \A i \in 1..Len(c) : d[i] = c[i]
         /\ 1..Len(d) = 1..Len(c) \cup {Len(c) + 1}
  OBVIOUS

(* The status a delivered event leaves.                                     *)
LEMMA ApplyTells ==
  ASSUME NEW s \in [status : UiStatus, job : Job \cup {NoUser}], NEW e \in Message,
         NEW t, t = ApplyEvent(s, e)
  PROVE  /\ t.status = s.status \/ s.job = NoUser \/ e.job = s.job
         /\ \/ t = s
            \/ t.status = "running" /\ t.job = e.job /\ e.kind = "PlateStarted"
            \/ t.status = "running" /\ t.job = s.job /\ e.kind = "PlateProgress"
            \/ t.status = "complete" /\ t.job = s.job /\ e.kind = "JobFinished"
            \/ t.status = "failed" /\ t.job = s.job /\ e.kind = "JobFailed"
            \/ t.status = "cancelled" /\ t.job = s.job /\ e.kind = "Cancelled"
         /\ e.kind = "PlateStarted" /\ s.job = NoUser => t.job = e.job
         /\ e.kind \in Terminal /\ s.job \in {NoUser, e.job} => t.status # "running"
<1>1. CASE s.job # NoUser /\ e.job # s.job
  BY <1>1 DEF ApplyEvent
<1>2. CASE ~(s.job # NoUser /\ e.job # s.job)
  <2> USE <1>2 DEF ApplyEvent, Message, Kind, Terminal
  <2>1. CASE e.kind = "PlateStarted"
    BY <2>1
  <2>2. CASE e.kind = "PlateProgress"
    BY <2>2
  <2>3. CASE e.kind \in Terminal
    BY <2>3
  <2>4. CASE e.kind \in Kind \ ({"PlateStarted", "PlateProgress"} \cup Terminal)
    BY <2>4
  <2> QED
    BY <2>1, <2>2, <2>3, <2>4
<1> QED
  BY <1>1, <1>2

LEMMA TruthInit == UiInit => TruthInv
<1> SUFFICES ASSUME UiInit PROVE TruthInv
  OBVIOUS
<1>1. ui.job = NoUser /\ channel = <<>>
  BY DEF UiInit, PageInit, initialState
<1> QED
  BY <1>1, SpeechInit, PageTypeInit DEF TruthInv, UiInit, OutcomeIsTrue, ChannelHeard

LEMMA TruthStep == TruthInv /\ [UiNext \/ CalibStep]_<<vars, uiVars>> => TruthInv'
<1> SUFFICES ASSUME TruthInv, UiNext \/ CalibStep \/ UNCHANGED <<vars, uiVars>>
             PROVE  TruthInv'
  OBVIOUS
<1>0. /\ SpeechInv /\ JobInv /\ PageTypeOK /\ OutcomeIsTrue /\ ChannelHeard
      /\ ui \in [status : UiStatus, job : Job \cup {NoUser}]
      /\ channel \in Seq(Message)
      /\ NoUser \notin Job
  BY EngineAssumption DEF TruthInv, SpeechInv, PageTypeOK, UiTypeOK, Message
<1>1. SpeechInv' /\ PageTypeOK'
  BY <1>0, SpeechStep, PageIsQuiet, PageTypeStep
<1>2. ASSUME log' = log \/ \E j \in Job, kind \in Kind : Says(j, kind), ui' = ui
      PROVE  OutcomeIsTrue'
  <2>1. \A k \in Job : \A word : Heard(k, word) => Heard(k, word)'
    BY <1>0, <1>2, HeardStays
  <2> QED
    BY <1>0, <1>2, <2>1 DEF OutcomeIsTrue
<1>3. ASSUME log' = log \/ \E j \in Job, kind \in Kind : Says(j, kind), channel' = channel
      PROVE  ChannelHeard'
  <2>1. \A k \in Job : \A word : Heard(k, word) => Heard(k, word)'
    BY <1>0, <1>3, HeardStays
  <2>2. \A i \in 1..Len(channel) : channel[i].job \in Job
    BY <1>0, MessageFields
  <2> QED
    BY <1>0, <1>3, <2>1, <2>2 DEF ChannelHeard
<1>4. ASSUME Unsaid PROVE OutcomeIsTrue' /\ ChannelHeard'
  BY <1>2, <1>3, <1>4 DEF Unsaid, Mute, pageVars
<1>5. ASSUME NEW j \in Job, Accepts(j) PROVE OutcomeIsTrue' /\ ChannelHeard'
  BY <1>2, <1>3, <1>5 DEF Accepts
<1>6. ASSUME NEW j \in Job, NEW kind \in Kind, Heralds(j, kind)
      PROVE  OutcomeIsTrue' /\ ChannelHeard'
  <2>0. Says(j, kind) /\ ui' = ui
    BY <1>6 DEF Heralds, Reports, Closes, pageVars
  <2>1. \A k \in Job : \A word : Heard(k, word) => Heard(k, word)'
    BY <1>0, <2>0, HeardStays
  <2>2. Heard(j, kind)'
    BY <1>0, <2>0, SaidIsHeard
  <2>3. [job |-> j, kind |-> kind] \in Message
    BY DEF Message
  <2>4. channel' = Append(channel, [job |-> j, kind |-> kind])
    BY <1>6 DEF Heralds
  <2>5. /\ Len(channel') = Len(channel) + 1 /\ Len(channel) \in Nat
        /\ channel'[Len(channel) + 1] = [job |-> j, kind |-> kind]
        /\ \A i \in 1..Len(channel) : channel'[i] = channel[i]
        /\ 1..Len(channel') = 1..Len(channel) \cup {Len(channel) + 1}
    BY <1>0, <2>3, <2>4, ChannelGrows
  <2>6. \A i \in 1..Len(channel) : channel[i].job \in Job
    BY <1>0, MessageFields
  <2>7. ChannelHeard'
    BY <1>0, <2>1, <2>2, <2>5, <2>6 DEF ChannelHeard
  <2> QED
    BY <1>2, <2>0, <2>7
<1>7. ASSUME PageStep, UNCHANGED vars PROVE OutcomeIsTrue' /\ ChannelHeard'
  <2>0. log' = log /\ \A k, word : Heard(k, word)' <=> Heard(k, word)
    BY <1>7 DEF vars, jobVars, Heard
  <2>1. CASE ClickSlice \/ StartRejected \/ StartReplies
    <3>1. ui'.status \in {"idle", "starting"} /\ channel' = channel
      BY <2>1 DEF ClickSlice, StartRejected, StartReplies, ReduceStart, initialState
    <3> QED
      BY <1>3, <2>0, <3>1 DEF OutcomeIsTrue
  <2>2. CASE OrphanRejected \/ StatusRead \/ CancelRefused
    BY <1>2, <1>3, <2>0, <2>2 DEF OrphanRejected, StatusRead, CancelRefused, pageVars
  <2>3. CASE Deliver
    <3>1. /\ channel # <<>> /\ channel' = Tail(channel)
          /\ ui' = ApplyEvent(ui, Head(channel))
      BY <2>3 DEF Deliver
    <3>2. /\ Head(channel) = channel[1] /\ Head(channel) \in Message
          /\ \A i \in 1..Len(channel') : channel'[i] = channel[i + 1] /\ i + 1 \in 1..Len(channel)
          /\ 1 \in 1..Len(channel)
      BY <1>0, <3>1, HeadAndTail
    <3>3. ChannelHeard'
      BY <1>0, <2>0, <3>2 DEF ChannelHeard
    <3>4. Heard(Head(channel).job, Head(channel).kind)
      BY <1>0, <3>2 DEF ChannelHeard
    <3>5. OutcomeIsTrue'
      <4>1. PICK e \in Message : e = Head(channel) /\ ui' = ApplyEvent(ui, e)
        BY <3>1, <3>2
      <4>2. Heard(e.job, e.kind)
        BY <3>4, <4>1
      <4>3. /\ ui'.status = ui.status \/ ui.job = NoUser \/ e.job = ui.job
            /\ \/ ui' = ui
               \/ ui'.status = "running"
               \/ ui'.status = "complete" /\ ui'.job = ui.job /\ e.kind = "JobFinished"
               \/ ui'.status = "failed" /\ ui'.job = ui.job /\ e.kind = "JobFailed"
               \/ ui'.status = "cancelled" /\ ui'.job = ui.job /\ e.kind = "Cancelled"
        BY <1>0, <4>1, ApplyTells
      <4> QED
        BY <1>0, <2>0, <4>2, <4>3 DEF OutcomeIsTrue
    <3> QED
      BY <3>3, <3>5
  <2>4. CASE ClickCancel
    <3>1. ui'.status \in {ui.status, "cancelling"} /\ ui'.job = ui.job /\ channel' = channel
      BY <1>0, <2>4 DEF ClickCancel, ReduceCancelRequested
    <3> QED
      BY <1>0, <1>3, <2>0, <3>1 DEF OutcomeIsTrue
  <2>5. CASE Reload
    <3>1. ui'.status = "idle" /\ channel' = <<>>
      BY <2>5 DEF Reload, initialState
    <3> QED
      BY <3>1 DEF OutcomeIsTrue, ChannelHeard
  <2>6. CASE Resume
    <3>1. channel' = channel /\ (ui' = ui \/ ui'.status = "running")
      BY <2>6 DEF Resume
    <3>2. ASSUME ui'.status = "running" PROVE OutcomeIsTrue'
      BY <3>2 DEF OutcomeIsTrue
    <3> QED
      BY <1>2, <1>3, <2>0, <3>1, <3>2
  <2> QED
    BY <1>7, <2>1, <2>2, <2>3, <2>4, <2>5, <2>6 DEF PageStep
<1>8. OutcomeIsTrue' /\ ChannelHeard'
  BY <1>0, <1>4, <1>5, <1>6, <1>7, BackendShapes DEF UiNext
<1> QED
  BY <1>1, <1>8 DEF TruthInv

-----------------------------------------------------------------------------
(* A page that was not reloaded.  A job is under way as long as its worker  *)
(* works or an event of it is on the channel, and pending also while its    *)
(* id is; there is one such job at most, and the panel shows it.            *)
UnderWay(j) == Working(j) \/ \E i \in 1..Len(channel) : channel[i].job = j
Pending(j) == UnderWay(j) \/ reply = j

OnePending == \A j, k \in Job : Pending(j) /\ Pending(k) => j = k

PendingShows ==
  \A j \in Job : Pending(j) => ~invoking /\ (ui.status \in InFlight \/ reply # NoUser)

(* The channel ends in an outcome exactly when its job's worker is done.    *)
ChannelEnds ==
  \A i \in 1..Len(channel) :
    channel[i].kind \in Terminal \/ i = Len(channel) =>
      /\ i = Len(channel)
      /\ channel[i].kind \in Terminal <=> ~Working(channel[i].job)

RunningIsPending == ui.status = "running" => ui.job \in Job /\ UnderWay(ui.job)

(* A panel without a job has missed nothing.                                *)
FirstWord ==
  ui.job = NoUser =>
    /\ channel # <<>> => channel[1].kind \in {"PlateStarted", "Cancelled"}
    /\ channel = <<>> => \A j \in Job : Working(j) => log[j] = <<>>

FreshPage == resume = NoResume /\ orphans = 0

PageInv ==
  FreshPage /\ OnePending /\ PendingShows /\ ChannelEnds /\ RunningIsPending /\ FirstWord

PanelInv == TruthInv /\ (reloads = 0 => PageInv)

LEMMA PanelInit == UiInit => PanelInv
<1> SUFFICES ASSUME UiInit PROVE PanelInv
  OBVIOUS
<1>1. /\ channel = <<>> /\ reply = NoUser /\ resume = NoResume /\ orphans = 0
      /\ ui.status = "idle"
      /\ \A j \in Job : pc[j] = "unborn"
  BY DEF UiInit, PageInit, initialState, Init, User
<1>2. \A j \in Job : ~Working(j)
  BY <1>1 DEF Working
<1>3. Len(channel) = 0 /\ \A j \in Job : reply # j
  BY <1>1, EngineAssumption
<1>4. \A j \in Job : ~Pending(j)
  <2>1. 1..Len(channel) = {}
    BY <1>3
  <2> QED
    BY <1>2, <1>3, <2>1 DEF Pending, UnderWay
<1> QED
  BY <1>1, <1>2, <1>3, <1>4, TruthInit
     DEF PanelInv, PageInv, FreshPage, OnePending, PendingShows, ChannelEnds,
         RunningIsPending, FirstWord

(* A page with nothing under way: the channel is empty, no worker works.    *)
LEMMA NothingPending ==
  ASSUME channel \in Seq(Message), \A j \in Job : ~Pending(j)
  PROVE  channel = <<>> /\ (\A j \in Job : ~Working(j) /\ reply # j)
<1>1. \A j \in Job : ~Working(j) /\ reply # j
  BY DEF Pending, UnderWay
<1>2. ASSUME channel # <<>> PROVE FALSE
  <2>1. 1 \in 1..Len(channel)
    BY <1>2, HeadAndTail
  <2>2. channel[1].job \in Job
    BY <2>1, MessageFields
  <2> QED
    BY <2>1, <2>2 DEF Pending, UnderWay
<1> QED
  BY <1>1, <1>2

LEMMA UnsaidKeeps ==
  ASSUME Unsaid, PageInv, channel \in Seq(Message) PROVE PageInv'
<1>1. /\ \A j \in Job : Working(j)' <=> Working(j)
      /\ log' = log /\ ui' = ui /\ channel' = channel /\ invoking' = invoking
      /\ reply' = reply /\ resume' = resume /\ orphans' = orphans
  BY DEF Unsaid, Mute, pageVars
<1>2. \A j \in Job : (UnderWay(j)' <=> UnderWay(j)) /\ (Pending(j)' <=> Pending(j))
  BY <1>1 DEF UnderWay, Pending
<1>3. FreshPage' /\ OnePending' /\ PendingShows' /\ RunningIsPending'
  BY <1>1, <1>2 DEF PageInv, FreshPage, OnePending, PendingShows, RunningIsPending
<1>4. FirstWord'
  BY <1>1 DEF PageInv, FirstWord
<1>5. ChannelEnds'
  BY <1>1, MessageFields DEF PageInv, ChannelEnds
<1> QED
  BY <1>3, <1>4, <1>5 DEF PageInv

LEMMA HeraldsKeeps ==
  ASSUME PageInv, channel \in Seq(Message), NEW j \in Job, NEW kind \in Kind,
         Heralds(j, kind)
  PROVE  PageInv'
<1>1. /\ ui' = ui /\ invoking' = invoking /\ reply' = reply /\ resume' = resume
      /\ orphans' = orphans /\ channel' = Append(channel, [job |-> j, kind |-> kind])
  BY DEF Heralds, pageVars
<1>2. /\ Working(j) /\ \A k \in Job \ {j} : Working(k)' <=> Working(k)
      /\ kind \in Terminal <=> ~Working(j)'
      /\ kind \in {"PlateStarted", "Cancelled"} \/ log[j] # <<>>
  BY DEF Heralds, Reports, Closes, Says, Working
<1>3. [job |-> j, kind |-> kind] \in Message
  BY DEF Message
<1>4. /\ Len(channel') = Len(channel) + 1 /\ Len(channel) \in Nat
      /\ channel'[Len(channel) + 1] = [job |-> j, kind |-> kind] /\ channel' # <<>>
      /\ \A i \in 1..Len(channel) : channel'[i] = channel[i]
      /\ 1..Len(channel') = 1..Len(channel) \cup {Len(channel) + 1}
  BY <1>1, <1>3, ChannelGrows
<1>5. channel'[Len(channel) + 1].job = j /\ channel'[Len(channel) + 1].kind = kind
  BY <1>4
<1>6. \A k \in Job : (UnderWay(k)' <=> UnderWay(k)) /\ (Pending(k)' <=> Pending(k))
  <2>1. ASSUME NEW k \in Job PROVE UnderWay(k)' <=> UnderWay(k)
    <3>1. (\E i \in 1..Len(channel') : channel'[i].job = k)
            <=> (\E i \in 1..Len(channel) : channel[i].job = k) \/ k = j
      BY <1>4, <1>5
    <3> QED
      BY <1>2, <3>1 DEF UnderWay
  <2> QED
    BY <1>1, <2>1 DEF Pending
<1>7. FreshPage' /\ OnePending' /\ PendingShows' /\ RunningIsPending'
  BY <1>1, <1>6 DEF PageInv, FreshPage, OnePending, PendingShows, RunningIsPending
<1>8. \A i \in 1..Len(channel) : channel[i].job = j
  BY <1>2, MessageFields DEF PageInv, OnePending, Pending, UnderWay
<1>9. \A i \in 1..Len(channel) : channel[i].kind \notin Terminal
  BY <1>2, <1>8 DEF PageInv, ChannelEnds
<1>10. ChannelEnds'
  <2>1. \A i \in 1..Len(channel') :
          channel'[i].kind \in Terminal \/ i = Len(channel') => i = Len(channel) + 1
    BY <1>4, <1>9
  <2>2. channel'[Len(channel) + 1].kind \in Terminal
          <=> pc'[channel'[Len(channel) + 1].job] \in {"unborn"} \cup AtRest
    BY <1>2, <1>5 DEF Working
  <2> QED
    BY <1>4, <2>1, <2>2 DEF ChannelEnds, Working
<1>11. FirstWord'
  <2>1. ASSUME ui.job = NoUser PROVE channel'[1].kind \in {"PlateStarted", "Cancelled"}
    <3>1. CASE channel = <<>>
      <4>1. Len(channel) = 0 /\ log[j] = <<>>
        BY <1>2, <2>1, <3>1 DEF PageInv, FirstWord
      <4>2. Len(channel) + 1 = 1
        BY <4>1
      <4> QED
        BY <1>2, <1>5, <4>1, <4>2
    <3>2. CASE channel # <<>>
      <4>1. channel[1].kind \in {"PlateStarted", "Cancelled"} /\ 1 \in 1..Len(channel)
        BY <2>1, <3>2, HeadAndTail DEF PageInv, FirstWord
      <4> QED
        BY <1>4, <4>1
    <3> QED
      BY <3>1, <3>2
  <2> QED
    BY <1>1, <1>4, <2>1 DEF FirstWord
<1> QED
  BY <1>7, <1>10, <1>11 DEF PageInv

LEMMA AcceptsKeeps ==
  ASSUME PageInv, channel \in Seq(Message), reply \in Job \cup {NoUser},
         NEW j \in Job, Accepts(j), orphans \in Nat
  PROVE  PageInv'
<1>1. /\ invoking /\ ~invoking' /\ reply' = j
      /\ ui' = ui /\ channel' = channel /\ resume' = resume /\ orphans' = orphans
      /\ log' = log /\ log[j] = <<>>
  BY DEF Accepts, PageInv, FreshPage
<1>2. \A k \in Job : ~Pending(k)
  BY <1>1 DEF PageInv, PendingShows
<1>3. channel = <<>> /\ \A k \in Job : ~Working(k)
  BY <1>2, NothingPending
<1>4. \A k \in Job \ {j} : ~Working(k)'
  BY <1>3 DEF Accepts, Working
<1>5. Len(channel') = 0
  BY <1>1, <1>3
<1>6. \A k \in Job : Pending(k)' => k = j
  BY <1>1, <1>4, <1>5 DEF Pending, UnderWay
<1>7. reply' # NoUser
  BY <1>1, EngineAssumption
<1>8. ui.status # "running"
  BY <1>2 DEF PageInv, RunningIsPending, Pending
<1>9. FreshPage' /\ OnePending' /\ RunningIsPending'
  BY <1>1, <1>6, <1>8 DEF PageInv, FreshPage, OnePending, RunningIsPending
<1>10. PendingShows'
  BY <1>1, <1>7 DEF PendingShows
<1>11. ChannelEnds'
  BY <1>5 DEF ChannelEnds
<1>12. FirstWord'
  BY <1>1, <1>3, <1>4 DEF FirstWord
<1> QED
  BY <1>9, <1>10, <1>11, <1>12 DEF PageInv

LEMMA DeliverKeeps ==
  ASSUME PageInv, channel \in Seq(Message), Deliver, UNCHANGED vars,
         ui \in [status : UiStatus, job : Job \cup {NoUser}]
  PROVE  PageInv'
<1>1. /\ channel # <<>> /\ channel' = Tail(channel)
      /\ ui' = ApplyEvent(ui, Head(channel))
      /\ invoking' = invoking /\ reply' = reply /\ resume' = resume /\ orphans' = orphans
  BY DEF Deliver
<1>2. log' = log /\ pc' = pc
  BY DEF vars, jobVars
<1>3. PICK e \in Message : e = channel[1] /\ ui' = ApplyEvent(ui, e)
  BY <1>1, HeadAndTail
<1>4. /\ Len(channel') = Len(channel) - 1 /\ Len(channel) \in Nat \ {0}
      /\ \A i \in 1..Len(channel') : channel'[i] = channel[i + 1] /\ i + 1 \in 1..Len(channel)
      /\ 1 \in 1..Len(channel) /\ channel' \in Seq(Message)
  BY <1>1, HeadAndTail
<1>5. e.job \in Job /\ e.kind \in Kind
  BY <1>3, <1>4, MessageFields
<1>6. \A k \in Job : UnderWay(k) \/ UnderWay(k)' => k = e.job
  <2>1. UnderWay(e.job)
    BY <1>3, <1>4 DEF UnderWay
  <2>2. \A k \in Job : UnderWay(k)' => UnderWay(k)
    BY <1>2, <1>4 DEF UnderWay, Working
  <2> QED
    BY <1>5, <2>1, <2>2 DEF PageInv, OnePending, Pending
<1>7. \A k \in Job : UnderWay(k)' => UnderWay(k)
  BY <1>2, <1>4 DEF UnderWay, Working
<1>8. \A k \in Job : Pending(k)' => Pending(k)
  BY <1>1, <1>7 DEF Pending
<1>9. e.kind \in Terminal => Len(channel) = 1 /\ ~Working(e.job)
  BY <1>3, <1>4 DEF PageInv, ChannelEnds
<1>10. e.kind \in Terminal => \A k \in Job : ~UnderWay(k)'
  <2> SUFFICES ASSUME e.kind \in Terminal, NEW k \in Job, UnderWay(k)' PROVE FALSE
    OBVIOUS
  <2>1. k = e.job /\ 1..Len(channel') = {}
    BY <1>4, <1>6, <1>9
  <2> QED
    BY <1>2, <1>9, <2>1 DEF UnderWay, Working
<1>11. e.kind \notin Terminal => UnderWay(e.job)'
  <2> SUFFICES ASSUME e.kind \notin Terminal PROVE UnderWay(e.job)'
    OBVIOUS
  <2>1. CASE Len(channel) = 1
    <3>1. Working(e.job)
      BY <1>3, <1>4, <2>1 DEF PageInv, ChannelEnds
    <3> QED
      BY <1>2, <3>1 DEF UnderWay, Working
  <2>2. CASE Len(channel) # 1
    <3>1. 1 \in 1..Len(channel') /\ 2 \in 1..Len(channel) /\ channel'[1] = channel[2]
      BY <1>4, <2>2
    <3>2. channel[2].job \in Job
      BY <3>1, MessageFields
    <3>3. channel[2].job = e.job
      BY <1>6, <3>1, <3>2 DEF UnderWay
    <3> QED
      BY <3>1, <3>3 DEF UnderWay
  <2> QED
    BY <2>1, <2>2
<1>12. /\ \/ ui' = ui
          \/ ui'.status = "running" /\ ui'.job = e.job /\ e.kind = "PlateStarted"
          \/ ui'.status = "running" /\ ui'.job = ui.job /\ e.kind = "PlateProgress"
          \/ ui'.status # "running" /\ ui'.job = ui.job /\ e.kind \in Terminal
       /\ e.kind = "PlateStarted" /\ ui.job = NoUser => ui'.job = e.job
       /\ e.kind \in Terminal /\ ui.job \in {NoUser, e.job} => ui'.status # "running"
  BY <1>3, ApplyTells DEF Terminal
<1>13. /\ ui.job # NoUser => ui'.job = ui.job
       /\ ui.job # NoUser /\ e.job # ui.job => ui' = ui
  BY <1>3, ApplyType
<1>14. ui.job = NoUser => e.kind \in {"PlateStarted", "Cancelled"}
  BY <1>1, <1>3 DEF PageInv, FirstWord
<1>15. FreshPage' /\ OnePending'
  BY <1>1, <1>8 DEF PageInv, FreshPage, OnePending
<1>16. PendingShows'
  <2> SUFFICES ASSUME NEW k \in Job, Pending(k)'
               PROVE  ~invoking' /\ (ui'.status \in InFlight \/ reply' # NoUser)
    BY DEF PendingShows
  <2>1. ~invoking /\ (ui.status \in InFlight \/ reply # NoUser)
    BY <1>8 DEF PageInv, PendingShows
  <2>2. CASE reply # NoUser
    BY <1>1, <2>1, <2>2
  <2>3. CASE reply = NoUser
    <3>1. UnderWay(k)'
      BY <1>1, <2>3, EngineAssumption DEF Pending
    <3>2. e.kind \notin Terminal
      BY <1>10, <3>1
    <3> QED
      BY <1>1, <1>12, <2>1, <2>3, <3>2 DEF InFlight
  <2> QED
    BY <2>2, <2>3
<1>17. ChannelEnds'
  <2>1. \A i \in 1..Len(channel') :
          channel'[i] = channel[i + 1] /\ i + 1 \in 1..Len(channel)
          /\ (i + 1 = Len(channel) <=> i = Len(channel'))
    BY <1>4
  <2> QED
    BY <1>2, <2>1 DEF PageInv, ChannelEnds, Working
<1>18. RunningIsPending'
  <2>1. ASSUME ui'.status = "running" PROVE ui'.job = e.job /\ e.kind \notin Terminal
    <3>1. CASE ui' = ui
      <4>1. ui.job \in Job /\ UnderWay(ui.job)
        BY <2>1, <3>1 DEF PageInv, RunningIsPending
      <4>2. ui.job = e.job
        BY <1>6, <4>1
      <4> QED
        BY <1>12, <2>1, <3>1, <4>2
    <3>2. CASE ui' # ui
      <4>1. e.kind \in {"PlateStarted", "PlateProgress"}
        BY <1>12, <2>1, <3>2
      <4>2. ui'.job = e.job
        BY <1>12, <1>13, <1>14, <2>1, <3>2, <4>1
      <4> QED
        BY <4>1, <4>2 DEF Terminal
    <3> QED
      BY <3>1, <3>2
  <2>2. PICK k : k = e.job
    OBVIOUS
  <2>3. ui'.status = "running" => ui'.job = k /\ k \in Job /\ UnderWay(k)'
    BY <1>5, <1>11, <2>1, <2>2
  <2> QED
    BY <2>3 DEF RunningIsPending, UnderWay, Working
<1>19. FirstWord'
  <2> SUFFICES ASSUME ui'.job = NoUser
               PROVE  channel' = <<>> /\ \A k \in Job : ~Working(k)
    BY <1>2 DEF FirstWord, Working
  <2>1. ui.job = NoUser /\ e.kind \in Terminal
    BY <1>5, <1>12, <1>13, <1>14, EngineAssumption DEF Terminal
  <2>2. Len(channel') = 0 /\ ~Working(e.job)
    BY <1>4, <1>9, <2>1
  <2>3. channel' = <<>>
    BY <1>4, <2>2
  <2> QED
    BY <1>6, <2>2, <2>3 DEF UnderWay
<1> QED
  BY <1>15, <1>16, <1>17, <1>18, <1>19 DEF PageInv

LEMMA PageKeeps ==
  ASSUME PageInv, PageTypeOK, PageStep, UNCHANGED vars, reloads' = 0
  PROVE  PageInv'
<1>0. /\ channel \in Seq(Message) /\ reply \in Job \cup {NoUser} /\ NoUser \notin Job
      /\ ui \in [status : UiStatus, job : Job \cup {NoUser}]
      /\ reloads \in Nat
  BY EngineAssumption DEF PageTypeOK, UiTypeOK, Message
<1>1. log' = log /\ pc' = pc
  BY DEF vars, jobVars
<1>2. ASSUME channel' = channel, reply' = reply \/ reply' = NoUser
      PROVE  \A k \in Job : (UnderWay(k)' <=> UnderWay(k)) /\ (Pending(k)' => Pending(k))
  BY <1>0, <1>1, <1>2 DEF Pending, UnderWay, Working
<1>3. ASSUME channel' = channel PROVE ChannelEnds'
  BY <1>1, <1>3 DEF PageInv, ChannelEnds, Working
<1>4. ASSUME channel' = channel, ui'.job # NoUser \/ ui'.job = ui.job PROVE FirstWord'
  BY <1>1, <1>4 DEF PageInv, FirstWord, Working
<1>5. ASSUME ClickSlice \/ StartRejected PROVE PageInv'
  <2>1. /\ channel' = channel /\ reply' = reply /\ resume' = resume /\ orphans' = orphans
        /\ ui'.status # "running"
    BY <1>5 DEF ClickSlice, StartRejected, ReduceStart, initialState
  <2>2. \A k \in Job : ~Pending(k)
    BY <1>5 DEF ClickSlice, StartRejected, PageInv, PendingShows
  <2>3. \A k \in Job : ~Pending(k)'
    BY <1>2, <2>1, <2>2
  <2>4. channel = <<>> /\ \A k \in Job : ~Working(k)
    BY <1>0, <2>2, NothingPending
  <2>5. FirstWord'
    BY <1>1, <2>1, <2>4 DEF FirstWord, Working
  <2>6. FreshPage' /\ OnePending' /\ PendingShows' /\ RunningIsPending'
    BY <2>1, <2>3 DEF PageInv, FreshPage, OnePending, PendingShows, RunningIsPending
  <2> QED
    BY <1>3, <2>1, <2>5, <2>6 DEF PageInv
<1>6. ASSUME StartReplies PROVE PageInv'
  <2>1. /\ channel' = channel /\ reply' = NoUser /\ resume' = resume /\ orphans' = orphans
        /\ invoking' = invoking /\ ui'.status = "starting" /\ ui'.job # NoUser
    BY <1>6 DEF StartReplies, ReduceStart
  <2>2. \A k \in Job : Pending(k)' => Pending(k)
    BY <1>2, <2>1
  <2>3. FreshPage' /\ OnePending' /\ RunningIsPending'
    BY <2>1, <2>2 DEF PageInv, FreshPage, OnePending, RunningIsPending
  <2>4. PendingShows'
    BY <2>1, <2>2 DEF PageInv, PendingShows, InFlight
  <2> QED
    BY <1>3, <1>4, <2>1, <2>3, <2>4 DEF PageInv
<1>7. ASSUME ClickCancel PROVE PageInv'
  <2>1. /\ channel' = channel /\ reply' = reply /\ resume' = resume /\ orphans' = orphans
        /\ invoking' = invoking /\ ui'.status = "cancelling" /\ ui'.job = ui.job
    BY <1>0, <1>7 DEF ClickCancel, ReduceCancelRequested, InFlight
  <2>2. \A k \in Job : Pending(k)' => Pending(k)
    BY <1>2, <2>1
  <2>3. FreshPage' /\ OnePending' /\ RunningIsPending'
    BY <2>1, <2>2 DEF PageInv, FreshPage, OnePending, RunningIsPending
  <2>4. PendingShows'
    BY <2>1, <2>2 DEF PageInv, PendingShows, InFlight
  <2> QED
    BY <1>3, <1>4, <2>1, <2>3, <2>4 DEF PageInv
<1>8. ASSUME CancelRefused PROVE PageInv'
  <2>1. /\ channel' = channel /\ reply' = reply /\ resume' = resume /\ orphans' = orphans
        /\ invoking' = invoking /\ ui' = ui
    BY <1>8 DEF CancelRefused, pageVars
  <2>2. \A k \in Job : (UnderWay(k)' <=> UnderWay(k)) /\ (Pending(k)' => Pending(k))
    BY <1>2, <2>1
  <2>3. FreshPage' /\ OnePending' /\ PendingShows'
    BY <2>1, <2>2 DEF PageInv, FreshPage, OnePending, PendingShows
  <2>4. RunningIsPending'
    BY <1>1, <2>1 DEF PageInv, RunningIsPending, UnderWay, Working
  <2> QED
    BY <1>3, <1>4, <2>1, <2>3, <2>4 DEF PageInv
<1>9. ~OrphanRejected /\ ~StatusRead /\ ~Resume
  BY DEF PageInv, FreshPage, NoResume, OrphanRejected, StatusRead, Resume
<1>10. ~Reload
  BY <1>0 DEF Reload
<1>11. ASSUME Deliver PROVE PageInv'
  BY <1>0, <1>11, DeliverKeeps
<1> QED
  BY <1>5, <1>6, <1>7, <1>8, <1>9, <1>10, <1>11 DEF PageStep

LEMMA PanelStep == PanelInv /\ [UiNext \/ CalibStep]_<<vars, uiVars>> => PanelInv'
<1> SUFFICES ASSUME PanelInv, UiNext \/ CalibStep \/ UNCHANGED <<vars, uiVars>>
             PROVE  PanelInv'
  OBVIOUS
<1>0. /\ TruthInv /\ SpeechInv /\ PageTypeOK
      /\ channel \in Seq(Message) /\ reply \in Job \cup {NoUser}
      /\ orphans \in Nat /\ reloads \in Nat
  BY DEF PanelInv, TruthInv, PageTypeOK, UiTypeOK, Message
<1>1. TruthInv'
  BY <1>0, TruthStep
<1>2. ASSUME Unsaid PROVE reloads' = 0 => PageInv'
  BY <1>0, <1>2, UnsaidKeeps DEF Unsaid, PanelInv
<1>3. ASSUME NEW j \in Job, NEW kind \in Kind, Heralds(j, kind)
      PROVE  reloads' = 0 => PageInv'
  BY <1>0, <1>3, HeraldsKeeps DEF Heralds, PanelInv
<1>4. ASSUME NEW j \in Job, Accepts(j) PROVE reloads' = 0 => PageInv'
  BY <1>0, <1>4, AcceptsKeeps DEF Accepts, PanelInv
<1>5. ASSUME PageStep, UNCHANGED vars PROVE reloads' = 0 => PageInv'
  <2>1. reloads' = 0 => reloads = 0
    BY <1>0, <1>5
       DEF PageStep, ClickSlice, StartRejected, OrphanRejected, StartReplies, Deliver,
           ClickCancel, Reload, StatusRead, Resume, CancelRefused
  <2> QED
    BY <1>0, <1>5, <2>1, PageKeeps DEF PanelInv
<1> QED
  BY <1>0, <1>1, <1>2, <1>3, <1>4, <1>5, BackendShapes DEF UiNext, PanelInv

(* UiSpec with calibrations that may slice at any time.                     *)
PanelSpec == UiInit /\ [][UiNext \/ CalibStep]_<<vars, uiVars>>

LEMMA PanelInvariant == PanelSpec => []PanelInv
  BY PanelInit, PanelStep, PTL DEF PanelSpec

LEMMA PanelInvHolds ==
  ASSUME PanelInv
  PROVE  UiTypeOK /\ OutcomeIsTrue /\ OneJobPerPage /\ (reloads = 0 => PanelIsTrue)
<1>1. UiTypeOK /\ OutcomeIsTrue
  BY DEF PanelInv, TruthInv, PageTypeOK
<1>2. OneJobPerPage
  BY DEF PanelInv, PageInv, OnePending, Pending, UnderWay, OneJobPerPage
<1>3. reloads = 0 => RunningIsLive
  <2> SUFFICES ASSUME PageInv, Settled, ui.status = "running" PROVE Working(ui.job)
    BY DEF PanelInv, RunningIsLive
  <2>1. 1..Len(channel) = {}
    BY DEF Settled
  <2> QED
    BY <2>1 DEF PageInv, RunningIsPending, UnderWay
<1> QED
  BY <1>1, <1>2, <1>3 DEF PanelIsTrue

(* Whatever is reloaded, an outcome the panel shows for a job is that job's *)
(* (reducer.ts:40 reduce, useSliceJob.ts:34).                               *)
THEOREM OutcomesAreTrue == PanelSpec => [](UiTypeOK /\ OutcomeIsTrue)
  BY PanelInvariant, PanelInvHolds, PTL

(* A page that was not reloaded has one job at most, and a panel at rest    *)
(* that shows Running shows a worker at work (useSliceJob.ts:101 start).    *)
THEOREM PanelsAreTrue == UiSpec => [](reloads = 0 => PanelIsTrue)
<1>1. UiSpec => PanelSpec
  BY PTL DEF UiSpec, PanelSpec
<1>2. PanelInv => (reloads = 0 => PanelIsTrue)
  BY PanelInvHolds
<1> QED
  BY <1>1, <1>2, PanelInvariant, PTL

=============================================================================
