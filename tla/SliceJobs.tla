------------------------------ MODULE SliceJobs ------------------------------
(***************************************************************************)
(* The slice orchestrator, src-tauri/src/core/slice/{job,orchestrator,     *)
(* commands}.rs: one worker thread per job, the job registry, the          *)
(* slice_cancel command and the calibration slices that share the engine   *)
(* (SliceEngine) with the jobs.                                            *)
(*                                                                         *)
(* A worker's step ends where another thread could see the difference: at  *)
(* each read of the cancel flag, each write of the status, each event and  *)
(* each engine step.  The cascade, the plugin hooks, the geometry and the  *)
(* G-code are not here: a plate's preparation succeeds or fails.           *)
(***************************************************************************)
EXTENDS SliceEngine, Sequences

CONSTANTS
  MaxPlates,  \* longest plate list a job is started with
  MaxTicks    \* progress callbacks per job: bounds the model

ASSUME BoundsAssumption == MaxPlates \in Nat \ {0} /\ MaxTicks \in Nat

VARIABLES
  plates,      \* plates[j]: length of the job's plate list
  done,        \* plates the worker has finished
  flag,        \* JobHandle.cancel
  status,      \* JobHandle.status, its kind
  registered,  \* keys of JobRegistry.jobs
  log,         \* the events of each job, oldest first
  ticks,       \* progress callbacks so far
  call         \* the slice_cancel command being executed

jobVars == <<plates, done, flag, status, registered, log, ticks, call>>
vars    == <<pc, engineVars, jobVars>>

(* Control points of run_worker outside the engine. *)
BeforePlate == {"check", "begin", "announce", "finishing"}
InPlate     == {"preparing", "precheck", "sliced", "broken", "judgeSliced",
                "judgeBroken", "posthook", "failing"}
AtRest      == {"retained", "pruned"}
WorkerPc    == {"unborn"} \cup BeforePlate \cup InPlate \cup AtRest
CalibPc     == {"idle", "calibrated"}

Status == {"Queued", "Running", "Cancelling", "Finished", "Failed", "Cancelled"}
Terminal == {"JobFinished", "JobFailed", "Cancelled"}
Kind   == Terminal \cup
          {"PlateStarted", "PlateProgress", "PlateWarning", "PlateFinished"}
Event  == [kind : Kind, plate : Nat, late : BOOLEAN]

NoCall == [job |-> NoUser, step |-> "idle"]

Init ==
  /\ EngineInit
  /\ pc = [u \in User |-> IF u \in Job THEN "unborn" ELSE "idle"]
  /\ plates = [j \in Job |-> 0]
  /\ done   = [j \in Job |-> 0]
  /\ flag   = [j \in Job |-> FALSE]
  /\ status = [j \in Job |-> "Queued"]
  /\ registered = {}
  /\ log    = [j \in Job |-> <<>>]
  /\ ticks  = [j \in Job |-> 0]
  /\ call   = NoCall

(* sink(event).  late records, for the properties only, that the cancel    *)
(* flag was up.                                                            *)
Emit(j, kind, plate) ==
  log' = [log EXCEPT ![j] =
            Append(@, [kind |-> kind, plate |-> plate, late |-> flag[j]])]

SetStatus(j, s) == status' = [status EXCEPT ![j] = s]

Plate(j) == done[j] + 1

-----------------------------------------------------------------------------
(* Starting: prepare_job's checks fail before anything is allocated, so    *)
(* only the accepted start is a step.                                      *)
StartJob(j) ==
  /\ Move(j, "unborn", "check")
  /\ \E n \in 1..MaxPlates : plates' = [plates EXCEPT ![j] = n]
  /\ registered' = registered \cup {j}
  /\ UNCHANGED <<engineVars, done, flag, status, log, ticks, call>>

PassCheckPastTheEnd(j) ==
  /\ Move(j, "check", "begin")
  /\ done[j] <= plates[j]
  /\ ~flag[j]
  /\ UNCHANGED <<engineVars, jobVars>>

(* The head of the loop over the plate list. *)
PassCheck(j) ==
  /\ Move(j, "check", "begin")
  /\ done[j] < plates[j]
  /\ ~flag[j]
  /\ UNCHANGED <<engineVars, jobVars>>

CancelAtCheckKeepsGoing(j) ==
  /\ Move(j, "check", "begin")
  /\ done[j] < plates[j]
  /\ flag[j]
  /\ Emit(j, "Cancelled", done[j])
  /\ UNCHANGED <<engineVars, plates, done, flag, status, registered, ticks, call>>

CancelAtCheck(j) ==
  /\ Move(j, "check", "retained")
  /\ done[j] < plates[j]
  /\ flag[j]
  /\ Emit(j, "Cancelled", done[j])
  /\ UNCHANGED <<engineVars, plates, done, flag, status, registered, ticks, call>>

BeginPlate(j) ==
  /\ Move(j, "begin", "announce")
  /\ SetStatus(j, "Running")
  /\ UNCHANGED <<engineVars, plates, done, flag, registered, log, ticks, call>>

AnnouncePlate(j) ==
  /\ Move(j, "announce", "preparing")
  /\ Emit(j, "PlateStarted", Plate(j))
  /\ UNCHANGED <<engineVars, plates, done, flag, status, registered, ticks, call>>

(* Pre-slice hook, safety gate, adapter, model, geometry, paint remap. *)
Prepared(j) ==
  /\ Move(j, "preparing", "precheck")
  /\ UNCHANGED <<engineVars, jobVars>>

PrepareFails(j) ==
  /\ Move(j, "preparing", "failing")
  /\ SetStatus(j, "Failed")
  /\ UNCHANGED <<engineVars, plates, done, flag, registered, log, ticks, call>>

CancelBeforeSlice(j) ==
  /\ Move(j, "precheck", "retained")
  /\ flag[j]
  /\ Emit(j, "Cancelled", Plate(j))
  /\ UNCHANGED <<engineVars, plates, done, flag, status, registered, ticks, call>>

CallSlice(j) ==
  /\ Move(j, "precheck", "waiting")
  /\ ~flag[j]
  /\ UNCHANGED <<engineVars, jobVars>>

(* The progress callback, on a libslic3r thread: the status is overwritten *)
(* whatever it was, the event is subject to the throttle.                  *)
Tick(j) ==
  /\ pc[j] \in {"processing", "exporting"}
  /\ ticks[j] < MaxTicks
  /\ ticks' = [ticks EXCEPT ![j] = @ + 1]
  /\ SetStatus(j, "Running")
  /\ Emit(j, "PlateProgress", Plate(j)) \/ UNCHANGED log
  /\ UNCHANGED <<pc, engineVars, plates, done, flag, registered, call>>

SliceReturns(j) ==
  /\ Release(j, IF pc[j] = "succeeded" THEN "sliced" ELSE "broken")
  /\ UNCHANGED jobVars

(* validate() leaves at most one advisory warning, emitted before the      *)
(* outcome is looked at.                                                   *)
Warn(j) ==
  /\ Move(j, "sliced", "judgeSliced") \/ Move(j, "broken", "judgeBroken")
  /\ Emit(j, "PlateWarning", Plate(j)) \/ UNCHANGED log
  /\ UNCHANGED <<engineVars, plates, done, flag, status, registered, ticks, call>>

CancelAfterSlice(j) ==
  /\ pc[j] \in {"judgeSliced", "judgeBroken"}
  /\ flag[j]
  /\ pc' = [pc EXCEPT ![j] = "retained"]
  /\ Emit(j, "Cancelled", Plate(j))
  /\ UNCHANGED <<engineVars, plates, done, flag, status, registered, ticks, call>>

Accept(j) ==
  /\ Move(j, "judgeSliced", "posthook")
  /\ ~flag[j]
  /\ UNCHANGED <<engineVars, jobVars>>

Reject(j) ==
  /\ Move(j, "judgeBroken", "failing")
  /\ ~flag[j]
  /\ SetStatus(j, "Failed")
  /\ UNCHANGED <<engineVars, plates, done, flag, registered, log, ticks, call>>

(* Post-slice hook and summary, then the event. *)
FinishPlate(j) ==
  /\ Move(j, "posthook", "check")
  /\ Emit(j, "PlateFinished", Plate(j))
  /\ done' = [done EXCEPT ![j] = @ + 1]
  /\ UNCHANGED <<engineVars, plates, flag, status, registered, ticks, call>>

EmitFailed(j) ==
  /\ Move(j, "failing", "retained")
  /\ Emit(j, "JobFailed", Plate(j))
  /\ UNCHANGED <<engineVars, plates, done, flag, status, registered, ticks, call>>

CompleteEarly(j) ==
  /\ Move(j, "check", "finishing")
  /\ done[j] + 1 >= plates[j]
  /\ SetStatus(j, "Finished")
  /\ UNCHANGED <<engineVars, plates, done, flag, registered, log, ticks, call>>

Complete(j) ==
  /\ Move(j, "check", "finishing")
  /\ done[j] = plates[j]
  /\ SetStatus(j, "Finished")
  /\ UNCHANGED <<engineVars, plates, done, flag, registered, log, ticks, call>>

EmitFinished(j) ==
  /\ Move(j, "finishing", "retained")
  /\ Emit(j, "JobFinished", 0)
  /\ UNCHANGED <<engineVars, plates, done, flag, status, registered, ticks, call>>

PruneNothing(j) ==
  /\ Move(j, "retained", "pruned")
  /\ UNCHANGED <<engineVars, jobVars>>

(* After JOB_RETENTION_AFTER_TERMINAL. *)
Prune(j) ==
  /\ Move(j, "retained", "pruned")
  /\ registered' = registered \ {j}
  /\ UNCHANGED <<engineVars, plates, done, flag, status, log, ticks, call>>

-----------------------------------------------------------------------------
(* slice_cancel, three writes in a row on the main thread, where sync      *)
(* commands run one at a time.  An unknown job is refused: no step.        *)
CancelFlag(j) ==
  /\ call = NoCall
  /\ j \in registered
  /\ flag' = [flag EXCEPT ![j] = TRUE]
  /\ call' = [job |-> j, step |-> "mark"]
  /\ UNCHANGED <<pc, engineVars, plates, done, status, registered, log, ticks>>

CancelMark ==
  /\ call.step = "mark"
  /\ SetStatus(call.job, "Cancelling")
  /\ call' = [call EXCEPT !.step = "abort"]
  /\ UNCHANGED <<pc, engineVars, plates, done, flag, registered, log, ticks>>

CancelAbort ==
  /\ call.step = "abort"
  /\ CancelActive
  /\ call' = NoCall
  /\ UNCHANGED <<pc, plates, done, flag, status, registered, log, ticks>>

(* driver_send_pa_calibration slices its test print on the same engine. *)
Calibrate(c) ==
  /\ Move(c, "idle", "waiting")
  /\ UNCHANGED <<engineVars, jobVars>>

CalibrationReturns(c) ==
  /\ Release(c, "calibrated")
  /\ UNCHANGED jobVars

-----------------------------------------------------------------------------
EngineStepOf(u) == EngineStep(u) /\ UNCHANGED jobVars

WorkerStep(j) ==
  \/ PassCheck(j) \/ CancelAtCheck(j) \/ BeginPlate(j) \/ AnnouncePlate(j)
  \/ Prepared(j) \/ PrepareFails(j) \/ CancelBeforeSlice(j) \/ CallSlice(j)
  \/ SliceReturns(j) \/ Warn(j) \/ CancelAfterSlice(j) \/ Accept(j)
  \/ Reject(j) \/ FinishPlate(j) \/ EmitFailed(j) \/ Complete(j)
  \/ EmitFinished(j) \/ Prune(j)

JobNext(j) == StartJob(j) \/ WorkerStep(j) \/ Tick(j) \/ CancelFlag(j)

CalibNext(c) == Calibrate(c) \/ CalibrationReturns(c)

Next ==
  \/ \E j \in Job : JobNext(j)
  \/ \E c \in Calib : CalibNext(c)
  \/ \E u \in User : EngineStepOf(u)
  \/ CancelMark \/ CancelAbort

Spec == Init /\ [][Next]_vars

(* A thread that can run does; process() terminates; the command thread    *)
(* finishes the command it is in.  Nobody has to start or cancel anything. *)
Fairness ==
  /\ \A j \in Job : WF_vars(WorkerStep(j) \/ EngineStepOf(j))
  /\ \A c \in Calib : WF_vars(CalibrationReturns(c) \/ EngineStepOf(c))
  /\ WF_vars(CancelMark \/ CancelAbort)

FairSpec == Spec /\ Fairness

-----------------------------------------------------------------------------
JobTypeOK ==
  /\ plates \in [Job -> 0..MaxPlates]
  /\ done \in [Job -> 0..MaxPlates]
  /\ flag \in [Job -> BOOLEAN]
  /\ status \in [Job -> Status]
  /\ registered \in SUBSET Job
  /\ log \in [Job -> Seq(Event)]
  /\ ticks \in [Job -> 0..MaxTicks]
  /\ call \in [job : Job, step : {"mark", "abort"}] \cup {NoCall}

TypeOK ==
  /\ pc \in [User -> WorkerPc \cup CalibPc \cup EnginePc]
  /\ EngineTypeOK
  /\ JobTypeOK

(* One outcome per job, and silence after it: whichever of the ten exits   *)
(* of run_worker is taken, JobFinished, JobFailed or Cancelled is the last *)
(* event the listeners get.                                                *)
OneOutcome ==
  \A j \in Job : \A i \in 1..Len(log[j]) :
    log[j][i].kind \in Terminal => i = Len(log[j])

(* JobFinished closes a complete run: every plate of the list was reported *)
(* finished, each once and in the order of the list.                       *)
FinishesOf(j) == {i \in 1..Len(log[j]) : log[j][i].kind = "PlateFinished"}

FinishedIsComplete ==
  \A j \in Job :
    (\E i \in 1..Len(log[j]) : log[j][i].kind = "JobFinished")
      => /\ {log[j][i].plate : i \in FinishesOf(j)} = 1..plates[j]
         /\ \A i, k \in FinishesOf(j) : i < k => log[j][i].plate < log[j][k].plate

(* What a cancel can still let through.  After the flag is up the worker   *)
(* reports at most one more plate boundary: the PlateStarted it was about  *)
(* to send, or the PlateFinished of a plate whose slice had already been   *)
(* accepted, never a plate both started and finished.                      *)
CancelIsPrompt ==
  \A j \in Job : \A i, k \in 1..Len(log[j]) :
    LET Late(n) == /\ log[j][n].late
                   /\ log[j][n].kind \in {"PlateStarted", "PlateFinished"}
    IN  Late(i) /\ Late(k) => i = k

(* The registry serves a slice_status racing the terminal event: a job     *)
(* stays registered as long as its worker may still speak, and a Failed or *)
(* Finished status never precedes the last plate event.                    *)
StatusServesTheWorker ==
  \A j \in Job :
    /\ pc[j] \notin {"unborn", "pruned"} => j \in registered
    /\ status[j] = "Finished" => pc[j] \in {"finishing"} \cup AtRest
    /\ status[j] = "Failed" => pc[j] \in {"failing"} \cup AtRest

(* Every accepted job ends and its handle leaves the registry, whatever is *)
(* cancelled and whoever queues on SLICE_LOCK.                             *)
RegistryDrains ==
  \A j \in Job : (j \in registered) ~> (j \notin registered)

(* The same jobs as their listeners see them. *)
PhaseOf(p) ==
  CASE p = "unborn" -> "idle"
    [] p \in BeforePlate -> "between"
    [] p \in AtRest -> "ended"
    [] OTHER -> "slicing"

Lifecycle == INSTANCE SliceLifecycle WITH
  phase <- [j \in Job |-> PhaseOf(pc[j])],
  total <- plates,
  asked <- flag

(* The orchestrator implements the lifecycle of SliceLifecycle. *)
ImplementsLifecycle == Lifecycle!FairSpec

(* What a listener makes of a job's events is so: a finished job reported every     *)
(* plate once and in order, a cancelled one stops at the next boundary, and a job   *)
(* can be asked about as long as its worker speaks (orchestrator.rs:622 run_worker, *)
(* job.rs:124 JobRegistry).                                                         *)
WorkerIsHonest == FinishedIsComplete /\ CancelIsPrompt /\ StatusServesTheWorker
=============================================================================
