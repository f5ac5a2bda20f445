------------------------------- MODULE SliceUi -------------------------------
(***************************************************************************)
(* The slice panel against the orchestrator: the reducer of                *)
(* src/slice/reducer.ts and the hook of src/slice/useSliceJob.ts, composed *)
(* with SliceJobs through the slice:* event channel and the invoke()       *)
(* replies.  Events arrive in emission order; a reply is a message of its  *)
(* own and may overtake, or be overtaken by, the events of its job.        *)
(***************************************************************************)
EXTENDS SliceJobs

CONSTANT MaxReloads  \* page reloads: bounds the model

ASSUME ReloadsAssumption == MaxReloads \in Nat

VARIABLES
  ui,        \* SliceState: status and job_id of the reducer
  channel,   \* slice:* events emitted and not yet dispatched
  invoking,  \* the page awaits slice_active_plate, not yet accepted
  orphans,   \* slice_active_plate commands whose page is gone
  reply,     \* the accepted job whose id is on its way to the page
  asks,      \* slice_cancel commands invoked and not yet executed
  stored,    \* localStorage n3o.slice.last_job_id
  resume,    \* the slice_status round trip of the mount effect
  reloads

pageVars == <<ui, invoking, reply, stored, resume>>
uiVars   == <<pageVars, channel, orphans, asks, reloads>>

InFlight   == {"starting", "running", "cancelling"}
UiStatus   == InFlight \cup {"idle", "complete", "failed", "cancelled"}
initialState == [status |-> "idle", job |-> NoUser]
NoResume   == [step |-> "none", job |-> NoUser, status |-> "none"]

PageInit ==
  /\ ui = initialState
  /\ channel = <<>>
  /\ invoking = FALSE /\ orphans = 0 /\ reply = NoUser
  /\ asks = {} /\ stored = NoUser /\ resume = NoResume
UiInit == Init /\ PageInit /\ reloads = 0

-----------------------------------------------------------------------------
(* reducer.ts *)
ReduceStart(job) == [status |-> "starting", job |-> job]

ReduceCancelRequested(s) ==
  IF s.status \in {"running", "starting"}
  THEN [s EXCEPT !.status = "cancelling"] ELSE s

ApplyEventForgetsFailed(s, e) ==
  IF s.job # NoUser /\ e.job # s.job THEN s
  ELSE CASE e.kind = "PlateStarted"  -> [status |-> "running", job |-> e.job]
         [] e.kind = "PlateProgress" ->
              IF s.status = "cancelling" THEN s
              ELSE [s EXCEPT !.status = "running"]
         [] e.kind = "JobFinished"   -> [s EXCEPT !.status = "complete"]
         [] e.kind = "Cancelled"     -> [s EXCEPT !.status = "cancelled"]
         [] OTHER -> s

ApplyEvent(s, e) ==
  IF s.job # NoUser /\ e.job # s.job THEN s
  ELSE CASE e.kind = "PlateStarted"  -> [status |-> "running", job |-> e.job]
         [] e.kind = "PlateProgress" ->
              IF s.status = "cancelling" THEN s
              ELSE [s EXCEPT !.status = "running"]
         [] e.kind = "JobFinished"   -> [s EXCEPT !.status = "complete"]
         [] e.kind = "JobFailed"     -> [s EXCEPT !.status = "failed"]
         [] e.kind = "Cancelled"     -> [s EXCEPT !.status = "cancelled"]
         [] OTHER -> s

-----------------------------------------------------------------------------
(* The page.  Each of these leaves the backend alone. *)

ClickSliceUngated ==
  /\ ~invoking /\ reply = NoUser
  /\ ui' = ReduceStart(NoUser)
  /\ invoking' = TRUE
  /\ UNCHANGED <<channel, orphans, reply, asks, stored, resume, reloads>>

(* The Slice button, disabled while a slice is in flight or start() has    *)
(* not returned; start() shows the window before the backend has a job.    *)
ClickSlice ==
  /\ ui.status \notin InFlight
  /\ ~invoking /\ reply = NoUser
  /\ ui' = ReduceStart(NoUser)
  /\ invoking' = TRUE
  /\ UNCHANGED <<channel, orphans, reply, asks, stored, resume, reloads>>

(* slice_active_plate rejects (gate, compose, output dir): start() resets. *)
StartRejected ==
  /\ invoking
  /\ invoking' = FALSE
  /\ ui' = initialState
  /\ UNCHANGED <<channel, orphans, reply, asks, stored, resume, reloads>>

OrphanRejected ==
  /\ orphans > 0
  /\ orphans' = orphans - 1
  /\ UNCHANGED <<pageVars, channel, asks, reloads>>

StartReplies ==
  /\ reply # NoUser
  /\ stored' = reply
  /\ ui' = ReduceStart(reply)
  /\ reply' = NoUser
  /\ UNCHANGED <<channel, invoking, orphans, asks, resume, reloads>>

Deliver ==
  /\ channel # <<>>
  /\ ui' = ApplyEvent(ui, Head(channel))
  /\ channel' = Tail(channel)
  /\ UNCHANGED <<invoking, orphans, reply, asks, stored, resume, reloads>>

(* The Cancel button of the progress window; nothing happens before the    *)
(* job id is known.                                                        *)
ClickCancel ==
  /\ ui.status \in InFlight \ {"cancelling"}
  /\ ui.job # NoUser
  /\ ui' = ReduceCancelRequested(ui)
  /\ asks' = asks \cup {ui.job}
  /\ UNCHANGED <<channel, invoking, orphans, reply, stored, resume, reloads>>

(* The window reloads: the page state, the replies under way and the       *)
(* undispatched events are lost; the mount effect asks for the stored job. *)
Reload ==
  /\ reloads < MaxReloads
  /\ reloads' = reloads + 1
  /\ ui' = initialState
  /\ channel' = <<>>
  /\ invoking' = FALSE /\ reply' = NoUser
  /\ orphans' = orphans + (IF invoking THEN 1 ELSE 0)
  /\ resume' = IF stored = NoUser THEN NoResume
               ELSE [step |-> "asked", job |-> stored, status |-> "none"]
  /\ UNCHANGED <<asks, stored>>

(* slice_status runs in the backend; its answer travels to the page. *)
StatusRead ==
  /\ resume.step = "asked"
  /\ resume' = [resume EXCEPT !.step = "answered",
                  !.status = IF resume.job \in registered
                             THEN status[resume.job] ELSE "unknown"]
  /\ UNCHANGED <<ui, invoking, reply, stored, channel, orphans, asks, reloads>>

(* Only a Running snapshot resumes: start, then a synthetic PlateProgress. *)
Resume ==
  /\ resume.step = "answered"
  /\ IF resume.status = "Running"
     THEN ui' = [status |-> "running", job |-> resume.job] /\ UNCHANGED stored
     ELSE stored' = NoUser /\ UNCHANGED ui
  /\ resume' = NoResume
  /\ UNCHANGED <<invoking, reply, channel, orphans, asks, reloads>>

(* slice_cancel for a job the registry no longer has is refused; the page  *)
(* swallows the error.                                                     *)
CancelRefused ==
  \E j \in asks \ registered :
    /\ call = NoCall
    /\ asks' = asks \ {j}
    /\ UNCHANGED <<pageVars, channel, orphans, reloads>>

PageStep ==
  \/ ClickSlice \/ StartRejected \/ OrphanRejected \/ StartReplies \/ Deliver
  \/ ClickCancel \/ Reload \/ StatusRead \/ Resume \/ CancelRefused

-----------------------------------------------------------------------------
(* The backend.  Whatever a worker's sink emits goes on the channel. *)

Forward ==
  IF log' = log THEN UNCHANGED channel
  ELSE \E j \in Job :
         /\ log'[j] # log[j]
         /\ channel' = Append(channel, [job  |-> j,
                                        kind |-> log'[j][Len(log'[j])].kind])

(* An accepted slice_active_plate: the id goes back to the page that asked,*)
(* if it is still there.                                                   *)
StartAccepted(j) ==
  /\ StartJob(j)
  /\ \/ invoking /\ invoking' = FALSE /\ reply' = j /\ UNCHANGED orphans
     \/ orphans > 0 /\ orphans' = orphans - 1 /\ UNCHANGED <<invoking, reply>>
  /\ UNCHANGED <<ui, channel, asks, stored, resume, reloads>>

CancelAccepted(j) ==
  /\ j \in asks
  /\ CancelFlag(j)
  /\ asks' = asks \ {j}
  /\ UNCHANGED <<pageVars, channel, orphans, reloads>>

Forwarded == Forward /\ UNCHANGED <<pageVars, orphans, asks, reloads>>

BackendStep ==
  \/ \E j \in Job : \/ StartAccepted(j) \/ CancelAccepted(j)
                    \/ (WorkerStep(j) \/ Tick(j)) /\ Forwarded
  \/ \E u \in User : EngineStepOf(u) /\ UNCHANGED uiVars
  \/ (CancelMark \/ CancelAbort) /\ UNCHANGED uiVars

UiNext == BackendStep \/ (PageStep /\ UNCHANGED vars)

UiSpec == UiInit /\ [][UiNext]_<<vars, uiVars>>

(* The backend's fairness, and a page and a channel that keep up.  The     *)
(* user never has to click.                                                *)
UiFairness ==
  /\ \A j \in Job :
       /\ WF_<<vars, uiVars>>((WorkerStep(j) /\ Forwarded)
                              \/ (EngineStepOf(j) /\ UNCHANGED uiVars))
       /\ WF_<<vars, uiVars>>(StartAccepted(j))
  /\ WF_<<vars, uiVars>>((CancelMark \/ CancelAbort) /\ UNCHANGED uiVars)
  /\ WF_<<vars, uiVars>>((StartReplies \/ Deliver) /\ UNCHANGED vars)

UiFairSpec == UiSpec /\ UiFairness

-----------------------------------------------------------------------------
UiTypeOK ==
  /\ ui \in [status : UiStatus, job : Job \cup {NoUser}]
  /\ channel \in Seq([job : Job, kind : Kind])
  /\ invoking \in BOOLEAN /\ orphans \in 0..MaxReloads
  /\ reply \in Job \cup {NoUser} /\ stored \in Job \cup {NoUser}
  /\ asks \in SUBSET Job
  /\ resume.step \in {"none", "asked", "answered"}
  /\ reloads \in 0..MaxReloads

Heard(j, kind) == \E i \in 1..Len(log[j]) : log[j][i].kind = kind
Working(j) == pc[j] \notin {"unborn"} \cup AtRest

(* Nothing is on its way to the page: what it shows will stay. *)
Settled ==
  channel = <<>> /\ ~invoking /\ reply = NoUser /\ resume.step = "none"

(* An outcome the panel shows for a job it has bound is that job's outcome.*)
OutcomeIsTrue ==
  ui.job # NoUser =>
    /\ ui.status = "complete"  => Heard(ui.job, "JobFinished")
    /\ ui.status = "failed"    => Heard(ui.job, "JobFailed")
    /\ ui.status = "cancelled" => Heard(ui.job, "Cancelled")

(* One page never has two jobs in the backend: the button is disabled from *)
(* the click to the terminal event, so the process-wide cancel of          *)
(* slice_cancel can only meet a foreign job after a reload (or while a     *)
(* calibration slices).                                                    *)
OneJobPerPage ==
  reloads = 0 => \A j, k \in Job : Working(j) /\ Working(k) => j = k

(* A panel that shows Running, with nothing under way to change that, shows*)
(* a worker that is still at work.                                         *)
RunningIsLive ==
  Settled /\ ui.status = "running" => Working(ui.job)

(* A running panel does not run for ever: its job's terminal event gets    *)
(* through.  (After a reload it may.)                       *)
RunningEnds ==
  (ui.status = "running" /\ reloads = 0) ~> (ui.status # "running" \/ reloads > 0)

(* What the panel shows of a job is so, however replies and events race, and the    *)
(* page never has two jobs (reducer.ts:40 reduce, useSliceJob.ts:101 start).        *)
PanelIsTrue == OutcomeIsTrue /\ OneJobPerPage /\ RunningIsLive

(* A page that is reloaded in the middle of a slice shows no outcome that did not   *)
(* happen, and one that is not stops showing Running (useSliceJob.ts:34).           *)
PageRecovers == [](UiTypeOK /\ OutcomeIsTrue) /\ RunningEnds
=============================================================================
