----------------------------- MODULE SliceOutput -----------------------------
(***************************************************************************)
(* What the page keeps of a slice once it is done: the path Send and       *)
(* Export take (src/slice/useLastSliceOutput.ts) and the loaded preview    *)
(* (src/preview/useSlicePreviewBridge.ts), both keyed by plate id and      *)
(* dropped on edit events (src/project/editEvents.ts), against the edits,  *)
(* the plate list and the slices of the backend.                           *)
(*                                                                         *)
(* The jobs are those of SliceLifecycle, which the orchestrator            *)
(* implements; progress and warnings do not matter here.  Sync commands    *)
(* run one at a time on the main thread, in the order they were invoked,   *)
(* and what the backend sends reaches the page in the order it was sent.   *)
(***************************************************************************)
EXTENDS SliceLifecycle, FiniteSets, FiniteSetsExt, SequencesExt

CONSTANTS
  MaxPlate,  \* largest plate id: bounds AddPlate
  MaxEdits,  \* changes of a plate's content: bounds the model
  MaxCancels, \* jobs a cancel is asked for: bounds the model
  NoJob

ASSUME OutputAssumption ==
  /\ MaxPlate \in Nat \ {0} /\ MaxEdits \in Nat /\ MaxCancels \in Nat
  /\ Job \subseteq Nat \ {0} /\ NoJob \notin Job

VARIABLES
  live,      \* ids of the project's plates
  unbound,   \* those of them without a printer
  content,   \* content[p]: stamp of what a slice of p would read
  clock,     \* changes so far
  unsent,    \* plates changed by a command that has not emitted yet
  inbox,     \* commands invoked and not yet run by the main thread
  preparing, \* slice_active_plate is on the blocking pool
  ready,     \* jobs whose input is built and whose worker is not started
  target,    \* target[j]: the plate job j slices
  snapshot,  \* snapshot[j]: the content it read
  handles,   \* jobs whose preview is in PreviewRegistry
  channel,   \* events and replies on their way to the page
  busy,      \* the page's slice in flight, from the click to the outcome
  path,      \* useLastSliceOutput's paths
  preview,   \* useSlicePreviewBridge's cache
  overtaken  \* jobs whose plate changed under them or unheard (for the properties)

editVars  == <<live, unbound, content, clock, unsent, overtaken>>
sliceVars == <<vars, preparing, ready, target, snapshot>>
pageVars  == <<busy, path, preview>>
outVars   == <<sliceVars, editVars, pageVars, inbox, handles, channel>>

PlateId == 1..MaxPlate
All     == 0    \* the plate of a project-wide event

OutInit ==
  /\ Init
  /\ live = {1} /\ unbound = {}
  /\ content = [p \in PlateId |-> 0] /\ clock = 0 /\ unsent = {}
  /\ inbox = <<>> /\ preparing = FALSE /\ ready = {}
  /\ target = [j \in Job |-> 1] /\ snapshot = [j \in Job |-> 0]
  /\ handles = {} /\ channel = <<>> /\ busy = FALSE
  /\ path = [p \in PlateId |-> NoJob] /\ preview = [p \in PlateId |-> NoJob]
  /\ overtaken = {}

Message(kind, plate, job) == [kind |-> kind, plate |-> plate, job |-> job]
Send(kind, plate, job) == channel' = Append(channel, Message(kind, plate, job))

-----------------------------------------------------------------------------
(* The page.  The two hooks see the same dispatch; what they drop from     *)
(* their caches, and the preview_drop calls it costs.                      *)
ClickSlice ==
  /\ ~busy
  /\ busy' = TRUE
  /\ inbox' = Append(inbox, Message("slice", All, NoJob))
  /\ UNCHANGED <<sliceVars, editVars, handles, channel, path, preview>>

DropCalls(S) ==
  SetToSeq({Message("drop", p, preview[p]) : p \in {q \in S : preview[q] # NoJob}})

Without(cache, S) == [p \in PlateId |-> IF p \in S THEN NoJob ELSE cache[p]]

ForgetQuietly(S) ==
  /\ path' = Without(path, S)
  /\ preview' = Without(preview, S)
  /\ UNCHANGED <<inbox, busy>>

ForgetPreviewOnly(S) ==
  /\ preview' = Without(preview, S)
  /\ inbox' = inbox \o DropCalls(S)
  /\ UNCHANGED <<path, busy>>

Forget(S) ==
  /\ path' = Without(path, S)
  /\ preview' = Without(preview, S)
  /\ inbox' = inbox \o DropCalls(S)
  /\ UNCHANGED busy

OnPlateStarted(e) == e.kind = "PlateStarted" /\ Forget({e.plate})

(* The path is the new slice's at once.  Its preview is asked for, and a   *)
(* cached one dropped but left in the cache until the answer.              *)
OnPlateFinished(e) ==
  /\ e.kind = "PlateFinished"
  /\ path' = [path EXCEPT ![e.plate] = e.job]
  /\ inbox' = inbox \o DropCalls({e.plate}) \o <<Message("load", e.plate, e.job)>>
  /\ UNCHANGED <<busy, preview>>

OnLoaded(e) ==
  /\ e.kind = "Loaded"
  /\ preview' = [preview EXCEPT ![e.plate] = e.job]
  /\ UNCHANGED <<busy, path, inbox>>

(* A plate edit, or one of the events listenPlateEdits sends to onAll. *)
OnEdited(e) ==
  /\ e.kind = "Edited"
  /\ Forget(IF e.plate = All THEN PlateId ELSE {e.plate})

(* The job's outcome, or the rejection of slice_active_plate. *)
OnOutcome(e) ==
  /\ e.kind \in Terminal \cup {"Rejected"}
  /\ busy' = FALSE
  /\ UNCHANGED <<path, preview, inbox>>

Deliver ==
  /\ channel # <<>>
  /\ channel' = Tail(channel)
  /\ LET e == Head(channel)
     IN  \/ OnPlateStarted(e) \/ OnPlateFinished(e) \/ OnLoaded(e)
         \/ OnEdited(e) \/ OnOutcome(e)
  /\ UNCHANGED <<sliceVars, editVars, handles>>

-----------------------------------------------------------------------------
(* The main thread.  It is free unless a command has still to emit.        *)
MainThreadFree == unsent = {}

Run(command) ==
  /\ MainThreadFree
  /\ inbox # <<>>
  /\ Head(inbox).kind = command
  /\ inbox' = Tail(inbox)

(* Jobs that have read their plate and not yet reported it finished. *)
Reading(p) ==
  {j \in ready \cup {k \in Job : phase[k] \in {"between", "slicing"}} :
     target[j] = p /\ done[j] = 0}

(* Jobs that have read a plate, whatever became of them. *)
Used == ready \cup {j \in Job : phase[j] # "idle"}

Stamp(S) ==
  /\ clock < MaxEdits
  /\ clock' = clock + 1
  /\ content' = [p \in PlateId |-> IF p \in S THEN clock + 1 ELSE content[p]]

Touch(S) == Stamp(S) /\ overtaken' = overtaken \cup UNION {Reading(p) : p \in S}

(* An edit command changes the project under the session lock and emits    *)
(* when it has dropped it.  A plate edit may be the one that binds its     *)
(* printer; a project-wide one is a user override, a load, an undo.        *)
EditPlate(p) ==
  /\ MainThreadFree
  /\ p \in live
  /\ Touch({p})
  /\ unbound' \in {unbound, unbound \ {p}}
  /\ unsent' = {p}
  /\ UNCHANGED <<sliceVars, pageVars, live, inbox, handles, channel>>

EditProject ==
  /\ MainThreadFree
  /\ Touch(live)
  /\ unsent' = {All}
  /\ UNCHANGED <<sliceVars, pageVars, live, unbound, inbox, handles, channel>>

(* What a slice reads lies outside the project too, and such a change      *)
(* emits no edit: a printer's nozzle, bed, filaments, overrides and        *)
(* calibration (printer:instance_changed), a filament's overrides          *)
(* (filament:changed), user_process_revert without apply, and a stamped    *)
(* profile for the other plates that use it.  The page keeps what it has.  *)
ChangeUnheard(S) ==
  /\ S # {}
  /\ Stamp(S)
  /\ overtaken' = overtaken \cup {j \in Used : target[j] \in S}
  /\ UNCHANGED <<sliceVars, pageVars, live, unbound, unsent, inbox, handles, channel>>

EmitEdit ==
  \E p \in unsent :
    /\ unsent' = {}
    /\ Send("Edited", p, NoJob)
    /\ UNCHANGED <<sliceVars, pageVars, live, unbound, content, clock, overtaken,
                   inbox, handles>>

(* The last plate stays.  plate_removed is not an edit: no hook hears it. *)
RemovePlate(p) ==
  /\ MainThreadFree
  /\ p \in live /\ live # {p}
  /\ live' = live \ {p} /\ unbound' = unbound \ {p}
  /\ overtaken' = overtaken \cup Reading(p)
  /\ UNCHANGED <<sliceVars, pageVars, content, clock, unsent, inbox, handles,
                 channel>>

(* next_plate_id is the largest plus one, so ids come back.  A plate that  *)
(* inherits a printer announces its bed (an edit), an unbound one nothing. *)
AddPlate ==
  LET p == Max(live) + 1
  IN  /\ MainThreadFree
      /\ p \in PlateId
      /\ Touch({p})
      /\ live' = live \cup {p}
      /\ \/ unsent' = {p} /\ UNCHANGED unbound
         \/ unbound' = unbound \cup {p} /\ UNCHANGED unsent
      /\ UNCHANGED <<sliceVars, pageVars, inbox, handles, channel>>

(* preview_load parses the job's file into the registry, unless it fails. *)
RunLoad ==
  /\ Run("load")
  /\ LET e == Head(inbox)
     IN  \/ handles' = handles \cup {e.job} /\ Send("Loaded", e.plate, e.job)
         \/ UNCHANGED <<handles, channel>>
  /\ UNCHANGED <<sliceVars, editVars, pageVars>>

RunDrop ==
  /\ Run("drop")
  /\ handles' = handles \ {Head(inbox).job}
  /\ UNCHANGED <<sliceVars, editVars, pageVars, channel>>

RunSlice ==
  /\ Run("slice")
  /\ preparing' = TRUE
  /\ UNCHANGED <<vars, ready, target, snapshot, editVars, pageVars, handles, channel>>

-----------------------------------------------------------------------------
(* slice_active_plate on the blocking pool: the plate is chosen and read   *)
(* under the session lock, the input is built off it, the job is started.  *)
ReadPlate(j) ==
  /\ preparing
  /\ j = Cardinality(Used) + 1
  /\ \E p \in live \ unbound :
       /\ target' = [target EXCEPT ![j] = p]
       /\ snapshot' = [snapshot EXCEPT ![j] = content[p]]
  /\ preparing' = FALSE
  /\ ready' = ready \cup {j}
  /\ UNCHANGED <<vars, editVars, pageVars, inbox, handles, channel>>

(* The gate, or an unbound printer. *)
RejectSlice ==
  /\ preparing
  /\ preparing' = FALSE
  /\ Send("Rejected", All, NoJob)
  /\ UNCHANGED <<vars, ready, target, snapshot, editVars, pageVars, inbox, handles>>

StartReady(j) ==
  /\ j \in ready
  /\ total' = [total EXCEPT ![j] = 1]
  /\ Accept(j)
  /\ ready' = ready \ {j}
  /\ UNCHANGED <<preparing, target, snapshot, editVars, pageVars, inbox, handles,
                 channel>>

(* A cancel of a job that has ended changes nothing the page keeps. *)
CancelReady(j) ==
  /\ phase[j] # "ended" /\ ~asked[j]
  /\ Cardinality({k \in Job : asked[k]}) < MaxCancels
  /\ Ask(j)
  /\ UNCHANGED <<preparing, ready, target, snapshot, editVars, pageVars, inbox,
                 handles, channel>>

(* The worker's events that a hook listens to. *)
Work(j) ==
  /\ StartPlate(j) \/ FinishPlate(j) \/ Finish(j) \/ Fail(j) \/ Cancel(j)
  /\ Send(log'[j][Len(log'[j])].kind, target[j], j)
  /\ UNCHANGED <<preparing, ready, target, snapshot, editVars, pageVars, inbox,
                 handles>>

OutNext ==
  \/ ClickSlice \/ Deliver
  \/ \E p \in PlateId : EditPlate(p) \/ RemovePlate(p)
  \/ EditProject \/ EmitEdit \/ AddPlate
  \/ \E S \in SUBSET live : ChangeUnheard(S)
  \/ RunLoad \/ RunDrop \/ RunSlice \/ RejectSlice
  \/ \E j \in Job : ReadPlate(j) \/ StartReady(j) \/ CancelReady(j) \/ Work(j)

OutSpec == OutInit /\ [][OutNext]_outVars

-----------------------------------------------------------------------------
JobOrNone == Job \cup {NoJob}

OutTypeOK ==
  /\ TypeOK
  /\ live \in (SUBSET PlateId) \ {{}} /\ unbound \subseteq live
  /\ content \in [PlateId -> 0..MaxEdits] /\ clock \in 0..MaxEdits
  /\ unsent \in {{}} \cup {{p} : p \in PlateId \cup {All}}
  /\ inbox \in Seq([kind : {"slice", "load", "drop"}, plate : PlateId \cup {All},
                    job : JobOrNone])
  /\ target \in [Job -> PlateId] /\ snapshot \in [Job -> 0..MaxEdits]
  /\ ready \subseteq Job /\ handles \subseteq Job /\ overtaken \subseteq Job
  /\ path \in [PlateId -> JobOrNone] /\ preview \in [PlateId -> JobOrNone]
  /\ busy \in BOOLEAN /\ preparing \in BOOLEAN

(* Nothing is under way that could still change what the page shows. *)
Calm == channel = <<>> /\ inbox = <<>> /\ unsent = {}

(* What Send and Export take.  A path the page holds on to is of the       *)
(* plate's present content, unless the plate was changed while that very   *)
(* slice was running, or by a change that emits no edit (ChangeUnheard):   *)
(* every other order of edits, re-slices, undo, plates removed and ids     *)
(* reused ends with the path gone.                                         *)
PathIsCurrentUnlessOvertaken ==
  Calm => \A p \in live \ unbound :
    path[p] # NoJob =>
      content[p] = snapshot[path[p]] \/ path[p] \in overtaken

(* A failed, cancelled or running re-slice leaves no older output behind:  *)
(* once a later job has announced the plate, an earlier job's output is    *)
(* never offered again.                                                    *)
NoOlderOutput ==
  Calm => \A p \in PlateId : \A j \in Job :
    /\ path[p] # NoJob /\ path[p] < j /\ target[j] = p
    => log[j] = <<>> \/ log[j][1].kind # "PlateStarted"

(* What is shown is what would be sent: when a plate has both a path and a *)
(* preview, they are of the same slice.                                    *)
ShownIsSent ==
  Calm => \A p \in PlateId :
    path[p] # NoJob /\ preview[p] # NoJob => path[p] = preview[p]

(* Every preview in the registry (250 MB each) has an owner that will drop *)
(* it, and no cached preview was dropped: a handle is live exactly while   *)
(* it is cached, on its way to the cache, or about to be dropped.          *)
HandlesOwned ==
  LET Sent(kind, queue) ==
        {queue[i].job : i \in {k \in DOMAIN queue : queue[k].kind = kind}}
      cached == {preview[p] : p \in PlateId} \ {NoJob}
  IN  handles = cached \cup Sent("Loaded", channel) \cup Sent("drop", inbox)

(* What can be sent is of the latest slice of that plate and of the plate as that   *)
(* slice read it, but for the changes the page cannot know it has missed, and what is *)
(* previewed beside it is the same (useLastSliceOutput.ts:34, useSlicePreviewBridge.ts:59). *)
OutputIsCurrent == OutTypeOK /\ PathIsCurrentUnlessOvertaken /\ NoOlderOutput /\ ShownIsSent
=============================================================================
