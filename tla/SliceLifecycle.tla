--------------------------- MODULE SliceLifecycle ---------------------------
(***************************************************************************)
(* What a slice job promises to whoever listens to the slice:* events of   *)
(* src-tauri/src/core/slice/events.rs: a job that was accepted announces   *)
(* its plates in order, each by PlateStarted and, when it is complete, by  *)
(* PlateFinished, and closes with one of JobFinished, JobFailed and        *)
(* Cancelled, the last only if someone asked for it.  A job that fails or  *)
(* is cancelled may leave its last plate open.  Nothing here knows about   *)
(* threads, locks, flags or libslic3r; SliceJobs implements it.            *)
(***************************************************************************)
EXTENDS Naturals, Sequences

CONSTANT Job

VARIABLES
  phase,   \* where the job is between two of its events
  total,   \* number of plates the job was accepted with
  done,    \* plates finished so far
  asked,   \* a cancel was requested
  log      \* the events of the job, oldest first

vars == <<phase, total, done, asked, log>>

Terminal == {"JobFinished", "JobFailed", "Cancelled"}
Chat     == {"PlateProgress", "PlateWarning"}
Kind     == {"PlateStarted", "PlateFinished"} \cup Chat \cup Terminal

(* late: the cancel flag was already up when the event was emitted.  The   *)
(* code has no such field; the properties about cancels are about it.      *)
Event == [kind : Kind, plate : Nat, late : BOOLEAN]

Phase == {"idle", "between", "slicing", "ended"}

Hear(j, kind, plate) ==
  log' = [log EXCEPT ![j] =
            Append(@, [kind |-> kind, plate |-> plate, late |-> asked[j]])]

Init ==
  /\ phase = [j \in Job |-> "idle"]
  /\ total = [j \in Job |-> 0]
  /\ done  = [j \in Job |-> 0]
  /\ asked = [j \in Job |-> FALSE]
  /\ log   = [j \in Job |-> <<>>]

Shift(j, from, to) == phase[j] = from /\ phase' = [phase EXCEPT ![j] = to]

Accept(j) ==
  /\ Shift(j, "idle", "between")
  /\ total'[j] \in Nat \ {0}
  /\ total' = [total EXCEPT ![j] = total'[j]]
  /\ UNCHANGED <<done, asked, log>>

Ask(j) ==
  /\ phase[j] # "idle"
  /\ asked' = [asked EXCEPT ![j] = TRUE]
  /\ UNCHANGED <<phase, total, done, log>>

StartPlate(j) ==
  /\ Shift(j, "between", "slicing")
  /\ done[j] < total[j]
  /\ Hear(j, "PlateStarted", done[j] + 1)
  /\ UNCHANGED <<total, done, asked>>

Chatter(j) ==
  /\ phase[j] = "slicing"
  /\ \E kind \in Chat : Hear(j, kind, done[j] + 1)
  /\ UNCHANGED <<phase, total, done, asked>>

FinishPlate(j) ==
  /\ Shift(j, "slicing", "between")
  /\ Hear(j, "PlateFinished", done[j] + 1)
  /\ done' = [done EXCEPT ![j] = @ + 1]
  /\ UNCHANGED <<total, asked>>

Finish(j) ==
  /\ Shift(j, "between", "ended")
  /\ done[j] = total[j]
  /\ Hear(j, "JobFinished", 0)
  /\ UNCHANGED <<total, done, asked>>

Fail(j) ==
  /\ Shift(j, "slicing", "ended")
  /\ Hear(j, "JobFailed", done[j] + 1)
  /\ UNCHANGED <<total, done, asked>>

Cancel(j) ==
  /\ asked[j]
  /\ done[j] < total[j]
  /\ \/ Shift(j, "between", "ended") /\ Hear(j, "Cancelled", done[j])
     \/ Shift(j, "slicing", "ended") /\ Hear(j, "Cancelled", done[j] + 1)
  /\ UNCHANGED <<total, done, asked>>

(* What the job does by itself once it is accepted. *)
Advance(j) ==
  \/ StartPlate(j) \/ Chatter(j) \/ FinishPlate(j)
  \/ Finish(j) \/ Fail(j) \/ Cancel(j)

Next == \E j \in Job : Accept(j) \/ Ask(j) \/ Advance(j)

Spec == Init /\ [][Next]_vars

FairSpec == Spec /\ \A j \in Job : WF_vars(Advance(j))

-----------------------------------------------------------------------------
TypeOK ==
  /\ phase \in [Job -> Phase]
  /\ total \in [Job -> Nat]
  /\ done  \in [Job -> Nat]
  /\ asked \in [Job -> BOOLEAN]
  /\ log   \in [Job -> Seq(Event)]

(* A terminal event is the last event of its job: one outcome, and nothing *)
(* after it.                                                               *)
OneOutcome ==
  \A j \in Job : \A i \in 1..Len(log[j]) :
    log[j][i].kind \in Terminal => i = Len(log[j])

=============================================================================
