------------------------------- MODULE CameraStream -------------------------------
(***************************************************************************)
(* A live camera (core/driver/camera.rs).  The panel starts a worker when   *)
(* it is shown (src/driver/useCameraStream.ts) and stops it when it is not; *)
(* a worker is cancelled cooperatively, so that it can still release the    *)
(* camera.  The Snapmaker U1 writes frames only while it is in monitor mode *)
(* (snapmaker/camera.rs): a wake task sends start_monitor, again every      *)
(* minute, over whatever link the printer's driver has, and the teardown    *)
(* sends stop_monitor; the printer leaves the mode on its own when nothing  *)
(* has asked for it for six minutes.                                        *)
(***************************************************************************)
EXTENDS Naturals

CONSTANTS
    Workers,        \* how many workers are ever started
    LinkChanges,    \* how often the driver's link comes or goes
    Frames          \* how many frames the camera writes

ASSUME CameraAssumption == Workers \in Nat /\ LinkChanges \in Nat /\ Frames \in Nat

VARIABLES
    watching,       \* the panel is shown
    worker,         \* of each worker: where it is
    cancelled,      \* the workers whose token is cancelled
    current,        \* the worker in the manager's map, 0 for none
    wake,           \* of each worker: what its wake task is about to do
    monitor,        \* the printer is in monitor mode
    linked,         \* the driver has a control plane
    linkLeft,
    frame,          \* the last frame the camera wrote
    modified,       \* of each worker: the Last-Modified it polls with
    view            \* the frame on the panel, 0 for none

cameraVars ==
    <<watching, worker, cancelled, current, wake, monitor, linked, linkLeft, frame, modified, view>>

CameraInit ==
    /\ watching = FALSE /\ current = 0 /\ cancelled = {} /\ monitor = FALSE
    /\ worker = [w \in 1..Workers |-> "none"] /\ wake = [w \in 1..Workers |-> "off"]
    /\ linked = TRUE /\ linkLeft = LinkChanges
    /\ frame = 0 /\ modified = [w \in 1..Workers |-> 0] /\ view = 0

Unused == {w \in 1..Workers : worker[w] = "none"}

\* install: the new worker's token replaces the old one, which is cancelled.
Install(w) ==
    /\ current' = w
    /\ cancelled' = cancelled \cup ({current} \ {0})

\* camera_start, from the effect of a panel that is shown.
CameraStart ==
    /\ ~watching /\ watching' = TRUE /\ view' = 0
    /\ \E w \in Unused :
          /\ \A v \in Unused : w <= v
          /\ worker' = [worker EXCEPT ![w] = "spawned"] /\ Install(w)
    /\ UNCHANGED <<wake, monitor, linked, linkLeft, frame, modified>>

\* CameraManager::stop
Stop == current' = 0 /\ cancelled' = cancelled \cup ({current} \ {0})

\* camera_stop, from the cleanup of the effect: the panel is hidden, the
\* printer's address or its pairing has changed.
CameraStop ==
    /\ watching /\ watching' = FALSE /\ view' = 0 /\ Stop
    /\ UNCHANGED <<worker, wake, monitor, linked, linkLeft, frame, modified>>

\* The page is reloaded: no cleanup runs, and what is sent on the channel of a
\* page that is gone does not fail.
Reload ==
    /\ watching /\ watching' = FALSE /\ view' = 0
    /\ UNCHANGED <<worker, cancelled, current, wake, monitor, linked, linkLeft, frame, modified>>

(***************************************************************************)
(* run_worker                                                              *)
(***************************************************************************)
\* setup spawns the wake task, unless the worker was cancelled before.
Begin(w) ==
    /\ worker[w] = "spawned"
    /\ IF w \in cancelled
       THEN worker' = [worker EXCEPT ![w] = "gone"] /\ UNCHANGED wake
       ELSE worker' = [worker EXCEPT ![w] = "streaming"] /\ wake' = [wake EXCEPT ![w] = "send"]
    /\ UNCHANGED <<watching, cancelled, current, monitor, linked, linkLeft, frame, modified, view>>

\* mutant: the camera is asked once
WakeOnce(w) ==
    /\ wake[w] = "send" /\ linked
    /\ monitor' = TRUE /\ wake' = [wake EXCEPT ![w] = "sent"]
    /\ UNCHANGED <<watching, worker, cancelled, current, linked, linkLeft, frame, modified, view>>

\* wake_task: sent, it is sent again a minute later; not sent, it is tried again.
Wake(w) ==
    /\ wake[w] \in {"send", "sleep"} /\ linked
    /\ monitor' = TRUE /\ wake' = [wake EXCEPT ![w] = "sleep"]
    /\ UNCHANGED <<watching, worker, cancelled, current, linked, linkLeft, frame, modified, view>>

\* poll_frame: what was not modified since the last poll is not sent.
PollFrame(w) ==
    /\ worker[w] = "streaming" /\ w \notin cancelled /\ frame # modified[w]
    /\ modified' = [modified EXCEPT ![w] = frame]
    /\ view' = IF watching /\ w = current THEN frame ELSE view
    /\ UNCHANGED <<watching, worker, cancelled, current, wake, monitor, linked, linkLeft, frame>>

\* Cancelled: teardown aborts the wake task ...
TearDown(w) ==
    /\ worker[w] = "streaming" /\ w \in cancelled
    /\ worker' = [worker EXCEPT ![w] = "leaving"] /\ wake' = [wake EXCEPT ![w] = "off"]
    /\ UNCHANGED <<watching, cancelled, current, monitor, linked, linkLeft, frame, modified, view>>

\* ... and releases the camera, whoever is watching now: one send, which may
\* find no link.
Release(w) ==
    /\ worker[w] = "leaving" /\ worker' = [worker EXCEPT ![w] = "gone"]
    /\ monitor' = (monitor /\ ~linked)
    /\ UNCHANGED <<watching, cancelled, current, wake, linked, linkLeft, frame, modified, view>>

(***************************************************************************)
(* The printer and the driver's link to it.                                *)
(***************************************************************************)
Asked == linked /\ \E w \in 1..Workers : wake[w] = "sleep"
Watchdog ==
    /\ monitor /\ ~Asked /\ monitor' = FALSE
    /\ UNCHANGED <<watching, worker, cancelled, current, wake, linked, linkLeft, frame, modified, view>>
Capture ==
    /\ monitor /\ frame < Frames /\ frame' = frame + 1
    /\ UNCHANGED <<watching, worker, cancelled, current, wake, monitor, linked, linkLeft, modified, view>>
LinkChange ==
    /\ linkLeft > 0 /\ linkLeft' = linkLeft - 1 /\ linked' = ~linked
    /\ UNCHANGED <<watching, worker, cancelled, current, wake, monitor, frame, modified, view>>

RunWorker(w) == Begin(w) \/ PollFrame(w) \/ TearDown(w) \/ Release(w)
CameraNext ==
    \/ CameraStart \/ CameraStop \/ Reload \/ Watchdog \/ Capture \/ LinkChange
    \/ \E w \in 1..Workers : RunWorker(w) \/ Wake(w)
CameraSpec == CameraInit /\ [][CameraNext]_cameraVars
CameraFairness ==
    /\ \A w \in 1..Workers : WF_cameraVars(RunWorker(w)) /\ WF_cameraVars(Wake(w))
    /\ WF_cameraVars(Watchdog)

(***************************************************************************)
(* Properties.                                                             *)
(***************************************************************************)
CameraTypeOK ==
    /\ worker \in [1..Workers -> {"none", "spawned", "streaming", "leaving", "gone"}]
    /\ cancelled \subseteq {w \in 1..Workers : worker[w] # "none"}
    /\ \A w \in 1..Workers : wake[w] # "off" => worker[w] = "streaming"

\* However often the panel is shown, hidden and reloaded, one worker at most is
\* not told to stop, and it is the one camera_stop would find.
OneCamera == \A w \in 1..Workers : worker[w] # "none" /\ w \notin cancelled => w = current

\* A camera that is watched over a link that holds ends up awake, though the
\* worker it replaced may release it after it was woken: the next heartbeat
\* wakes it again.
WatchedIsAwake == <>[](watching /\ linked => monitor)

\* A camera nobody has a worker for is let go, even when the release finds no
\* link (the printer's own watchdog); one whose page was reloaded and not shown
\* again is kept awake, its worker never learns that its channel is dead.
UnwatchedIsReleased == <>[](current = 0 => ~monitor)

\* A panel that stays shown shows the last frame the camera wrote.
PanelCatchesUp == <>[](watching => view = frame \/ frame = 0)

(* A watched camera is awake and shows its frames in the end, an unwatched one is   *)
(* released, and a printer has one stream (camera.rs:251 start, :288 stop).         *)
CameraIsServed ==
  [](CameraTypeOK /\ OneCamera) /\ WatchedIsAwake /\ UnwatchedIsReleased /\ PanelCatchesUp
===================================================================================
