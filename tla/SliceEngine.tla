----------------------------- MODULE SliceEngine -----------------------------
(***************************************************************************)
(* The libslic3r side of a slice: slice_outcome_calib in                   *)
(* crates/slic3r-ffi/src/lib.rs and slic3r_slice / slic3r_cancel in        *)
(* crates/slic3r-ffi/ffi/slic3r_ffi.cpp.  Everything process-global lives  *)
(* here: the Rust SLICE_LOCK, the published Print (g_active_print) with    *)
(* its cancel flag, and the one-shot calibration arming (g_calib_armed).   *)
(*                                                                         *)
(* Two kinds of thread call the engine: the workers of slice jobs (Job)    *)
(* and the pressure-advance calibration commands (Calib).  pc is shared    *)
(* with the module of the callers, which owns the other control points.    *)
(***************************************************************************)
EXTENDS Naturals

CONSTANTS
  Job,     \* slice jobs
  Calib,   \* pressure-advance calibration slices
  NoUser   \* "nobody", for lock and active

ASSUME EngineAssumption == Job \cap Calib = {} /\ NoUser \notin Job \cup Calib

User == Job \cup Calib

VARIABLES
  pc,      \* control point of each user's thread
  lock,    \* holder of SLICE_LOCK
  active,  \* user whose Print g_active_print points to
  abort,   \* the cancel flag of the current Print
  armed,   \* g_calib_armed
  sweep    \* the current Print took calibration parameters

engineVars == <<lock, active, abort, armed, sweep>>

(* Control points inside slice_outcome_calib. *)
Waiting   == {"waiting"}                    \* blocked on SLICE_LOCK
InPrint   == {"applied", "processing", "exporting"}   \* a Print exists
Returning == {"succeeded", "failed"}        \* back in Rust, guard still held
Holding   == {"locked", "armed"} \cup InPrint \cup Returning
EnginePc  == Waiting \cup Holding

Move(u, from, to) == pc[u] = from /\ pc' = [pc EXCEPT ![u] = to]

(* A std Mutex: whoever finds it free takes it, in no promised order. *)
TakeLock(u) ==
  /\ Move(u, "waiting", "locked")
  /\ lock = NoUser
  /\ lock' = u
  /\ UNCHANGED <<active, abort, armed, sweep>>

Arm(c) ==
  /\ c \in Calib
  /\ Move(c, "locked", "armed")
  /\ armed' = TRUE
  /\ UNCHANGED <<lock, active, abort, sweep>>

EnterKeepsArmed(u) ==
  /\ Move(u, IF u \in Calib THEN "armed" ELSE "locked", "applied")
  /\ sweep' = armed
  /\ abort' = FALSE
  /\ UNCHANGED <<lock, active, armed>>

(* slic3r_slice takes the armed parameters before anything can throw, then *)
(* constructs a fresh Print, whose cancel flag is down.                    *)
Enter(u) ==
  /\ Move(u, IF u \in Calib THEN "armed" ELSE "locked", "applied")
  /\ sweep' = armed
  /\ armed' = FALSE
  /\ abort' = FALSE
  /\ UNCHANGED <<lock, active>>

(* apply() throws, or validate() refuses: process() never runs. *)
Invalid(u) ==
  /\ Move(u, "applied", "failed")
  /\ UNCHANGED engineVars

Publish(u) ==
  /\ Move(u, "applied", "processing")
  /\ active' = u
  /\ UNCHANGED <<lock, abort, armed, sweep>>

(* process() throws: CanceledException at a checkpoint once abort is up,   *)
(* or a slicing error of its own.  Unwinding withdraws the Print.          *)
ProcessThrows(u) ==
  /\ Move(u, "processing", "failed")
  /\ active' = NoUser
  /\ UNCHANGED <<lock, abort, armed, sweep>>

(* process() completes; an abort that came after its last checkpoint does  *)
(* not stop it.                                                            *)
ProcessDone(u) ==
  /\ Move(u, "processing", "exporting")
  /\ active' = NoUser
  /\ UNCHANGED <<lock, abort, armed, sweep>>

Export(u) ==
  /\ Move(u, "exporting", "succeeded") \/ Move(u, "exporting", "failed")
  /\ UNCHANGED engineVars

(* slice_outcome_calib returns: the guard drops, the Print is gone. *)
Release(u, to) ==
  /\ pc[u] \in Returning
  /\ pc' = [pc EXCEPT ![u] = to]
  /\ lock' = NoUser
  /\ abort' = FALSE
  /\ sweep' = FALSE
  /\ UNCHANGED <<active, armed>>

(* slic3r_cancel: flags whichever Print is published, nothing otherwise. *)
CancelActive ==
  /\ abort' = (abort \/ active # NoUser)
  /\ UNCHANGED <<lock, active, armed, sweep>>

EngineInit ==
  /\ lock = NoUser /\ active = NoUser
  /\ abort = FALSE /\ armed = FALSE /\ sweep = FALSE

(* The steps of the engine that leave the caller's own state alone. *)
EngineStep(u) ==
  \/ TakeLock(u) \/ Arm(u) \/ Enter(u) \/ Invalid(u) \/ Publish(u)
  \/ ProcessThrows(u) \/ ProcessDone(u) \/ Export(u)

-----------------------------------------------------------------------------
EngineTypeOK ==
  /\ lock \in User \cup {NoUser}
  /\ active \in User \cup {NoUser}
  /\ abort \in BOOLEAN /\ armed \in BOOLEAN /\ sweep \in BOOLEAN

(* SLICE_LOCK does its job: at most one thread is between taking and       *)
(* dropping it, and the lock names that thread.                            *)
EngineExclusive ==
  \A u \in User : pc[u] \in Holding <=> lock = u

(* slic3r_cancel can only reach a Print inside process(): the published    *)
(* pointer is set exactly while its owner is there, so a cancel never      *)
(* touches a Print under construction or being torn down.                  *)
PublishedWhileProcessing ==
  \A u \in User : pc[u] = "processing" <=> active = u

(* Calibration parameters reach the slice that armed them and no other:    *)
(* an ordinary slice never prints a pressure-advance sweep, a calibration  *)
(* slice always does.                                                      *)
SweepOnlyCalibrates ==
  \A u \in User : pc[u] \in InPrint => (sweep <=> u \in Calib)

(* The process globals of the shim belong to whoever is between lock and unlock:    *)
(* one caller at a time, a Print published exactly while its owner is in process(), *)
(* the calibration's parameters in the calibration's own slice only (lib.rs:1814    *)
(* SLICE_LOCK, slic3r_ffi.cpp:1514 slic3r_slice).                                   *)
EngineIsOwned == EngineExclusive /\ PublishedWhileProcessing /\ SweepOnlyCalibrates
=============================================================================
