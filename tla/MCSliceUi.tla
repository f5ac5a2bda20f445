------------------------------ MODULE MCSliceUi ------------------------------
(***************************************************************************)
(* SliceUi for TLC.  The jobs are interchangeable, and so are the          *)
(* calibrations.  A behaviour is of one of two kinds: one page slices, or  *)
(* it was reloaded before, and the jobs it left behind contend for the     *)
(* engine with the calibrations.                                           *)
(***************************************************************************)
EXTENDS SliceUi, TLC

Symmetry == Permutations(Job) \cup Permutations(Calib)

MCInit == Init /\ PageInit /\ reloads \in 0 .. 1
MCNext ==
  \/ reloads = 0 /\ UiNext
  \/ reloads = 1 /\ Next /\ UNCHANGED uiVars
MCSpec == MCInit /\ [][MCNext]_<<vars, uiVars>>

=============================================================================
