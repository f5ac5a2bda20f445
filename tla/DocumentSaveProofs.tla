-------------------------- MODULE DocumentSaveProofs --------------------------
(***************************************************************************)
(* Theorems about DocumentSave for every set of projects and any number of *)
(* edits, starts and I/O errors: a crash costs only what was being written *)
(* over (CrashCostsOnlyTheTorn), and what the autosave thread skips, or a  *)
(* graceful exit leaves behind, is stored (EditsAreKept).  At the end, the *)
(* tower of TowerView.                                                     *)
(*                                                                         *)
(* A project has two copies on disk, and two threads each about to replace *)
(* one of them: the main thread the project file, the autosave thread the  *)
(* recovery file.  The first invariant speaks of all four pairs of a copy  *)
(* that is there or about to be and its counterpart: in each, one is half  *)
(* written or at least as new as what has been secured.  The second says   *)
(* for each reason the thread has to skip which copy holds the live        *)
(* project, and who is about to replace that copy.                         *)
(***************************************************************************)
EXTENDS DocumentSave, TowerView, TLAPS

Past == 0..edits    \* the versions there have been

Saving(u) == main.at \in {"saveOpen", "saveWrite"} /\ main.doc.uuid = u
Flushing(u) == worker.at \in {"open", "write"} /\ worker.doc.uuid = u

Covers(u, v) == u \in undercut \/ secured[u] = None \/ (v \in Version /\ v >= secured[u])
Pair(u, f, r) == f = Torn \/ r = Torn \/ Covers(u, f) \/ Covers(u, r)

Copies(u) ==
  /\ Pair(u, file[u], recovery[u])
  /\ Saving(u) => Pair(u, main.doc.ver, recovery[u])
  /\ Flushing(u) => Pair(u, file[u], worker.doc.ver)
  /\ Saving(u) /\ Flushing(u) => Pair(u, main.doc.ver, worker.doc.ver)

DiskOK ==
  /\ edits \in 0..MaxEdits
  /\ file \in [Uuid -> Past \cup {None, Torn}]
  /\ recovery \in [Uuid -> Past \cup {None, Torn}]
  /\ secured \in [Uuid -> Past \cup {None}] /\ undercut \subseteq Uuid

(* Nothing newer than the live project has been secured of it. *)
LiveIsNewest ==
  app # "down" =>
    /\ session \in Doc /\ session.ver \in Past
    /\ Covers(session.uuid, session.ver)

(* The main thread saves an earlier state of the live project. *)
SaveIsOfLive ==
  main.at \in {"saveOpen", "saveWrite", "saveEmit", "saveDrop"} =>
    /\ app # "down"
    /\ main.doc \in Doc /\ main.doc.uuid = session.uuid /\ main.doc.ver <= session.ver
    /\ main.at \in {"saveEmit", "saveDrop"} => file[main.doc.uuid] = main.doc.ver

FlushIsOfPast ==
  worker.at \in {"open", "write"} =>
    app # "down" /\ worker.doc \in Doc /\ worker.doc.ver \in Past

(* What the recovery dialog still asks about, no thread has in hand. *)
DialogIsAside ==
  app # "down" => session.uuid \notin dialog /\ worker.doc.uuid \notin dialog

Thread == [at : {"off", "parked", "check", "clone", "open", "write", "done"},
           seq : Nat, doc : Doc \cup {NoDoc}, stopping : BOOLEAN,
           failed : BOOLEAN, linked : BOOLEAN]

Sound ==
  /\ DiskOK /\ LiveIsNewest /\ SaveIsOfLive /\ FlushIsOfPast /\ DialogIsAside
  /\ app \in {"up", "down", "exited"} /\ editSeq \in Nat
  /\ stop \in BOOLEAN /\ dialog \subseteq Uuid
  /\ worker \in Thread
  /\ main \in [at : {"idle", "emitEdit", "saveOpen", "saveWrite", "saveEmit", "saveDrop",
                     "emitLoad", "exit"}, doc : Doc \cup {NoDoc}]

CrashInv == Sound /\ \A u \in Uuid : Copies(u)

LEMMA OffIsThread ==
  /\ Off \in Thread /\ Off.at = "off" /\ Off.doc = NoDoc
  /\ \A b \in BOOLEAN : \A at \in {"parked", "done"} :
       [Off EXCEPT !.at = at, !.failed = b] \in Thread
  BY DEF Off, Thread

(* However a tick ends, the thread holds no document. *)
LEMMA TickEnd ==
  ASSUME worker \in Thread, NEW b \in BOOLEAN, TickEnds(b)
  PROVE  /\ worker' \in Thread /\ worker'.doc = NoDoc
         /\ worker'.at = IF worker.stopping THEN "done" ELSE "parked"
         /\ worker'.seq = 0 /\ ~worker'.stopping
         /\ worker'.failed = (b /\ worker.stopping)
<1>1. (b /\ worker.stopping) \in BOOLEAN
  OBVIOUS
<1>2. worker'.failed = (b /\ worker.stopping)
  BY DEF TickEnds, Off
<1> QED
  BY <1>1, <1>2, OffIsThread DEF TickEnds, Off

LEMMA CrashInit == Init => CrashInv
<1> SUFFICES ASSUME Init PROVE CrashInv
  OBVIOUS
<1>1. worker \in Thread /\ worker.at = "off" /\ worker.doc = NoDoc /\ stop \in BOOLEAN
  BY OffIsThread DEF Init
<1> QED
  BY <1>1, DocumentAssumption
  DEF Init, CrashInv, Sound, DiskOK, LiveIsNewest, SaveIsOfLive, FlushIsOfPast, DialogIsAside,
      Copies, Saving, Flushing, Pair, Covers, Past, Idle, NoDoc

LEMMA CrashStep == CrashInv /\ [Next]_vars => CrashInv'
<1> SUFFICES ASSUME CrashInv, [Next]_vars PROVE CrashInv'
  OBVIOUS
<1> USE DocumentAssumption
    DEF CrashInv, Sound, DiskOK, LiveIsNewest, SaveIsOfLive, FlushIsOfPast, DialogIsAside,
        Copies, Saving, Flushing, Pair, Covers, Past, Version, Doc, NoDoc, Idle, Off,
        Thread, docVars, diskVars, bounds, Ready, MainGoes, Change, Fresh, Unused, Blank, Clean,
        Replace, WorkerAt, TickEnds, Newest, Newer, Mends
<1>1. CASE Launch
  <2>1. /\ worker' \in Thread /\ worker'.at = "off" /\ worker'.doc = NoDoc
        /\ stop' \in BOOLEAN
    BY <1>1, OffIsThread DEF Launch
  <2> QED
    BY <1>1, <2>1 DEF Launch
<1>2. CASE Crash
  BY <1>2 DEF Crash
<1>3. CASE Edit
  BY <1>3 DEF Edit
<1>4. CASE EmitEdit
  BY <1>4 DEF EmitEdit
<1>5. CASE RemovePlate
  BY <1>5 DEF RemovePlate
<1>6. CASE SaveClone
  BY <1>6 DEF SaveClone
<1>7. CASE SaveOpen
  BY <1>7 DEF SaveOpen
<1>8. CASE SaveWrite
  BY <1>8 DEF SaveWrite
<1>9. CASE SaveFails
  BY <1>9 DEF SaveFails
<1>10. CASE SaveEmit
  BY <1>10 DEF SaveEmit
<1>11. CASE SaveDrop
  <2>1. main.doc \in Doc /\ main.doc.uuid = session.uuid /\ main.doc.uuid \in Uuid
    BY <1>11 DEF SaveDrop
  <2>2. /\ worker'.at = worker.at /\ worker'.doc = worker.doc
        /\ worker' \in Thread
    BY <1>11 DEF SaveDrop
  <2>3. DiskOK' /\ LiveIsNewest' /\ SaveIsOfLive' /\ FlushIsOfPast' /\ DialogIsAside'
    BY <1>11, <2>1, <2>2 DEF SaveDrop
  <2>4. \A u \in Uuid : Copies(u)'
    <3> DEFINE s == main.doc.uuid
    <3> SUFFICES ASSUME NEW w \in Uuid PROVE Copies(w)'
      OBVIOUS
    <3>1. /\ ~Saving(w)' /\ UNCHANGED <<file, secured>>
          /\ (Flushing(w) <=> Flushing(w)') /\ worker'.doc = worker.doc
      BY <1>11, <2>2 DEF SaveDrop
    <3>2. recovery' = [recovery EXCEPT ![s] = None]
          /\ undercut' = IF Undercuts(s) THEN undercut \cup {s} ELSE undercut
      BY <1>11 DEF SaveDrop
    <3>3. CASE w # s
      <4>1. recovery'[w] = recovery[w] /\ (w \in undercut' <=> w \in undercut)
        BY <3>2, <3>3
      <4> QED
        BY <3>1, <4>1
    <3>4. CASE w = s
      <4>1. file[s] = main.doc.ver /\ main.doc.ver \in Version
        BY <1>11, <2>1 DEF SaveDrop
      <4>2. s \in undercut' \/ Covers(s, file[s]) \/ (UNCHANGED <<undercut, recovery>>)
        BY <2>1, <3>2, <4>1 DEF Undercuts
      <4> HIDE DEF s
      <4>3. CASE s \in undercut'
        BY <3>1, <3>4, <4>3
      <4>4. CASE Covers(s, file[s]) /\ s \notin undercut'
        <5>1. s \notin undercut
          BY <3>2, <4>4
        <5> QED
          BY <3>1, <3>4, <4>4, <5>1
      <4>5. CASE UNCHANGED <<undercut, recovery>>
        BY <3>1, <3>4, <4>5
      <4> QED
        BY <4>2, <4>3, <4>4, <4>5
    <3> QED
      BY <3>3, <3>4
  <2> QED
    BY <1>11, <2>1, <2>2, <2>3, <2>4 DEF SaveDrop
<1>12. CASE New
  BY <1>12 DEF New
<1>13. CASE EmitLoaded
  BY <1>13 DEF EmitLoaded
<1>14. CASE AutosaveEnable
  BY <1>14 DEF AutosaveEnable
<1>15. CASE Exit
  BY <1>15 DEF Exit
<1>16. CASE ExitJoined
  BY <1>16 DEF ExitJoined
<1>17. CASE PoolEdit
  BY <1>17 DEF PoolEdit
<1>18. CASE PoolEmit
  BY <1>18 DEF PoolEmit
<1>19. CASE Wake
  <2>1. /\ worker'.at = "check" /\ worker'.doc = worker.doc
        /\ worker' \in Thread
    BY <1>19 DEF Wake
  <2> QED
    BY <1>19, <2>1 DEF Wake
<1>20. CASE Check
  <2>1. /\ worker'.at \notin {"open", "write"} /\ worker'.doc \in {worker.doc, NoDoc}
        /\ worker' \in Thread
    <3>1. CASE TickEnds(FALSE)
      BY <3>1, TickEnd
    <3>2. CASE worker' = [worker EXCEPT !.at = "clone"]
      BY <3>2
    <3> QED
      BY <1>20, <3>1, <3>2 DEF Check
  <2> QED
    BY <1>20, <2>1 DEF Check
<1>21. CASE Clone
  BY <1>21 DEF Clone
<1>22. CASE Open
  BY <1>22 DEF Open
<1>23. CASE Write
  <2>1. /\ worker'.at \notin {"open", "write"} /\ worker'.doc = NoDoc
        /\ worker' \in Thread
    BY <1>23, TickEnd DEF Write
  <2> DEFINE u == worker.doc.uuid
             v == worker.doc.ver
  <2>2. /\ u \in Uuid /\ v \in Past /\ Flushing(u) /\ app = "up"
        /\ UNCHANGED <<app, session, file, main, dialog, edits, editSeq, stop>>
    BY <1>23 DEF Write
  <2>3. \/ UNCHANGED <<recovery, secured, undercut>>
        \/ /\ recovery' = [recovery EXCEPT ![u] = v]
           /\ \/ UNCHANGED <<secured, undercut>>
              \/ /\ secured' = [secured EXCEPT ![u] = v] /\ undercut' = undercut \ {u}
                 /\ u = session.uuid => session.ver >= v
    BY <1>23, <2>2 DEF Write, Reverted
  <2> HIDE DEF u, v
  <2>4. DiskOK'
    BY <2>2, <2>3
  <2>5. LiveIsNewest' /\ SaveIsOfLive' /\ FlushIsOfPast' /\ DialogIsAside'
    BY <2>1, <2>2, <2>3
  <2>6. \A w \in Uuid : Copies(w)'
    <3> SUFFICES ASSUME NEW w \in Uuid PROVE Copies(w)'
      OBVIOUS
    <3>1. ~Flushing(w)'
      BY <2>1
    <3>2. Copies(w) /\ (Saving(w) <=> Saving(w)')
      BY <2>2
    <3>3. CASE w # u \/ UNCHANGED <<recovery, secured, undercut>>
      BY <2>2, <2>3, <3>1, <3>2, <3>3
    <3>4. CASE w = u /\ recovery' = [recovery EXCEPT ![u] = v]
      <4>1. recovery'[u] = v
        BY <2>2, <3>4
      <4>2. Pair(u, file[u], v) /\ (Saving(u) => Pair(u, main.doc.ver, v))
        BY <2>2, <3>2, <3>4 DEF u, v
      <4>3. CASE UNCHANGED <<secured, undercut>>
        BY <2>2, <3>1, <3>4, <4>1, <4>2, <4>3
      <4>4. CASE secured' = [secured EXCEPT ![u] = v]
        BY <2>2, <3>1, <3>4, <4>1, <4>4
      <4> QED
        BY <2>3, <3>4, <4>3, <4>4, <3>3
    <3> QED
      BY <2>3, <3>3, <3>4
  <2> QED
    BY <2>1, <2>2, <2>4, <2>5, <2>6
<1>24. CASE TickFails
  <2>1. /\ worker'.at \notin {"open", "write"} /\ worker'.doc = NoDoc
        /\ worker' \in Thread
    BY <1>24, TickEnd DEF TickFails
  <2> QED
    BY <1>24, <2>1 DEF TickFails
<1>25. ASSUME NEW u \in Uuid, Load(u) PROVE CrashInv'
  BY <1>25 DEF Load
<1>26. ASSUME NEW u \in Uuid, Recover(u) PROVE CrashInv'
  BY <1>26 DEF Recover
<1>27. ASSUME NEW u \in Uuid, Discard(u) PROVE CrashInv'
  BY <1>27 DEF Discard
<1>28. ASSUME NEW u \in Uuid, Keep(u) PROVE CrashInv'
  BY <1>28 DEF Keep
<1>29. CASE UNCHANGED vars
  BY <1>29 DEF vars
<1> HIDE DEF CrashInv
<1> QED
  BY <1>1, <1>2, <1>3, <1>4, <1>5, <1>6, <1>7, <1>8, <1>9, <1>10, <1>11, <1>12, <1>13, <1>14, <1>15, <1>16, <1>17, <1>18, <1>19, <1>20, <1>21, <1>22, <1>23, <1>24, <1>25, <1>26, <1>27, <1>28, <1>29 DEF Next, Tick

(* A crash at any point, between any two steps of a save or of a tick,     *)
(* leaves a copy at least as new as the newest one secured, of every       *)
(* project neither of whose files was torn (write_project_inner) and whose *)
(* last recovery file no Save of an older state took (SaveDrop).           *)
THEOREM CrashIsSurvived == Spec => []CrashCostsOnlyTheTorn
<1>1. CrashInv => CrashCostsOnlyTheTorn
  <2> SUFFICES ASSUME CrashInv, NEW u \in Uuid, u \notin undercut, Torn \notin {file[u], recovery[u]},
                      secured[u] # None
               PROVE  \E v \in Held(u) : v >= secured[u]
    BY DEF CrashCostsOnlyTheTorn, KeepsCopy
  <2>1. Covers(u, file[u]) \/ Covers(u, recovery[u])
    BY DEF CrashInv, Copies, Pair
  <2> QED
    BY <2>1 DEF Covers, Held
<1>2. Spec => []CrashInv
  BY CrashInit, CrashStep, PTL DEF Spec
<1> QED
  BY <1>1, <1>2, PTL

-----------------------------------------------------------------------------
(* Edits are kept.  Unless a mark is still to come (from the pool, or from  *)
(* an edit that has not emitted) or was lost, the live project is in a file *)
(* whenever the autosave thread would skip its tick: because it was saved   *)
(* or loaded since, or because the thread wrote what it read after the last *)
(* mark.                                                                    *)
Up     == app # "down"
Marked == Up /\ ~slipped /\ pool = "idle" /\ main.at \notin {"emitEdit", "emitLoad"}
InTick == worker.at \in {"clone", "open", "write"}
Saves  == main.at \in {"saveOpen", "saveWrite"}

(* The live project is in its file, or in its recovery file with nobody     *)
(* about to tear that; or the save under way will have put it there; or the *)
(* file was left torn by a save that failed.                                *)
InFile == session.ver = 0 \/ file[session.uuid] = session.ver
InRecovery == recovery[session.uuid] = session.ver /\ ~InTick
OnItsWay == Saves /\ session = main.doc /\ file[session.uuid] = Torn
LeftTorn == ~Saves /\ file[session.uuid] = Torn
Kept == InFile \/ InRecovery \/ OnItsWay \/ LeftTorn

CleanIsKept   == Marked /\ ~IsDirty => Kept
WrittenIsKept == Marked /\ IsDirty /\ last = editSeq => Kept
LoadedIsKept  ==
  Up /\ main.at = "emitLoad" =>
    /\ main.doc.ver \in Past
    /\ session = main.doc => InFile \/ (InRecovery /\ ~IsDirty /\ pool = "idle")

(* An edit made since the save under way took its copy is in no file yet.   *)
EditIsNewer == Saves /\ session # main.doc => file[session.uuid] # session.ver

(* What the thread is about to write is the live project, if no mark has    *)
(* come since it woke; and a save took its file away only to put the same   *)
(* into the other.                                                          *)
FlushIsLive ==
  Marked /\ IsDirty /\ worker.at \in {"open", "write"} /\ worker.seq = editSeq =>
    /\ worker.doc = session
    /\ worker.at = "open" \/ worker.linked \/ InFile \/ OnItsWay \/ LeftTorn

Counted ==
  /\ cleanSeq \in Nat /\ cleanSeq <= editSeq
  /\ worker.seq <= editSeq
  /\ last = None \/ (last \in Nat /\ last <= editSeq)
  /\ worker.at \in {"check", "clone", "open", "write"} /\ last # None => last <= worker.seq
  /\ InTick => worker.seq # last
  /\ editSeq <= edits
  /\ main.at = "emitEdit" \/ pool = "emit" => editSeq + 1 <= edits
  /\ main.at = "emitEdit" /\ pool = "emit" => editSeq + 2 <= edits

(* Nothing can be edited before the recovery dialog is resolved. *)
DialogIsFirst ==
  Up /\ dialog # {} => ~InTick /\ ~IsDirty /\ pool = "idle" /\ main.at \in {"idle", "emitLoad", "exit"}

(* The thread is done when its last tick had nothing to write or wrote it.  *)
DoneIsFlushed ==
  /\ worker.at = "done" \/ worker.stopping \/ stop \/ app = "exited" => main.at = "exit"
  /\ Marked /\ worker.stopping => worker.seq = editSeq
  /\ Marked /\ worker.at = "done" /\ ~worker.failed => Skips

KeptInv ==
  /\ session \in Doc \cup {NoDoc} /\ pool \in {"idle", "emit"} /\ slipped \in BOOLEAN
  /\ Counted /\ DialogIsFirst /\ DoneIsFlushed
  /\ CleanIsKept /\ WrittenIsKept /\ LoadedIsKept /\ FlushIsLive /\ EditIsNewer

LEMMA KeptInit == Init => KeptInv
<1> SUFFICES ASSUME Init PROVE KeptInv
  OBVIOUS
<1>1. worker.at = "off" /\ worker.seq = 0 /\ worker.stopping = FALSE /\ app = "down"
  BY DEF Init, Off
<1>2. slipped \in BOOLEAN
  BY DEF Init
<1> QED
  BY <1>1, <1>2, DocumentAssumption
     DEF Init, KeptInv, Counted, DialogIsFirst, DoneIsFlushed, CleanIsKept, WrittenIsKept,
         LoadedIsKept, FlushIsLive, EditIsNewer, Saves, Past, Marked, InTick, Up, Idle, NoDoc

LEMMA KeptStep == Sound /\ Sound' /\ KeptInv /\ [Next]_vars => KeptInv'
<1> SUFFICES ASSUME Sound, Sound', KeptInv, [Next]_vars PROVE KeptInv'
  OBVIOUS
<1>0. slipped' \in BOOLEAN
  <2>1. slipped \in BOOLEAN
    BY DEF KeptInv
  <2>2. \/ slipped' = slipped \/ slipped' = FALSE \/ slipped' = TRUE
        \/ slipped' = (session # main.doc /\ pool = "idle")
        \/ slipped' = (slipped \/ DropsNewer(main.doc.uuid))
        \/ slipped' = (main.at = "exit")
    BY Zenon DEF Next, vars, Launch, Crash, Blank, Edit, EmitEdit, RemovePlate, SaveClone,
       SaveOpen, SaveWrite, SaveFails, SaveEmit, SaveDrop, Clean, Load, Recover, Discard, Keep,
       New, EmitLoaded, AutosaveEnable, Exit, ExitJoined, PoolEdit, PoolEmit, Tick, Wake,
       Check, Clone, Open, Write, TickFails
  <2> QED
    BY <2>1, <2>2, Zenon
<1> USE DocumentAssumption
    DEF Sound, DiskOK, LiveIsNewest, SaveIsOfLive, FlushIsOfPast, DialogIsAside,
        Past, Version, Doc, NoDoc, Idle, Thread, docVars, diskVars, bounds,
        Ready, MainGoes, Change, Fresh, Unused, Clean, Replace, WorkerAt,
        KeptInv, Counted, DialogIsFirst, DoneIsFlushed, CleanIsKept, WrittenIsKept,
        LoadedIsKept, FlushIsLive, EditIsNewer, Kept, Marked, Up, InTick, Saves, InFile, InRecovery,
        OnItsWay, LeftTorn, IsDirty, Skips
<1>1. CASE Launch
  <2>1. worker'.at = "off" /\ worker'.seq = 0 /\ ~worker'.stopping /\ main'.at = "idle" /\ last' = None
    BY <1>1 DEF Launch, Blank, Off
  <2>2. session' \in Doc \cup {NoDoc}
    BY <1>1, <2>1 DEF Launch, Blank, Off
  <2>8. pool' \in {"idle", "emit"}
    BY <1>1, <2>1 DEF Launch, Blank, Off
  <2>9. Counted'
    BY <1>1, <2>1 DEF Launch, Blank, Off
  <2>3. DialogIsFirst'
    BY <1>1, <2>1 DEF Launch, Blank, Off
  <2>4. DoneIsFlushed'
    BY <1>1, <2>1 DEF Launch, Blank, Off
  <2>5. CleanIsKept' /\ WrittenIsKept'
    BY <1>1, <2>1 DEF Launch, Blank, Off
  <2>6. LoadedIsKept'
    BY <1>1, <2>1 DEF Launch, Blank, Off
  <2>7. FlushIsLive' /\ EditIsNewer'
    BY <1>1, <2>1 DEF Launch, Blank, Off
  <2> QED
    BY <1>0, <2>2, <2>8, <2>9, <2>3, <2>4, <2>5, <2>6, <2>7
<1>2. CASE Crash
  <2>1. worker'.at = "off" /\ worker'.seq = 0 /\ ~worker'.stopping /\ main'.at = "idle" /\ last' = None /\ app' = "down"
    BY <1>2 DEF Crash, Blank, Off
  <2>2. session' \in Doc \cup {NoDoc}
    BY <1>2, <2>1 DEF Crash, Blank, Off
  <2>8. pool' \in {"idle", "emit"}
    BY <1>2, <2>1 DEF Crash, Blank, Off
  <2>9. Counted'
    BY <1>2, <2>1 DEF Crash, Blank, Off
  <2>3. DialogIsFirst'
    BY <1>2, <2>1 DEF Crash, Blank, Off
  <2>4. DoneIsFlushed'
    BY <1>2, <2>1 DEF Crash, Blank, Off
  <2>5. CleanIsKept' /\ WrittenIsKept'
    BY <1>2, <2>1 DEF Crash, Blank, Off
  <2>6. LoadedIsKept'
    BY <1>2, <2>1 DEF Crash, Blank, Off
  <2>7. FlushIsLive' /\ EditIsNewer'
    BY <1>2, <2>1 DEF Crash, Blank, Off
  <2> QED
    BY <1>0, <2>2, <2>8, <2>9, <2>3, <2>4, <2>5, <2>6, <2>7
<1>3. CASE Edit
  BY <1>3 DEF Edit
<1>4. CASE EmitEdit
  <2>2. session' \in Doc \cup {NoDoc}
    BY <1>4 DEF EmitEdit
  <2>8. pool' \in {"idle", "emit"}
    BY <1>4 DEF EmitEdit
  <2>9. Counted'
    BY <1>4 DEF EmitEdit
  <2>3. DialogIsFirst'
    BY <1>4 DEF EmitEdit
  <2>4. DoneIsFlushed'
    BY <1>4 DEF EmitEdit
  <2>5. CleanIsKept' /\ WrittenIsKept'
    BY <1>4 DEF EmitEdit
  <2>6. LoadedIsKept'
    BY <1>4 DEF EmitEdit
  <2>7. FlushIsLive' /\ EditIsNewer'
    BY <1>4 DEF EmitEdit
  <2> QED
    BY <1>0, <2>2, <2>8, <2>9, <2>3, <2>4, <2>5, <2>6, <2>7
<1>5. CASE RemovePlate
  BY <1>5 DEF RemovePlate
<1>6. CASE SaveClone
  <2>2. session' \in Doc \cup {NoDoc} /\ pool' \in {"idle", "emit"} /\ Counted'
    BY <1>6 DEF SaveClone
  <2>3. DialogIsFirst'
    BY <1>6 DEF SaveClone
  <2>4. DoneIsFlushed'
    BY <1>6 DEF SaveClone
  <2>5. CleanIsKept' /\ WrittenIsKept'
    BY <1>6 DEF SaveClone
  <2>6. LoadedIsKept'
    BY <1>6 DEF SaveClone
  <2>7. FlushIsLive' /\ EditIsNewer'
    BY <1>6 DEF SaveClone
  <2> QED
    BY <1>0, <2>2, <2>3, <2>4, <2>5, <2>6, <2>7
<1>7. CASE SaveOpen
  <2>2. session' \in Doc \cup {NoDoc} /\ pool' \in {"idle", "emit"} /\ Counted'
    BY <1>7 DEF SaveOpen
  <2>3. DialogIsFirst'
    BY <1>7 DEF SaveOpen
  <2>4. DoneIsFlushed'
    BY <1>7 DEF SaveOpen
  <2>5. CleanIsKept' /\ WrittenIsKept'
    BY <1>7 DEF SaveOpen
  <2>6. LoadedIsKept'
    BY <1>7 DEF SaveOpen
  <2>7. FlushIsLive' /\ EditIsNewer'
    BY <1>7 DEF SaveOpen
  <2> QED
    BY <1>0, <2>2, <2>3, <2>4, <2>5, <2>6, <2>7
<1>8. CASE SaveWrite
  <2>2. session' \in Doc \cup {NoDoc} /\ pool' \in {"idle", "emit"} /\ Counted'
    BY <1>8 DEF SaveWrite
  <2>3. DialogIsFirst'
    BY <1>8 DEF SaveWrite
  <2>4. DoneIsFlushed'
    BY <1>8 DEF SaveWrite
  <2>5. CleanIsKept' /\ WrittenIsKept'
    BY <1>8 DEF SaveWrite
  <2>6. LoadedIsKept'
    BY <1>8 DEF SaveWrite
  <2>7. FlushIsLive' /\ EditIsNewer'
    BY <1>8 DEF SaveWrite
  <2> QED
    BY <1>0, <2>2, <2>3, <2>4, <2>5, <2>6, <2>7
<1>9. CASE SaveFails
  <2>2. session' \in Doc \cup {NoDoc} /\ pool' \in {"idle", "emit"} /\ Counted'
    BY <1>9 DEF SaveFails
  <2>3. DialogIsFirst'
    BY <1>9 DEF SaveFails
  <2>4. DoneIsFlushed'
    BY <1>9 DEF SaveFails
  <2>5. CleanIsKept' /\ WrittenIsKept'
    BY <1>9 DEF SaveFails
  <2>6. LoadedIsKept'
    BY <1>9 DEF SaveFails
  <2>7. FlushIsLive' /\ EditIsNewer'
    BY <1>9 DEF SaveFails
  <2> QED
    BY <1>0, <2>2, <2>3, <2>4, <2>5, <2>6, <2>7
<1>10. CASE SaveEmit
  <2>2. session' \in Doc \cup {NoDoc} /\ pool' \in {"idle", "emit"} /\ Counted'
    BY <1>10 DEF SaveEmit
  <2>3. DialogIsFirst'
    BY <1>10 DEF SaveEmit
  <2>4. DoneIsFlushed'
    BY <1>10 DEF SaveEmit
  <2>5. CleanIsKept' /\ WrittenIsKept'
    BY <1>10 DEF SaveEmit
  <2>6. LoadedIsKept'
    BY <1>10 DEF SaveEmit
  <2>7. FlushIsLive' /\ EditIsNewer'
    BY <1>10 DEF SaveEmit
  <2> QED
    BY <1>0, <2>2, <2>3, <2>4, <2>5, <2>6, <2>7
<1>11. CASE SaveDrop
  <2>1. worker'.at = worker.at /\ worker'.seq = worker.seq /\ worker'.doc = worker.doc /\ worker'.stopping = worker.stopping /\ worker'.failed = worker.failed /\ worker'.linked = (worker.linked /\ worker.doc.uuid # main.doc.uuid)
    BY <1>11 DEF SaveDrop
  <2>2. session' \in Doc \cup {NoDoc} /\ pool' \in {"idle", "emit"} /\ Counted'
    BY <1>11, <2>1 DEF SaveDrop, DropsNewer
  <2>3. DialogIsFirst'
    BY <1>11, <2>1 DEF SaveDrop, DropsNewer
  <2>4. DoneIsFlushed'
    BY <1>11, <2>1 DEF SaveDrop, DropsNewer
  <2>5. CleanIsKept' /\ WrittenIsKept'
    <3>1. file[session.uuid] = main.doc.ver /\ main.doc.uuid = session.uuid
      BY <1>11 DEF SaveDrop
    <3>2. (slipped => slipped') /\ (DropsNewer(main.doc.uuid) => slipped')
      BY <1>11, Zenon DEF SaveDrop
    <3>3. ~Saves /\ ~LeftTorn /\ UNCHANGED <<session, file, editSeq, cleanSeq, last, pool, app>>
      BY <1>11, <3>1 DEF SaveDrop
    <3>4. Marked' => Marked /\ ~DropsNewer(main.doc.uuid)
      BY <1>11, <3>2 DEF SaveDrop
    <3>5. CASE recovery[session.uuid] # session.ver \/ session.ver = main.doc.ver
      BY <3>1, <3>3, <3>4, <3>5
    <3>6. CASE recovery[session.uuid] = session.ver /\ session.ver # main.doc.ver
      <4>1. DropsNewer(main.doc.uuid)
        BY <1>11, <3>1, <3>6 DEF SaveDrop, DropsNewer
      <4> QED
        BY <4>1, <3>4
    <3> QED
      BY <3>5, <3>6
  <2>6. LoadedIsKept'
    BY <1>11, <2>1 DEF SaveDrop, DropsNewer
  <2>7. FlushIsLive' /\ EditIsNewer'
    BY <1>11, <2>1 DEF SaveDrop, DropsNewer
  <2> QED
    BY <1>0, <2>2, <2>3, <2>4, <2>5, <2>6, <2>7
<1>12. CASE New
  <2>2. session' \in Doc \cup {NoDoc} /\ pool' \in {"idle", "emit"} /\ Counted'
    BY <1>12 DEF New
  <2>3. DialogIsFirst'
    BY <1>12 DEF New
  <2>4. DoneIsFlushed'
    BY <1>12 DEF New
  <2>5. CleanIsKept' /\ WrittenIsKept'
    BY <1>12 DEF New
  <2>6. LoadedIsKept'
    BY <1>12 DEF New
  <2>7. FlushIsLive' /\ EditIsNewer'
    BY <1>12 DEF New
  <2> QED
    BY <1>0, <2>2, <2>3, <2>4, <2>5, <2>6, <2>7
<1>13. CASE EmitLoaded
  <2>2. session' \in Doc \cup {NoDoc} /\ pool' \in {"idle", "emit"} /\ Counted'
    BY <1>13 DEF EmitLoaded
  <2>3. DialogIsFirst'
    BY <1>13 DEF EmitLoaded
  <2>4. DoneIsFlushed'
    BY <1>13 DEF EmitLoaded
  <2>5. CleanIsKept' /\ WrittenIsKept'
    BY <1>13 DEF EmitLoaded
  <2>6. LoadedIsKept'
    BY <1>13 DEF EmitLoaded
  <2>7. FlushIsLive' /\ EditIsNewer'
    BY <1>13 DEF EmitLoaded
  <2> QED
    BY <1>0, <2>2, <2>3, <2>4, <2>5, <2>6, <2>7
<1>14. CASE AutosaveEnable
  <2>1. worker'.at = "parked" /\ worker'.seq = worker.seq /\ worker'.stopping = worker.stopping
    BY <1>14 DEF AutosaveEnable
  <2>2. session' \in Doc \cup {NoDoc} /\ pool' \in {"idle", "emit"} /\ Counted'
    BY <1>14, <2>1 DEF AutosaveEnable
  <2>3. DialogIsFirst'
    BY <1>14, <2>1 DEF AutosaveEnable
  <2>4. DoneIsFlushed'
    BY <1>14, <2>1 DEF AutosaveEnable
  <2>5. CleanIsKept' /\ WrittenIsKept'
    BY <1>14, <2>1 DEF AutosaveEnable
  <2>6. LoadedIsKept'
    BY <1>14, <2>1 DEF AutosaveEnable
  <2>7. FlushIsLive' /\ EditIsNewer'
    BY <1>14, <2>1 DEF AutosaveEnable
  <2> QED
    BY <1>0, <2>2, <2>3, <2>4, <2>5, <2>6, <2>7
<1>15. CASE Exit
  BY <1>15 DEF Exit
<1>16. CASE ExitJoined
  <2>2. session' \in Doc \cup {NoDoc} /\ pool' \in {"idle", "emit"} /\ Counted'
    BY <1>16 DEF ExitJoined
  <2>3. DialogIsFirst'
    BY <1>16 DEF ExitJoined
  <2>4. DoneIsFlushed'
    BY <1>16 DEF ExitJoined
  <2>5. CleanIsKept' /\ WrittenIsKept'
    BY <1>16 DEF ExitJoined
  <2>6. LoadedIsKept'
    BY <1>16 DEF ExitJoined
  <2>7. FlushIsLive' /\ EditIsNewer'
    BY <1>16 DEF ExitJoined
  <2> QED
    BY <1>0, <2>2, <2>3, <2>4, <2>5, <2>6, <2>7
<1>17. CASE PoolEdit
  <2>2. session' \in Doc \cup {NoDoc} /\ pool' \in {"idle", "emit"} /\ Counted'
    BY <1>17 DEF PoolEdit
  <2>3. DialogIsFirst'
    BY <1>17 DEF PoolEdit
  <2>4. DoneIsFlushed'
    BY <1>17 DEF PoolEdit
  <2>5. CleanIsKept' /\ WrittenIsKept'
    BY <1>17 DEF PoolEdit
  <2>6. LoadedIsKept'
    BY <1>17 DEF PoolEdit
  <2>7. FlushIsLive' /\ EditIsNewer'
    BY <1>17 DEF PoolEdit
  <2> QED
    BY <1>0, <2>2, <2>3, <2>4, <2>5, <2>6, <2>7
<1>18. CASE PoolEmit
  <2>2. session' \in Doc \cup {NoDoc}
    BY <1>18 DEF PoolEmit
  <2>8. pool' \in {"idle", "emit"}
    <3>1. pool' = "idle"
      BY <1>18, Zenon DEF PoolEmit
    <3> QED
      BY <3>1
  <2>9. Counted'
    BY <1>18 DEF PoolEmit
  <2>3. DialogIsFirst'
    BY <1>18 DEF PoolEmit
  <2>4. DoneIsFlushed'
    BY <1>18 DEF PoolEmit
  <2>5. CleanIsKept' /\ WrittenIsKept'
    BY <1>18 DEF PoolEmit
  <2>6. LoadedIsKept'
    BY <1>18 DEF PoolEmit
  <2>7. FlushIsLive' /\ EditIsNewer'
    BY <1>18 DEF PoolEmit
  <2> QED
    BY <1>0, <2>2, <2>8, <2>9, <2>3, <2>4, <2>5, <2>6, <2>7
<1>19. CASE Wake
  <2>1. worker' = [worker EXCEPT !.at = "check", !.stopping = stop, !.seq = editSeq] /\ worker'.at = "check" /\ worker'.seq = editSeq /\ worker'.stopping = stop /\ worker'.failed = worker.failed
    BY <1>19 DEF Wake
  <2>2. session' \in Doc \cup {NoDoc} /\ pool' \in {"idle", "emit"} /\ Counted'
    BY <1>19, <2>1 DEF Wake
  <2>3. DialogIsFirst'
    BY <1>19, <2>1 DEF Wake
  <2>4. DoneIsFlushed'
    BY <1>19, <2>1 DEF Wake
  <2>5. CleanIsKept' /\ WrittenIsKept'
    BY <1>19, <2>1 DEF Wake
  <2>6. LoadedIsKept'
    BY <1>19, <2>1 DEF Wake
  <2>7. FlushIsLive' /\ EditIsNewer'
    BY <1>19, <2>1 DEF Wake
  <2> QED
    BY <1>0, <2>2, <2>3, <2>4, <2>5, <2>6, <2>7
<1>20. CASE Check
  <2>1. CASE ~(IsDirty /\ worker.seq # last)
    <3>1. /\ worker'.at = (IF worker.stopping THEN "done" ELSE "parked")
          /\ worker'.seq = 0 /\ ~worker'.stopping /\ ~worker'.failed
      BY <1>20, <2>1, TickEnd DEF Check
    <3> QED
      BY <1>20, <2>1, <3>1 DEF Check
  <2>2. CASE worker' = [worker EXCEPT !.at = "clone"] /\ IsDirty /\ worker.seq # last
    <3>1. /\ worker'.at = "clone" /\ worker'.seq = worker.seq
          /\ worker'.stopping = worker.stopping /\ worker'.failed = worker.failed
      BY <2>2
    <3> QED
      BY <1>20, <2>2, <3>1 DEF Check
  <2> QED
    BY <1>20, <2>1, <2>2 DEF Check
<1>21. CASE Clone
  <2>1. worker'.at = "open" /\ worker'.seq = worker.seq /\ worker'.doc = session /\ worker'.stopping = worker.stopping /\ worker'.failed = worker.failed /\ worker'.linked
    BY <1>21 DEF Clone
  <2>2. session' \in Doc \cup {NoDoc} /\ pool' \in {"idle", "emit"} /\ Counted'
    BY <1>21, <2>1 DEF Clone
  <2>3. DialogIsFirst'
    BY <1>21, <2>1 DEF Clone
  <2>4. DoneIsFlushed'
    BY <1>21, <2>1 DEF Clone
  <2>5. CleanIsKept' /\ WrittenIsKept'
    BY <1>21, <2>1 DEF Clone
  <2>6. LoadedIsKept'
    BY <1>21, <2>1 DEF Clone
  <2>7. FlushIsLive' /\ EditIsNewer'
    BY <1>21, <2>1 DEF Clone
  <2> QED
    BY <1>0, <2>2, <2>3, <2>4, <2>5, <2>6, <2>7
<1>22. CASE Open
  <2>1. worker'.at = "write" /\ worker'.seq = worker.seq /\ worker'.doc = worker.doc /\ worker'.stopping = worker.stopping /\ worker'.failed = worker.failed /\ worker'.linked
    BY <1>22 DEF Open
  <2>2. session' \in Doc \cup {NoDoc} /\ pool' \in {"idle", "emit"} /\ Counted'
    BY <1>22, <2>1 DEF Open
  <2>3. DialogIsFirst'
    BY <1>22, <2>1 DEF Open
  <2>4. DoneIsFlushed'
    BY <1>22, <2>1 DEF Open
  <2>5. CleanIsKept' /\ WrittenIsKept'
    BY <1>22, <2>1 DEF Open
  <2>6. LoadedIsKept'
    BY <1>22, <2>1 DEF Open
  <2>7. FlushIsLive' /\ EditIsNewer'
    BY <1>22, <2>1 DEF Open
  <2> QED
    BY <1>0, <2>2, <2>3, <2>4, <2>5, <2>6, <2>7
<1>23. CASE Write
  <2>1. worker'.at = (IF worker.stopping THEN "done" ELSE "parked") /\ worker'.seq = 0 /\ ~worker'.stopping /\ ~worker'.failed
    BY <1>23, TickEnd DEF Write
  <2>2. session' \in Doc \cup {NoDoc} /\ pool' \in {"idle", "emit"} /\ Counted'
    BY <1>23, <2>1 DEF Write
  <2>3. DialogIsFirst'
    BY <1>23, <2>1 DEF Write
  <2>4. DoneIsFlushed'
    BY <1>23, <2>1 DEF Write
  <2>5. CleanIsKept' /\ WrittenIsKept'
    BY <1>23, <2>1 DEF Write
  <2>6. LoadedIsKept'
    BY <1>23, <2>1 DEF Write
  <2>7. FlushIsLive' /\ EditIsNewer'
    BY <1>23, <2>1 DEF Write
  <2> QED
    BY <1>0, <2>2, <2>3, <2>4, <2>5, <2>6, <2>7
<1>24. CASE TickFails
  <2>1. worker'.at = (IF worker.stopping THEN "done" ELSE "parked") /\ worker'.seq = 0 /\ ~worker'.stopping /\ worker'.failed = worker.stopping
    BY <1>24, TickEnd DEF TickFails
  <2>2. session' \in Doc \cup {NoDoc} /\ pool' \in {"idle", "emit"} /\ Counted'
    BY <1>24, <2>1 DEF TickFails
  <2>3. DialogIsFirst'
    BY <1>24, <2>1 DEF TickFails
  <2>4. DoneIsFlushed'
    BY <1>24, <2>1 DEF TickFails
  <2>5. CleanIsKept' /\ WrittenIsKept'
    BY <1>24, <2>1 DEF TickFails
  <2>6. LoadedIsKept'
    BY <1>24, <2>1 DEF TickFails
  <2>7. FlushIsLive' /\ EditIsNewer'
    BY <1>24, <2>1 DEF TickFails
  <2> QED
    BY <1>0, <2>2, <2>3, <2>4, <2>5, <2>6, <2>7
<1>25. ASSUME NEW u \in Uuid, Load(u) PROVE KeptInv'
  BY <1>25 DEF Load
<1>26. ASSUME NEW u \in Uuid, Recover(u) PROVE KeptInv'
  BY <1>26 DEF Recover
<1>27. ASSUME NEW u \in Uuid, Discard(u) PROVE KeptInv'
  BY <1>27 DEF Discard
<1>28. ASSUME NEW u \in Uuid, Keep(u) PROVE KeptInv'
  BY <1>28 DEF Keep
<1>29. CASE UNCHANGED vars
  BY <1>29 DEF vars
<1> HIDE DEF KeptInv
<1> QED
  BY <1>1, <1>2, <1>3, <1>4, <1>5, <1>6, <1>7, <1>8, <1>9, <1>10, <1>11, <1>12, <1>13, <1>14, <1>15, <1>16, <1>17, <1>18, <1>19, <1>20, <1>21, <1>22, <1>23, <1>24, <1>25, <1>26, <1>27, <1>28, <1>29 DEF Next, Tick

(* The autosave thread skips only what is stored (write_one_tick), and the  *)
(* flush of a graceful exit (lib.rs:533) leaves the live project on disk,   *)
(* unless its own write failed.                                             *)
THEOREM EditsStayKept == Spec => []EditsAreKept
<1>1. CrashInv /\ KeptInv => EditsAreKept
  <2> SUFFICES ASSUME CrashInv, KeptInv PROVE EditsAreKept
    OBVIOUS
  <2> USE DocumentAssumption
  <2>1. DocTypeOK
    <3>1. /\ app \in {"up", "down", "exited"}
          /\ session \in Doc \cup {NoDoc}
          /\ pool \in {"idle", "emit"} /\ stop \in BOOLEAN /\ slipped \in BOOLEAN
          /\ dialog \subseteq Uuid
      BY DEF CrashInv, Sound, KeptInv
    <3>2. /\ editSeq \in 0..MaxEdits /\ cleanSeq \in 0..editSeq
          /\ last \in 0..MaxEdits \cup {None} /\ worker.seq \in 0..MaxEdits
      BY DEF CrashInv, Sound, DiskOK, KeptInv, Counted, Thread
    <3>3. /\ file \in [Uuid -> Version \cup {None, Torn}]
          /\ recovery \in [Uuid -> Version \cup {None, Torn}]
          /\ secured \in [Uuid -> Version \cup {None}] /\ undercut \subseteq Uuid
      BY DEF CrashInv, Sound, DiskOK, Past, Version
    <3>4. worker \in [at : {"off", "parked", "check", "clone", "open", "write", "done"},
                 seq : 0..MaxEdits, doc : Doc \cup {NoDoc}, stopping : BOOLEAN,
                 failed : BOOLEAN, linked : BOOLEAN]
      BY <3>2 DEF CrashInv, Sound, Thread
    <3> QED
      BY <3>1, <3>2, <3>3, <3>4 DEF CrashInv, Sound, DocTypeOK
  <2>2. SkippedIsStored
    <3> SUFFICES ASSUME app = "up", Settled, Skips, ~slipped, file[session.uuid] # Torn
                 PROVE  Stored(session)
      BY DEF SkippedIsStored
    <3>1. Kept
      BY DEF KeptInv, CleanIsKept, WrittenIsKept, Marked, Up, Settled, Skips, IsDirty
    <3> QED
      BY <3>1 DEF Kept, InFile, InRecovery, OnItsWay, LeftTorn, Stored
  <2>3. ExitKeepsEdits
    <3> SUFFICES ASSUME app = "exited", worker.at = "done", ~worker.failed, Settled, ~slipped,
                        file[session.uuid] # Torn
                 PROVE  Stored(session)
      BY DEF ExitKeepsEdits
    <3>1. Marked /\ Skips
      BY DEF KeptInv, DoneIsFlushed, Marked, Up, Settled
    <3>2. Kept
      BY <3>1 DEF KeptInv, CleanIsKept, WrittenIsKept, Skips, IsDirty
    <3> QED
      BY <3>2 DEF Kept, InFile, InRecovery, OnItsWay, LeftTorn, Stored
  <2> QED
    BY <2>1, <2>2, <2>3 DEF EditsAreKept
<1>2. Spec => [](CrashInv /\ KeptInv)
  <2>1. Init => CrashInv /\ KeptInv
    BY CrashInit, KeptInit
  <2>2. CrashInv /\ KeptInv /\ [Next]_vars => (CrashInv /\ KeptInv)'
    BY CrashStep, KeptStep DEF CrashInv
  <2> QED
    BY <2>1, <2>2, PTL DEF Spec
<1> QED
  BY <1>1, <1>2, PTL

-----------------------------------------------------------------------------
(***************************************************************************)
(* The tower in the viewport (TowerView), for every set of plates, beds,   *)
(* configurations and pointer positions.  The last frame is described by   *)
(* what it was drawn from (FrameHolds), so that whatever may change that   *)
(* without a redraw is seen; the rest says which event, commit or slice is *)
(* under way while a placement, a drag or a mesh is not of its plate.      *)
(***************************************************************************)
Plan == [slots : Nat, printer : DOMAIN BedSize, width : Nat, brim : Nat, x : Int,
         on : BOOLEAN, user : Seq(Int)]
Placement == [none : {FALSE}, x : Int, width : Nat, brim : Nat, slots : Nat,
              printer : DOMAIN BedSize]
Mesh == [reach : Int \X Int, slots : Nat, printer : DOMAIN BedSize \cup {"none"},
         of : Plan, overtaken : BOOLEAN]
Maybe(S) == {<< >>} \cup {<<v>> : v \in S}

SceneTypes ==
  /\ setup \in [TowerPlates -> Plan] /\ activePlate \in TowerPlates
  /\ towerGeom \in [TowerPlates -> Maybe(Placement \cup {None0})]
  /\ towerMesh \in [TowerPlates -> Maybe(Mesh)]
  /\ slicing \in Maybe([plate : TowerPlates, of : Plan])

DragTypes ==
  /\ towerDrag \in Maybe([plate : TowerPlates, x : Int])
  /\ press \in Maybe([offset : Int, clamped : Maybe(Int)])
  /\ answers \in Seq(Int) /\ Len(answers) <= InFlight
  /\ press = << >> => answers = << >>
  /\ towerLeft \in 0..EditsLeft

SignTypes ==
  /\ mounted \in BOOLEAN /\ overtaken \in BOOLEAN
  /\ events \subseteq TowerPlates /\ missed \subseteq TowerPlates

(* A placement older than its plate has an event on its way, or had none    *)
(* that anybody heard.                                                      *)
Fresh0(p) == towerGeom[p] \in {<< >>, <<Resolve(setup[p])>>}
PlacementsFresh == \A p \in TowerPlates \ (events \cup missed) : Fresh0(p)

(* A drag that outlives its press is being committed, or never will be; one *)
(* that outlives the page never will.                                       *)
DragEnds ==
  /\ events = {} /\ press = << >> /\ ~unsettled => towerDrag = << >>
  /\ ~mounted => press = << >> /\ (~unsettled => towerDrag = << >>)

(* The last frame is what the next one would be.                            *)
FrameHolds ==
  drawn # << >> =>
    /\ towerGeom[activePlate] # << >> /\ ~Resolved(activePlate).none
    /\ drawn = <<[plate |-> activePlate,
                  x     |-> EffectiveCorner(activePlate, Resolved(activePlate)),
                  reach |-> Reach(activePlate, Resolved(activePlate)),
                  mesh  |-> ValidMesh(activePlate, Resolved(activePlate))]>>

(* The slice at work is of its plate as it is, unless overtaken; a mesh      *)
(* that was not is labelled with what it was sliced for.                    *)
SliceIsOfPlate ==
  slicing # << >> /\ ~overtaken => slicing[1].of = setup[slicing[1].plate]

MeshIsLabelled ==
  \A p \in TowerPlates : towerMesh[p] # << >> =>
    LET m == towerMesh[p][1] IN
      m.overtaken \/ (m.slots = m.of.slots /\ m.printer = m.of.printer)

TowerInv ==
  /\ SceneTypes /\ DragTypes /\ SignTypes /\ PlacementsFresh /\ DragEnds
  /\ FrameHolds /\ SliceIsOfPlate /\ MeshIsLabelled

-----------------------------------------------------------------------------
LEMMA MaybeOne ==
  ASSUME NEW S, NEW v \in S
  PROVE  <<v>> \in Maybe(S) /\ <<v>> # << >> /\ <<v>>[1] = v /\ Len(<<v>>) = 1
  BY DEF Maybe

LEMMA MaybeNone == ASSUME NEW S PROVE << >> \in Maybe(S) /\ Len(<< >>) = 0
  BY DEF Maybe

LEMMA MaybeHas ==
  ASSUME NEW S, NEW m \in Maybe(S), m # << >>
  PROVE  m[1] \in S /\ m = <<m[1]>> /\ Len(m) = 1 /\ DOMAIN m = {1}
  BY DEF Maybe

LEMMA MaybeLen == ASSUME NEW S, NEW m \in Maybe(S) PROVE Len(m) <= 1
<1>1. CASE m = << >>
  BY <1>1
<1>2. CASE m # << >>
  <2>1. Len(m) = 1
    BY <1>2, MaybeHas
  <2> QED
    BY <2>1
<1> QED
  BY <1>1, <1>2

LEMMA FirstPlateIsOne == FirstPlate \in TowerPlates
  BY TowerAssumption DEF FirstPlate

LEMMA ResolveType == ASSUME NEW c \in Plan PROVE Resolve(c) \in Placement \cup {None0}
  BY DEF Resolve, Plan, Placement

LEMMA ResolvedType ==
  ASSUME SceneTypes, NEW p \in TowerPlates
  PROVE  /\ Resolved(p) \in Placement \cup {None0}
         /\ ~Resolved(p).none => Resolved(p) \in Placement
         /\ towerGeom[p] # << >> => towerGeom[p] = <<Resolved(p)>>
<1>1. setup[p] \in Plan /\ towerGeom[p] \in Maybe(Placement \cup {None0})
  BY DEF SceneTypes
<1>2. \A g \in Placement \cup {None0} : ~g.none => g \in Placement
  BY DEF None0
<1>3. Resolved(p) \in Placement \cup {None0}
  <2>1. CASE towerGeom[p] = << >>
    BY <1>1, <2>1, ResolveType DEF Resolved
  <2>2. CASE towerGeom[p] # << >>
    BY <1>1, <2>2, MaybeHas DEF Resolved
  <2> QED
    BY <2>1, <2>2
<1>4. towerGeom[p] # << >> => towerGeom[p] = <<Resolved(p)>>
  BY <1>1, MaybeHas DEF Resolved
<1> QED
  BY <1>2, <1>3, <1>4

LEMMA ClampType ==
  ASSUME NEW reach \in Int \X Int, NEW bed \in Nat, NEW x \in Int
  PROVE  /\ ClampCorner(reach, bed, x) \in Int
         /\ ClampCorner(reach, bed, x) + reach[1] >= 0
         /\ \/ ClampCorner(reach, bed, x) + reach[2] <= bed
            \/ ClampCorner(reach, bed, x) + reach[1] = 0
<1>1. reach[1] \in Int /\ reach[2] \in Int
  OBVIOUS
<1> QED
  BY <1>1 DEF ClampCorner

LEMMA ReachType ==
  ASSUME SceneTypes, NEW p \in TowerPlates, NEW g \in Placement
  PROVE  Reach(p, g) \in Int \X Int
<1>1. CASE ValidMesh(p, g) = << >>
  BY <1>1 DEF Reach, Placement
<1>2. CASE ValidMesh(p, g) # << >>
  <2>1. ValidMesh(p, g) = towerMesh[p] /\ towerMesh[p] \in Maybe(Mesh)
    BY <1>2 DEF ValidMesh, SceneTypes
  <2>2. ValidMesh(p, g)[1] \in Mesh
    BY <1>2, <2>1, MaybeHas
  <2> QED
    BY <1>2, <2>2 DEF Reach, Mesh
<1> QED
  BY <1>1, <1>2

LEMMA CornerType ==
  ASSUME SceneTypes, DragTypes, NEW p \in TowerPlates, NEW g \in Placement
  PROVE  EffectiveCorner(p, g) \in Int
<1>1. BedSize[setup[p].printer] \in Nat /\ g.x \in Int
  BY TowerAssumption DEF SceneTypes, Plan, Placement
<1>2. ClampCorner(Reach(p, g), BedSize[setup[p].printer], g.x) \in Int
  BY <1>1, ReachType, ClampType
<1>3. ASSUME towerDrag # << >> PROVE towerDrag[1].x \in Int
  <2>1. towerDrag[1] \in [plate : TowerPlates, x : Int]
    BY <1>3, MaybeHas DEF DragTypes
  <2> QED
    BY <2>1
<1> QED
  BY <1>2, <1>3 DEF EffectiveCorner

LEMMA TowerInitInv == TowerInit => TowerInv
<1> SUFFICES ASSUME TowerInit PROVE TowerInv
  OBVIOUS
<1>1. setup \in [TowerPlates -> Plan]
  BY TowerAssumption DEF TowerInit, Plan
<1>2. slicing \in Maybe([plate : TowerPlates, of : Plan]) /\ SliceIsOfPlate
  <2>1. CASE slicing = << >>
    BY <2>1, MaybeNone DEF SliceIsOfPlate
  <2>2. CASE slicing # << >>
    <3>1. PICK v : v = [plate |-> FirstPlate, of |-> setup[FirstPlate]]
      OBVIOUS
    <3>2. slicing = <<v>> /\ v \in [plate : TowerPlates, of : Plan]
      BY <1>1, <2>2, <3>1, FirstPlateIsOne DEF TowerInit
    <3>3. slicing[1] = v
      BY <3>2
    <3> QED
      BY <3>1, <3>2, <3>3, MaybeOne DEF SliceIsOfPlate
  <2> QED
    BY <2>1, <2>2
<1>3. SceneTypes
  BY <1>1, <1>2, FirstPlateIsOne, MaybeNone DEF TowerInit, SceneTypes
<1>4. DragTypes
  BY TowerAssumption, MaybeNone DEF TowerInit, DragTypes
<1>5. SignTypes
  BY DEF TowerInit, SignTypes
<1>6. PlacementsFresh /\ DragEnds /\ FrameHolds /\ MeshIsLabelled
  <2>1. PlacementsFresh /\ FrameHolds /\ MeshIsLabelled
    BY DEF TowerInit, PlacementsFresh, Fresh0, FrameHolds, MeshIsLabelled
  <2>2. mounted = TRUE /\ towerDrag = << >>
    BY DEF TowerInit
  <2> QED
    BY <2>1, <2>2 DEF DragEnds
<1> QED
  BY <1>2, <1>3, <1>4, <1>5, <1>6 DEF TowerInv

LEMMA ResolvingKeeps ==
  ASSUME SceneTypes, PlacementsFresh, NEW p \in TowerPlates, Resolving(p)
  PROVE  /\ towerGeom' \in [TowerPlates -> Maybe(Placement \cup {None0})]
         /\ towerGeom'[p] = <<Resolved(p)>>
         /\ towerGeom[p] # << >> => towerGeom' = towerGeom
         /\ \A q \in TowerPlates \ (events \cup missed) :
              towerGeom'[q] \in {<< >>, <<Resolve(setup[q])>>}
<1>1. towerGeom \in [TowerPlates -> Maybe(Placement \cup {None0})]
  BY DEF SceneTypes
<1>2. PICK g : g = <<Resolved(p)>>
  OBVIOUS
<1>3. towerGeom' = [towerGeom EXCEPT ![p] = g]
  BY <1>2 DEF Resolving
<1>4. g \in Maybe(Placement \cup {None0})
  BY <1>2, ResolvedType, MaybeOne
<1>5. towerGeom[p] # << >> => g = towerGeom[p]
  BY <1>2, ResolvedType
<1>6. towerGeom[p] = << >> => g = <<Resolve(setup[p])>>
  BY <1>2 DEF Resolved
<1>7. towerGeom[p] # << >> => towerGeom' = towerGeom
  BY <1>1, <1>3, <1>5
<1>8. ASSUME NEW q \in TowerPlates \ (events \cup missed)
      PROVE  towerGeom'[q] \in {<< >>, <<Resolve(setup[q])>>}
  <2>1. towerGeom[q] \in {<< >>, <<Resolve(setup[q])>>}
    BY <1>8 DEF PlacementsFresh, Fresh0
  <2>2. CASE q = p
    BY <1>1, <1>3, <1>5, <1>6, <2>1, <2>2
  <2>3. CASE q # p
    BY <1>1, <1>3, <2>1, <2>3
  <2> QED
    BY <2>2, <2>3
<1> QED
  BY <1>1, <1>2, <1>3, <1>4, <1>7, <1>8

(* What is drawn looks the same as long as its placement, mesh, drag and    *)
(* printer do.                                                              *)
LEMMA FrameKeeps ==
  ASSUME SceneTypes, FrameHolds, drawn' = drawn, activePlate' = activePlate,
         towerGeom[activePlate] # << >> => towerGeom' = towerGeom,
         towerMesh' = towerMesh, towerDrag' = towerDrag,
         setup'[activePlate].printer = setup[activePlate].printer
  PROVE  FrameHolds'
<1> SUFFICES ASSUME drawn # << >> PROVE FrameHolds'
  BY DEF FrameHolds
<1>1. PICK p \in TowerPlates : p = activePlate
  BY DEF SceneTypes
<1>2. PICK g : g = Resolved(p)
  OBVIOUS
<1>3. towerGeom[p] # << >> /\ towerGeom' = towerGeom /\ ~g.none
  BY <1>1, <1>2 DEF FrameHolds
<1>4. Resolved(p)' = g
  BY <1>2, <1>3 DEF Resolved
<1>5. ValidMesh(p, g)' = ValidMesh(p, g)
  BY DEF ValidMesh
<1>6. Reach(p, g)' = Reach(p, g)
  BY <1>5 DEF Reach
<1>7. EffectiveCorner(p, g)' = EffectiveCorner(p, g)
  BY <1>1, <1>6 DEF EffectiveCorner
<1>8. drawn = <<[plate |-> p, x |-> EffectiveCorner(p, g), reach |-> Reach(p, g),
                 mesh |-> ValidMesh(p, g)]>>
  BY <1>1, <1>2 DEF FrameHolds
<1> QED
  BY <1>1, <1>3, <1>4, <1>5, <1>6, <1>7, <1>8 DEF FrameHolds

LEMMA FrameStep == TowerInv /\ TowerFrame => TowerInv'
<1> SUFFICES ASSUME TowerInv, TowerFrame PROVE TowerInv'
  OBVIOUS
<1>1. PICK p \in TowerPlates : p = activePlate
  BY DEF TowerInv, SceneTypes
<1>2. PICK g : g = Resolved(p)
  OBVIOUS
<1>3. /\ Resolving(p) /\ activePlate' = activePlate /\ setup' = setup
      /\ towerMesh' = towerMesh /\ towerDrag' = towerDrag /\ slicing' = slicing
      /\ press' = press /\ answers' = answers /\ towerLeft' = towerLeft
  BY <1>1 DEF TowerFrame
<1>4. UNCHANGED <<mounted, events, missed>> /\ (unsettled' <=> unsettled) /\ (overtaken' <=> overtaken)
      /\ SignTypes'
  BY DEF TowerFrame, TowerInv, SignTypes, hearing
<1>5. drawn' = IF g.none THEN << >>
               ELSE <<[plate |-> p, x |-> EffectiveCorner(p, g), reach |-> Reach(p, g),
                       mesh |-> ValidMesh(p, g)]>>
  BY <1>1, <1>2 DEF TowerFrame
<1>6. /\ towerGeom' \in [TowerPlates -> Maybe(Placement \cup {None0})]
      /\ towerGeom'[p] = <<g>>
      /\ \A q \in TowerPlates \ (events \cup missed) : towerGeom'[q] \in {<< >>, <<Resolve(setup[q])>>}
  BY <1>2, <1>3, ResolvingKeeps DEF TowerInv
<1>7. SceneTypes' /\ DragTypes'
  BY <1>3, <1>6 DEF TowerInv, SceneTypes, DragTypes
<1>8. PlacementsFresh' /\ DragEnds' /\ SliceIsOfPlate' /\ MeshIsLabelled'
  BY <1>3, <1>4, <1>6
     DEF TowerInv, PlacementsFresh, Fresh0, DragEnds, SliceIsOfPlate, MeshIsLabelled
<1>9. FrameHolds'
  <2>1. Resolved(p)' = g /\ towerGeom'[p] # << >>
    BY <1>6 DEF Resolved
  <2>2. ValidMesh(p, g)' = ValidMesh(p, g)
    BY <1>3 DEF ValidMesh
  <2>3. Reach(p, g)' = Reach(p, g)
    BY <2>2 DEF Reach
  <2>4. EffectiveCorner(p, g)' = EffectiveCorner(p, g)
    BY <1>3, <2>3 DEF EffectiveCorner
  <2>5. CASE g.none
    BY <1>5, <2>5 DEF FrameHolds
  <2>6. CASE ~g.none
    BY <1>1, <1>3, <1>5, <2>1, <2>2, <2>3, <2>4, <2>6 DEF FrameHolds
  <2> QED
    BY <2>5, <2>6
<1> QED
  BY <1>4, <1>7, <1>8, <1>9 DEF TowerInv

(* A change of a plate's configuration, whether anybody hears of it or not.  *)
LEMMA ConfigureKeeps ==
  ASSUME TowerInv, NEW p \in TowerPlates, NEW cfg \in Configs, Configure(p, cfg), SignTypes',
         \A q \in TowerPlates \ (events' \cup missed') :
           (q # p \/ towerGeom[p] = << >>) /\ q \notin events \cup missed,
         events' = {} => events = {}
  PROVE  TowerInv'
<1>1. cfg \in Plan
  BY TowerAssumption DEF Plan
<1>2. /\ setup' = [setup EXCEPT ![p] = cfg] /\ drawn' = << >>
      /\ towerLeft > 0 /\ towerLeft' = towerLeft - 1
      /\ UNCHANGED <<activePlate, towerGeom, towerMesh, towerDrag, slicing, press, answers>>
  BY DEF Configure, Spend
<1>3. (overtaken' <=> overtaken \/ SlicingOf(p)) /\ mounted' = mounted
      /\ (unsettled' <=> unsettled)
  BY DEF Configure
<1>4. SceneTypes'
  BY <1>1, <1>2 DEF TowerInv, SceneTypes
<1>5. DragTypes'
  BY <1>2, TowerAssumption DEF TowerInv, DragTypes
<1>6. PlacementsFresh'
  BY <1>2 DEF TowerInv, PlacementsFresh, Fresh0, SceneTypes
<1>7. DragEnds' /\ FrameHolds' /\ MeshIsLabelled'
  BY <1>2, <1>3 DEF TowerInv, DragEnds, FrameHolds, MeshIsLabelled
<1>8. SliceIsOfPlate'
  <2> SUFFICES ASSUME slicing # << >>, ~overtaken' PROVE slicing[1].of = setup'[slicing[1].plate]
    BY <1>2 DEF SliceIsOfPlate
  <2>1. slicing[1].of = setup[slicing[1].plate] /\ slicing[1].plate # p
    BY <1>3 DEF TowerInv, SliceIsOfPlate, SlicingOf
  <2>2. slicing[1] \in [plate : TowerPlates, of : Plan]
    BY MaybeHas DEF TowerInv, SceneTypes
  <2> QED
    BY <1>2, <2>1, <2>2 DEF TowerInv, SceneTypes
<1> QED
  BY <1>4, <1>5, <1>6, <1>7, <1>8 DEF TowerInv

LEMMA EditKeeps ==
  ASSUME TowerInv, NEW p \in TowerPlates, NEW cfg \in Configs,
         EditPlate(p, cfg) \/ EditUnheard(p, cfg)
  PROVE  TowerInv'
<1>1. Configure(p, cfg)
  BY DEF EditPlate, EditUnheard
<1>2. SignTypes'
  <2>1. mounted' \in BOOLEAN /\ overtaken' \in BOOLEAN
    BY <1>1 DEF Configure, TowerInv, SignTypes, SlicingOf
  <2>2. events' \subseteq TowerPlates /\ missed' \subseteq TowerPlates
    BY DEF EditPlate, EditUnheard, Misses, TowerInv, SignTypes
  <2> QED
    BY <2>1, <2>2 DEF SignTypes
<1>3. \A q \in TowerPlates \ (events' \cup missed') :
        (q # p \/ towerGeom[p] = << >>) /\ q \notin events \cup missed
  BY DEF EditPlate, EditUnheard, Misses
<1>4. events' = {} => events = {}
  BY DEF EditPlate, EditUnheard
<1> QED
  BY <1>1, <1>2, <1>3, <1>4, ConfigureKeeps

(* Another layout and back; an event in between.                            *)
LEMMA LayoutKeeps ==
  ASSUME TowerInv, NEW p \in TowerPlates, Unmount \/ Mount \/ LoseEvent(p) PROVE TowerInv'
<1>1. /\ UNCHANGED <<setup, activePlate, towerGeom, towerMesh, towerDrag, slicing, towerLeft>>
      /\ \/ press' = << >> /\ answers' = << >>
         \/ UNCHANGED <<press, answers>>
      /\ drawn' = << >> \/ drawn' = drawn
  <2>1. CASE Unmount
    BY <2>1 DEF Unmount
  <2>2. CASE Mount
    BY <2>2 DEF Mount
  <2>3. CASE LoseEvent(p)
    BY <2>3 DEF LoseEvent
  <2> QED
    BY <2>1, <2>2, <2>3
<1>2. (overtaken' <=> overtaken) /\ SignTypes'
  <2>1. (overtaken' <=> overtaken) /\ overtaken' \in BOOLEAN /\ mounted' \in BOOLEAN
    <3>1. mounted \in BOOLEAN /\ overtaken \in BOOLEAN
      BY DEF TowerInv, SignTypes
    <3>2. CASE Unmount
      BY <3>1, <3>2, Zenon DEF Unmount
    <3>3. CASE Mount
      BY <3>1, <3>3, Zenon DEF Mount
    <3>4. CASE LoseEvent(p)
      BY <3>1, <3>4, Zenon DEF LoseEvent
    <3> QED
      BY <3>2, <3>3, <3>4
  <2>2. events' \subseteq TowerPlates /\ missed' \subseteq TowerPlates
    BY DEF Unmount, Mount, LoseEvent, Misses, TowerInv, SignTypes
  <2> QED
    BY <2>1, <2>2 DEF SignTypes
<1>3. SceneTypes' /\ SliceIsOfPlate' /\ MeshIsLabelled'
  BY <1>1, <1>2 DEF TowerInv, SceneTypes, SliceIsOfPlate, MeshIsLabelled
<1>4. DragTypes'
  <2>1. CASE press' = << >> /\ answers' = << >>
    BY <1>1, <2>1, MaybeNone, TowerAssumption DEF TowerInv, DragTypes
  <2>2. CASE UNCHANGED <<press, answers>>
    BY <1>1, <2>2 DEF TowerInv, DragTypes
  <2> QED
    BY <1>1, <2>1, <2>2
<1>5. PlacementsFresh'
  <2>1. \A q \in TowerPlates \ (events' \cup missed') :
          q \in TowerPlates \ (events \cup missed) \/ towerGeom[q] = << >>
    BY DEF Unmount, Mount, LoseEvent, Misses
  <2> QED
    BY <1>1, <2>1 DEF TowerInv, PlacementsFresh, Fresh0
<1>6. DragEnds'
  <2>1. CASE Unmount
    BY <2>1 DEF Unmount, TowerInv, DragEnds
  <2>2. CASE Mount
    BY <2>2 DEF Mount, TowerInv, DragEnds
  <2>3. CASE LoseEvent(p)
    BY <2>3 DEF LoseEvent, TowerInv, DragEnds
  <2> QED
    BY <2>1, <2>2, <2>3
<1>7. FrameHolds'
  <2>1. CASE drawn' = << >>
    BY <2>1 DEF FrameHolds
  <2>2. CASE drawn' = drawn
    BY <1>1, <2>2, FrameKeeps DEF TowerInv
  <2> QED
    BY <1>1, <2>1, <2>2
<1> QED
  BY <1>2, <1>3, <1>4, <1>5, <1>6, <1>7 DEF TowerInv

LEMMA SwitchKeeps ==
  ASSUME TowerInv, NEW p \in TowerPlates, SwitchPlate(p) PROVE TowerInv'
<1>1. /\ activePlate' = p /\ drawn' = << >>
      /\ UNCHANGED <<setup, towerGeom, towerMesh, towerDrag, slicing, press, answers, towerLeft>>
  BY DEF SwitchPlate
<1>2. UNCHANGED <<mounted, events, missed>> /\ (unsettled' <=> unsettled) /\ (overtaken' <=> overtaken)
      /\ SignTypes'
  BY DEF SwitchPlate, TowerInv, SignTypes, hearing
<1> QED
  BY <1>1, <1>2
     DEF TowerInv, SceneTypes, DragTypes, PlacementsFresh, Fresh0, DragEnds, FrameHolds,
         SliceIsOfPlate, MeshIsLabelled

LEMMA InvalidateKeeps ==
  ASSUME TowerInv, NEW q \in TowerPlates, InvalidateTower(q) PROVE TowerInv'
<1>1. /\ towerGeom' = [p \in TowerPlates |-> << >>] /\ towerDrag' = << >> /\ drawn' = << >>
      /\ UNCHANGED <<setup, activePlate, towerMesh, slicing, press, answers, towerLeft>>
  BY DEF InvalidateTower, DropPlacements
<1>2. (overtaken' <=> overtaken) /\ mounted' = mounted /\ mounted
  BY DEF InvalidateTower
<1>3. SignTypes'
  BY DEF InvalidateTower, SignTypes, TowerInv
<1>4. SceneTypes' /\ DragTypes'
  BY <1>1, MaybeNone DEF TowerInv, SceneTypes, DragTypes
<1>5. PlacementsFresh' /\ DragEnds' /\ FrameHolds' /\ SliceIsOfPlate' /\ MeshIsLabelled'
  BY <1>1, <1>2
     DEF TowerInv, PlacementsFresh, Fresh0, DragEnds, FrameHolds, SliceIsOfPlate, MeshIsLabelled
<1> QED
  BY <1>3, <1>4, <1>5 DEF TowerInv

LEMMA ReplaceKeeps ==
  ASSUME TowerInv, NEW cfg \in Configs, ReplaceProject(cfg) PROVE TowerInv'
<1>1. cfg \in Plan
  BY TowerAssumption DEF Plan
<1>2. /\ setup' = [p \in TowerPlates |-> cfg] /\ activePlate' = FirstPlate
      /\ towerGeom' = [p \in TowerPlates |-> << >>] /\ towerDrag' = << >> /\ drawn' = << >>
      /\ towerMesh' = [p \in TowerPlates |-> << >>]
      /\ towerLeft > 0 /\ towerLeft' = towerLeft - 1
      /\ UNCHANGED <<slicing, press, answers>>
  BY DEF ReplaceProject, ClearTowers, DropPlacements, Spend
<1>3. (overtaken' <=> slicing # << >>) /\ mounted' = mounted
  BY DEF ReplaceProject
<1>4. SignTypes'
  BY DEF ReplaceProject, SignTypes, TowerInv
<1>5. SceneTypes'
  BY <1>1, <1>2, FirstPlateIsOne, MaybeNone DEF TowerInv, SceneTypes
<1>6. DragTypes'
  BY <1>2, MaybeNone, TowerAssumption DEF TowerInv, DragTypes
<1>7. PlacementsFresh' /\ DragEnds' /\ FrameHolds' /\ SliceIsOfPlate' /\ MeshIsLabelled'
  BY <1>2, <1>3
     DEF TowerInv, PlacementsFresh, Fresh0, DragEnds, FrameHolds, SliceIsOfPlate, MeshIsLabelled
<1> QED
  BY <1>4, <1>5, <1>6, <1>7 DEF TowerInv

LEMMA StartKeeps ==
  ASSUME TowerInv, NEW p \in TowerPlates, StartTowerSlice(p) PROVE TowerInv'
<1>1. PICK v : v = [plate |-> p, of |-> setup[p]]
  OBVIOUS
<1>2. v \in [plate : TowerPlates, of : Plan]
  BY <1>1 DEF TowerInv, SceneTypes
<1>3. /\ slicing' = <<v>> /\ slicing'[1] = v
      /\ towerLeft > 0 /\ towerLeft' = towerLeft - 1
      /\ UNCHANGED <<setup, activePlate, towerGeom, towerMesh, towerDrag, press, answers, drawn>>
  BY <1>1 DEF StartTowerSlice, Spend
<1>4. UNCHANGED <<mounted, events, missed>> /\ (unsettled' <=> unsettled) /\ SignTypes'
  BY DEF StartTowerSlice, TowerInv, SignTypes, hearing
<1>5. SceneTypes'
  BY <1>2, <1>3, MaybeOne DEF TowerInv, SceneTypes
<1>6. DragTypes'
  BY <1>3, TowerAssumption DEF TowerInv, DragTypes
<1>7. PlacementsFresh' /\ DragEnds' /\ MeshIsLabelled'
  BY <1>3, <1>4 DEF TowerInv, PlacementsFresh, Fresh0, DragEnds, MeshIsLabelled
<1>8. SliceIsOfPlate'
  BY <1>1, <1>3 DEF SliceIsOfPlate
<1>9. FrameHolds'
  BY <1>3, FrameKeeps DEF TowerInv
<1> QED
  BY <1>4, <1>5, <1>6, <1>7, <1>8, <1>9 DEF TowerInv

LEMMA SlicedKeeps == TowerInv /\ TowerSliced => TowerInv'
<1> SUFFICES ASSUME TowerInv, TowerSliced PROVE TowerInv'
  OBVIOUS
<1>1. PICK p, of : p = slicing[1].plate /\ of = slicing[1].of
  OBVIOUS
<1>2. p \in TowerPlates /\ of \in Plan /\ setup[p] \in Plan
  <2>1. slicing[1] \in [plate : TowerPlates, of : Plan]
    BY MaybeHas DEF TowerSliced, TowerInv, SceneTypes
  <2>2. p \in TowerPlates /\ of \in Plan
    BY <1>1, <2>1
  <2> QED
    BY <2>2 DEF TowerInv, SceneTypes
<1>3. PICK label : label = Labelled0(setup[p])
  OBVIOUS
<1>4. label.slots \in Nat /\ label.printer \in DOMAIN BedSize \cup {"none"}
  <2>1. CASE setup[p].slots < 2 \/ ~setup[p].on
    BY <1>3, <2>1 DEF Labelled0, Resolve, None0
  <2>2. CASE ~(setup[p].slots < 2 \/ ~setup[p].on)
    BY <1>2, <1>3, <2>2 DEF Labelled0, Resolve, Plan
  <2> QED
    BY <2>1, <2>2
<1>5. PICK m : m = [reach |-> <<-1, of.width + 1>>, slots |-> label.slots,
                    printer |-> label.printer, of |-> of, overtaken |-> overtaken]
  OBVIOUS
<1>6. m \in Mesh
  <2>1. <<-1, of.width + 1>> \in Int \X Int
    BY <1>2 DEF Plan
  <2>2. overtaken \in BOOLEAN
    BY DEF TowerInv, SignTypes
  <2> QED
    BY <1>2, <1>4, <1>5, <2>1, <2>2 DEF Mesh
<1>7. /\ towerMesh' = [towerMesh EXCEPT ![p] = IF Resolve(of).none THEN << >> ELSE <<m>>]
      /\ slicing' = << >> /\ drawn' = << >>
      /\ UNCHANGED <<setup, activePlate, towerGeom, towerDrag, press, answers, towerLeft>>
  BY <1>1, <1>3, <1>5 DEF TowerSliced
<1>8. UNCHANGED <<mounted, events, missed>> /\ (unsettled' <=> unsettled) /\ SignTypes'
  BY DEF TowerSliced, TowerInv, SignTypes, hearing
<1>9. SceneTypes'
  <2>1. (IF Resolve(of).none THEN << >> ELSE <<m>>) \in Maybe(Mesh)
    BY <1>6, MaybeOne, MaybeNone
  <2> QED
    BY <1>7, <2>1, MaybeNone DEF TowerInv, SceneTypes
<1>10. DragTypes' /\ PlacementsFresh' /\ DragEnds' /\ FrameHolds' /\ SliceIsOfPlate'
  BY <1>7, <1>8
     DEF TowerInv, DragTypes, PlacementsFresh, Fresh0, DragEnds, FrameHolds, SliceIsOfPlate
<1>11. ~Resolve(of).none => m.overtaken \/ (m.slots = m.of.slots /\ m.printer = m.of.printer)
  <2> SUFFICES ASSUME ~Resolve(of).none, ~overtaken
               PROVE  m.slots = m.of.slots /\ m.printer = m.of.printer
    BY <1>5
  <2>1. of = setup[p]
    BY <1>1 DEF TowerSliced, TowerInv, SliceIsOfPlate
  <2>2. label.slots = of.slots /\ label.printer = of.printer
    BY <1>2, <1>3, <2>1 DEF Labelled0, Resolve, None0, Plan
  <2> QED
    BY <1>5, <2>2
<1>12. MeshIsLabelled'
  <2> SUFFICES ASSUME NEW q \in TowerPlates, towerMesh'[q] # << >>
               PROVE  \/ towerMesh'[q][1].overtaken
                      \/ /\ towerMesh'[q][1].slots = towerMesh'[q][1].of.slots
                         /\ towerMesh'[q][1].printer = towerMesh'[q][1].of.printer
    BY DEF MeshIsLabelled
  <2>1. CASE q = p
    <3>1. towerMesh'[q] = <<m>> /\ ~Resolve(of).none /\ towerMesh'[q][1] = m
      BY <1>2, <1>7, <2>1 DEF TowerInv, SceneTypes, Plan
    <3> QED
      BY <1>11, <3>1
  <2>2. CASE q # p
    <3>1. towerMesh'[q] = towerMesh[q]
      BY <1>7, <2>2 DEF TowerInv, SceneTypes
    <3> QED
      BY <2>2, <3>1 DEF TowerInv, MeshIsLabelled
  <2> QED
    BY <2>1, <2>2
<1> QED
  BY <1>8, <1>9, <1>10, <1>12 DEF TowerInv

(* The page's drag of the tower.                                            *)
LEMMA PressKeeps ==
  ASSUME TowerInv, NEW bx \in Spots, PressTower(bx) PROVE TowerInv'
<1>1. PICK p \in TowerPlates : p = activePlate
  BY DEF TowerInv, SceneTypes
<1>2. PICK x : x = HitCorner(p, Resolved(p))
  OBVIOUS
<1>3. Resolved(p) \in Placement
  BY <1>1, ResolvedType DEF PressTower, Dragging, TowerInv
<1>4. x \in Int /\ bx \in Int
  BY <1>2, <1>3, CornerType, TowerAssumption DEF TowerInv, HitCorner
<1>5. PICK q : q = [offset |-> bx - x, clamped |-> << >>]
  OBVIOUS
<1>6. q \in [offset : Int, clamped : Maybe(Int)]
  BY <1>4, <1>5, MaybeNone
<1>7. /\ press' = <<q>> /\ answers' = << >> /\ Resolving(p)
      /\ towerLeft > 0 /\ towerLeft' = towerLeft - 1
      /\ UNCHANGED <<setup, activePlate, towerMesh, towerDrag, slicing, drawn>>
  BY <1>1, <1>2, <1>5 DEF PressTower, Spend, DiscardAnswers
<1>8. UNCHANGED <<mounted, events, missed>> /\ (unsettled' <=> unsettled) /\ (overtaken' <=> overtaken)
      /\ SignTypes' /\ mounted
  BY DEF PressTower, TowerInv, SignTypes, hearing
<1>9. /\ towerGeom' \in [TowerPlates -> Maybe(Placement \cup {None0})]
      /\ towerGeom[p] # << >> => towerGeom' = towerGeom
      /\ \A r \in TowerPlates \ (events \cup missed) : towerGeom'[r] \in {<< >>, <<Resolve(setup[r])>>}
  BY <1>7, ResolvingKeeps DEF TowerInv
<1>10. SceneTypes'
  BY <1>7, <1>9 DEF TowerInv, SceneTypes
<1>11. DragTypes'
  <2>1. press' \in Maybe([offset : Int, clamped : Maybe(Int)]) /\ press' # << >>
    BY <1>6, <1>7, MaybeOne
  <2>2. answers' \in Seq(Int) /\ Len(answers') <= InFlight
    BY <1>7, TowerAssumption
  <2>3. towerLeft' \in 0..EditsLeft
    BY <1>7, TowerAssumption DEF TowerInv, DragTypes
  <2> QED
    BY <1>7, <2>1, <2>2, <2>3 DEF TowerInv, DragTypes
<1>12. PlacementsFresh' /\ DragEnds' /\ SliceIsOfPlate' /\ MeshIsLabelled'
  BY <1>7, <1>8, <1>9
     DEF TowerInv, PlacementsFresh, Fresh0, DragEnds, SliceIsOfPlate, MeshIsLabelled
<1>13. FrameHolds'
  BY <1>1, <1>7, <1>9, FrameKeeps DEF TowerInv
<1> QED
  BY <1>8, <1>10, <1>11, <1>12, <1>13 DEF TowerInv

LEMMA MoveKeeps ==
  ASSUME TowerInv, NEW bx \in Spots, MoveTower(bx) PROVE TowerInv'
<1>1. PICK p \in TowerPlates : p = activePlate
  BY DEF TowerInv, SceneTypes
<1>2. PICK x : x = ClampCorner(Reach(p, Resolved(p)), BedSize[setup[p].printer],
                               bx - press[1].offset)
  OBVIOUS
<1>3. Resolved(p) \in Placement
  BY <1>1, ResolvedType DEF MoveTower, Dragging, TowerInv
<1>4. x \in Int
  <2>1. press[1] \in [offset : Int, clamped : Maybe(Int)]
    BY MaybeHas DEF MoveTower, TowerInv, DragTypes
  <2>2. bx - press[1].offset \in Int
    BY <2>1, TowerAssumption
  <2>3. BedSize[setup[p].printer] \in Nat
    BY TowerAssumption DEF TowerInv, SceneTypes, Plan
  <2> QED
    BY <1>2, <1>3, <2>2, <2>3, ReachType, ClampType DEF TowerInv
<1>5. PICK d : d = [plate |-> p, x |-> x]
  OBVIOUS
<1>6. d \in [plate : TowerPlates, x : Int]
  BY <1>4, <1>5
<1>7. /\ towerDrag' = <<d>> /\ answers' = Append(answers, x) /\ Len(answers) < InFlight
      /\ Resolving(p) /\ press # << >> /\ drawn' = << >>
      /\ UNCHANGED <<setup, activePlate, towerMesh, slicing, press, towerLeft>>
  BY <1>1, <1>2, <1>5 DEF MoveTower
<1>8. UNCHANGED <<mounted, events, missed>> /\ (unsettled' <=> unsettled) /\ (overtaken' <=> overtaken)
      /\ SignTypes'
  BY DEF MoveTower, TowerInv, SignTypes, hearing
<1>9. /\ towerGeom' \in [TowerPlates -> Maybe(Placement \cup {None0})]
      /\ \A r \in TowerPlates \ (events \cup missed) : towerGeom'[r] \in {<< >>, <<Resolve(setup[r])>>}
  BY <1>7, ResolvingKeeps DEF TowerInv
<1>10. SceneTypes'
  BY <1>7, <1>9 DEF TowerInv, SceneTypes
<1>11. DragTypes'
  <2>1. answers' \in Seq(Int) /\ Len(answers') <= InFlight
    BY <1>4, <1>7, TowerAssumption DEF TowerInv, DragTypes
  <2> QED
    BY <1>6, <1>7, <2>1, MaybeOne DEF TowerInv, DragTypes
<1>12. PlacementsFresh' /\ DragEnds' /\ FrameHolds' /\ SliceIsOfPlate' /\ MeshIsLabelled'
  BY <1>7, <1>8, <1>9
     DEF TowerInv, PlacementsFresh, Fresh0, DragEnds, FrameHolds, SliceIsOfPlate, MeshIsLabelled
<1> QED
  BY <1>8, <1>10, <1>11, <1>12 DEF TowerInv

LEMMA AnsweredKeeps == TowerInv /\ MoveAnswered => TowerInv'
<1> SUFFICES ASSUME TowerInv, MoveAnswered PROVE TowerInv'
  OBVIOUS
<1>1. /\ press # << >> /\ answers # << >> /\ answers' = Tail(answers)
      /\ press' = [press EXCEPT ![1].clamped = <<Head(answers)>>]
      /\ UNCHANGED <<setup, activePlate, towerGeom, towerMesh, towerDrag, slicing, drawn,
                     towerLeft>>
  BY DEF MoveAnswered
<1>2. UNCHANGED <<mounted, events, missed>> /\ (unsettled' <=> unsettled) /\ (overtaken' <=> overtaken)
      /\ SignTypes'
  BY DEF MoveAnswered, TowerInv, SignTypes, hearing
<1>3. answers \in Seq(Int) /\ Head(answers) \in Int /\ Len(answers) <= InFlight
  BY <1>1 DEF TowerInv, DragTypes
<1>4. answers' \in Seq(Int) /\ Len(answers') <= InFlight
  BY <1>1, <1>3, TowerAssumption
<1>5. press' \in Maybe([offset : Int, clamped : Maybe(Int)]) /\ press' # << >>
  <2>1. PICK q \in [offset : Int, clamped : Maybe(Int)] : press = <<q>>
    BY <1>1 DEF TowerInv, DragTypes, Maybe
  <2>2. PICK c \in Maybe(Int) : c = <<Head(answers)>>
    BY <1>3, MaybeOne
  <2>3. PICK r : r = [q EXCEPT !.clamped = c]
    OBVIOUS
  <2>4. r \in [offset : Int, clamped : Maybe(Int)]
    BY <2>1, <2>2, <2>3
  <2>5. press' = <<r>>
    BY <1>1, <2>1, <2>2, <2>3
  <2> QED
    BY <2>4, <2>5, MaybeOne
<1>6. SceneTypes' /\ DragTypes'
  BY <1>1, <1>4, <1>5 DEF TowerInv, SceneTypes, DragTypes
<1>7. PlacementsFresh' /\ DragEnds' /\ SliceIsOfPlate' /\ MeshIsLabelled'
  BY <1>1, <1>2, <1>5
     DEF TowerInv, PlacementsFresh, Fresh0, DragEnds, SliceIsOfPlate, MeshIsLabelled
<1>8. FrameHolds'
  BY <1>1, FrameKeeps DEF TowerInv
<1> QED
  BY <1>2, <1>6, <1>7, <1>8 DEF TowerInv

LEMMA ReleaseKeeps == TowerInv /\ ReleaseTower => TowerInv'
<1> SUFFICES ASSUME TowerInv, ReleaseTower PROVE TowerInv'
  OBVIOUS
<1>1. PICK p \in TowerPlates : p = activePlate
  BY DEF TowerInv, SceneTypes
<1>2. /\ press # << >> /\ press' = << >> /\ answers' = << >>
      /\ UNCHANGED <<activePlate, towerGeom, towerMesh, towerDrag, slicing, drawn, towerLeft, mounted,
                     missed>>
  BY DEF ReleaseTower, DiscardAnswers
<1>3. DragTypes'
  BY <1>2, MaybeNone, TowerAssumption DEF TowerInv, DragTypes
<1>4. MeshIsLabelled'
  BY <1>2 DEF TowerInv, MeshIsLabelled
<1>5. CASE press[1].clamped = << >>
  <2>1. /\ setup' = setup /\ events' = events /\ (overtaken' <=> overtaken) /\ SignTypes'
        /\ unsettled' <=> unsettled \/ towerDrag # << >>
    BY <1>5 DEF ReleaseTower, TowerInv, SignTypes
  <2>2. SceneTypes' /\ PlacementsFresh' /\ DragEnds' /\ SliceIsOfPlate'
    BY <1>2, <2>1 DEF TowerInv, SceneTypes, PlacementsFresh, Fresh0, DragEnds, SliceIsOfPlate
  <2>3. FrameHolds'
    BY <1>2, <2>1, FrameKeeps DEF TowerInv
  <2> QED
    BY <1>3, <1>4, <2>1, <2>2, <2>3 DEF TowerInv
<1>6. CASE press[1].clamped # << >>
  <2>1. PICK x : x = press[1].clamped[1]
    OBVIOUS
  <2>2. x \in Int
    <3>1. press[1] \in [offset : Int, clamped : Maybe(Int)]
      BY <1>2, MaybeHas DEF TowerInv, DragTypes
    <3> QED
      BY <1>6, <2>1, <3>1, MaybeHas
  <2>3. /\ setup' = [setup EXCEPT ![p].x = x, ![p].user = << >>]
        /\ events' = events \cup {p}
    BY <1>1, <1>6, <2>1 DEF ReleaseTower
  <2>4. overtaken' <=> overtaken \/ SlicingOf(p)
    BY <1>1, <1>6 DEF ReleaseTower
  <2>5. SignTypes'
    <3>1. overtaken' \in BOOLEAN
      BY <1>6 DEF ReleaseTower, SignTypes, TowerInv, SlicingOf
    <3> QED
      BY <1>2, <2>3, <3>1 DEF TowerInv, SignTypes
  <2>6. setup' \in [TowerPlates -> Plan] /\ setup'[p].printer = setup[p].printer
    <3>1. [setup[p] EXCEPT !.x = x, !.user = << >>] \in Plan
      <4>1. setup[p] \in Plan /\ << >> \in Seq(Int)
        BY DEF TowerInv, SceneTypes
      <4> QED
        BY <2>2, <4>1 DEF Plan
    <3>2. PICK c \in Plan : c = [setup[p] EXCEPT !.x = x, !.user = << >>]
      BY <3>1
    <3>3. c.printer = setup[p].printer
      BY <3>2 DEF TowerInv, SceneTypes, Plan
    <3>4. setup' = [setup EXCEPT ![p] = c]
      BY <2>3, <3>2 DEF TowerInv, SceneTypes, Plan
    <3> QED
      BY <3>3, <3>4 DEF TowerInv, SceneTypes
  <2>7. SceneTypes' /\ PlacementsFresh' /\ DragEnds'
    <3>1. \A q \in TowerPlates \ {p} : setup'[q] = setup[q]
      BY <2>3 DEF TowerInv, SceneTypes
    <3>2. SceneTypes'
      BY <1>2, <2>6 DEF TowerInv, SceneTypes
    <3>3. PlacementsFresh'
      BY <1>2, <2>3, <3>1 DEF TowerInv, PlacementsFresh, Fresh0
    <3>4. mounted /\ mounted' = mounted
      BY <1>2 DEF TowerInv, DragEnds
    <3>5. DragEnds'
      BY <1>2, <2>3, <3>4 DEF DragEnds
    <3> QED
      BY <3>2, <3>3, <3>5
  <2>8. SliceIsOfPlate'
    <3> SUFFICES ASSUME slicing # << >>, ~overtaken'
                 PROVE  slicing[1].of = setup'[slicing[1].plate]
      BY <1>2 DEF SliceIsOfPlate
    <3>1. slicing[1].of = setup[slicing[1].plate] /\ slicing[1].plate # p
      BY <2>4 DEF TowerInv, SliceIsOfPlate, SlicingOf
    <3>2. slicing[1] \in [plate : TowerPlates, of : Plan]
      BY MaybeHas DEF TowerInv, SceneTypes
    <3> QED
      BY <2>3, <3>1, <3>2 DEF TowerInv, SceneTypes
  <2>9. FrameHolds'
    BY <1>1, <1>2, <2>6, FrameKeeps DEF TowerInv
  <2> QED
    BY <1>3, <1>4, <2>5, <2>7, <2>8, <2>9 DEF TowerInv
<1> QED
  BY <1>5, <1>6

LEMMA TowerStep == TowerInv /\ [TowerNext]_towerVars => TowerInv'
<1> SUFFICES ASSUME TowerInv, [TowerNext]_towerVars PROVE TowerInv'
  OBVIOUS
<1>1. ASSUME UNCHANGED towerVars PROVE TowerInv'
  <2>1. /\ UNCHANGED <<setup, activePlate, towerGeom, towerMesh, towerDrag, slicing, press,
                       answers, drawn, towerLeft>>
        /\ UNCHANGED <<mounted, events, missed>> /\ (unsettled' <=> unsettled) /\ (overtaken' <=> overtaken)
        /\ SignTypes'
    BY <1>1 DEF towerVars, hearing, TowerInv, SignTypes
  <2>2. FrameHolds'
    BY <2>1, FrameKeeps DEF TowerInv
  <2> QED
    BY <2>1, <2>2
       DEF TowerInv, SceneTypes, DragTypes, PlacementsFresh, Fresh0, DragEnds, SliceIsOfPlate,
           MeshIsLabelled
<1> QED
  BY <1>1, FrameStep, InvalidateKeeps, SlicedKeeps, AnsweredKeeps, ReleaseKeeps, SwitchKeeps,
     StartKeeps, EditKeeps, LayoutKeeps, ReplaceKeeps, PressKeeps, MoveKeeps,
     FirstPlateIsOne
     DEF TowerNext

(* The frame that is drawn, seen through its own definition.                *)
LEMMA DrawnIs ==
  ASSUME TowerInv, drawn # << >>, NEW p, p = activePlate, NEW g, g = Resolved(p)
  PROVE  /\ p \in TowerPlates /\ g \in Placement /\ towerGeom[p] = <<g>>
         /\ drawn[1].plate = p /\ drawn[1].x = EffectiveCorner(p, g)
         /\ drawn[1].reach = Reach(p, g) /\ drawn[1].mesh = ValidMesh(p, g)
<1>1. p \in TowerPlates
  BY DEF TowerInv, SceneTypes
<1>2. towerGeom[p] # << >> /\ ~g.none
  BY DEF TowerInv, FrameHolds
<1>3. g \in Placement /\ towerGeom[p] = <<g>>
  BY <1>1, <1>2, ResolvedType DEF TowerInv
<1>4. PICK d : d = [plate |-> p, x |-> EffectiveCorner(p, g), reach |-> Reach(p, g),
                    mesh |-> ValidMesh(p, g)]
  OBVIOUS
<1>5. drawn = <<d>>
  BY <1>4 DEF TowerInv, FrameHolds
<1> QED
  BY <1>1, <1>3, <1>4, <1>5

LEMMA TowerInvTells == ASSUME TowerInv PROVE TowerIsTrue
<1>0. PICK p \in TowerPlates : p = activePlate
  BY DEF TowerInv, SceneTypes
<1>a. PICK g : g = Resolved(p)
  OBVIOUS
<1>b. BedSize[setup[p].printer] \in Nat /\ setup[p] \in Plan
  BY TowerAssumption DEF TowerInv, SceneTypes, Plan
<1>c. drawn # << >> =>
        /\ g \in Placement /\ towerGeom[p] = <<g>>
        /\ drawn[1].plate = p /\ drawn[1].x = EffectiveCorner(p, g)
        /\ drawn[1].reach = Reach(p, g) /\ drawn[1].mesh = ValidMesh(p, g)
  BY <1>0, <1>a, DrawnIs
<1>d. drawn # << >> /\ towerDrag = << >> =>
        drawn[1].x = ClampCorner(drawn[1].reach, BedSize[setup[p].printer], g.x)
  BY <1>c DEF EffectiveCorner
<1>e. p \notin events \cup missed /\ drawn # << >> => g = Resolve(setup[p])
  <2> SUFFICES ASSUME p \notin events \cup missed, drawn # << >> PROVE g = Resolve(setup[p])
    OBVIOUS
  <2>1. towerGeom[p] \in {<< >>, <<Resolve(setup[p])>>} /\ towerGeom[p] = <<g>>
    BY <1>c DEF TowerInv, PlacementsFresh, Fresh0
  <2> QED
    BY <2>1
<1>f. p \notin events \cup missed /\ drawn # << >> =>
        g.x = setup[p].x /\ g.slots = setup[p].slots /\ g.printer = setup[p].printer
  BY <1>b, <1>c, <1>e DEF Resolve, None0, Placement
<1>1. TowerTypeOK
  <2>1. activePlate \in TowerPlates /\ towerLeft \in 0..EditsLeft
        /\ \A q \in TowerPlates : setup[q].slots \in Nat /\ setup[q].printer \in DOMAIN BedSize
    BY DEF TowerInv, SceneTypes, DragTypes, Plan
  <2>2. Len(press) <= 1 /\ Len(towerDrag) <= 1
    BY MaybeLen DEF TowerInv, DragTypes
  <2>3. \A q \in TowerPlates : Len(towerGeom[q]) <= 1 /\ Len(towerMesh[q]) <= 1
    BY MaybeLen DEF TowerInv, SceneTypes
  <2>4. (press = << >> => answers = << >>) /\ Len(answers) <= InFlight
    BY DEF TowerInv, DragTypes
  <2>5. mounted \in BOOLEAN /\ events \cup missed \subseteq TowerPlates
    BY DEF TowerInv, SignTypes
  <2> QED
    BY <2>1, <2>2, <2>3, <2>4, <2>5 DEF TowerTypeOK
<1>2. DrawnWhereSliced
  <2>1. \A q \in TowerPlates \ (events \cup missed) :
          towerGeom[q] \in {<< >>, <<Resolve(setup[q])>>}
    BY DEF TowerInv, PlacementsFresh, Fresh0
  <2>2. press = << >> /\ ~unsettled /\ events = {} => towerDrag = << >>
    BY DEF TowerInv, DragEnds
  <2>3. press = << >> /\ ~unsettled /\ events = {} /\ p \notin missed /\ drawn # << >> =>
          drawn[1].x = ClampCorner(drawn[1].reach, BedSize[setup[p].printer], setup[p].x)
    BY <1>d, <1>f, <2>2
  <2>4. setup[p].user = << >> => SlicedCorner(setup[p]) = setup[p].x
    BY DEF SlicedCorner
  <2> QED
    BY <1>0, <2>1, <2>2, <2>3, <2>4 DEF DrawnWhereSliced
<1>3. PressSeesTheDrawing
  <2>1. drawn # << >> => ~g.none
    BY <1>c DEF Placement
  <2> QED
    BY <1>0, <1>a, <1>c, <2>1 DEF PressSeesTheDrawing, HitCorner
<1>4. TowerStaysOnBed
  <2> SUFFICES ASSUME drawn # << >>, towerDrag = << >>
               PROVE  /\ drawn[1].x + drawn[1].reach[1] >= 0
                      /\ \/ drawn[1].x + drawn[1].reach[2] <= BedSize[setup[p].printer]
                         \/ drawn[1].x + drawn[1].reach[1] = 0
    BY <1>0 DEF TowerStaysOnBed
  <2>1. drawn[1].reach \in Int \X Int /\ g.x \in Int
    BY <1>c, ReachType DEF TowerInv, Placement
  <2> QED
    BY <1>b, <1>d, <2>1, ClampType
<1>5. MeshFitsUnlessOvertaken
  <2> SUFFICES ASSUME p \notin events \cup missed, drawn # << >>, NEW k \in DOMAIN drawn[1].mesh,
                      NEW m, m = drawn[1].mesh[k]
               PROVE  m.overtaken \/ (m.of.slots = setup[p].slots
                                      /\ m.of.printer = setup[p].printer)
    BY <1>0 DEF MeshFitsUnlessOvertaken
  <2>1. drawn[1].mesh = ValidMesh(p, g)
    BY <1>c
  <2>2. CASE ValidMesh(p, g) = << >>
    BY <2>1, <2>2
  <2>3. CASE ValidMesh(p, g) # << >>
    <3>1. /\ ValidMesh(p, g) = towerMesh[p] /\ towerMesh[p] # << >>
          /\ towerMesh[p][1].slots = g.slots /\ towerMesh[p][1].printer = g.printer
      BY <2>3 DEF ValidMesh
    <3>2. towerMesh[p] \in Maybe(Mesh)
      BY DEF TowerInv, SceneTypes
    <3>3. k = 1 /\ m = towerMesh[p][1]
      BY <2>1, <3>1, <3>2, MaybeHas
    <3>4. m.overtaken \/ (m.slots = m.of.slots /\ m.printer = m.of.printer)
      BY <3>1, <3>3 DEF TowerInv, MeshIsLabelled
    <3> QED
      BY <1>f, <3>1, <3>3, <3>4
  <2> QED
    BY <2>2, <2>3
<1> QED
  BY <1>1, <1>2, <1>3, <1>4, <1>5 DEF TowerIsTrue

(* The wipe tower on screen is the one that will be sliced, for any plates, *)
(* printers and beds, corners and drags, in and out of Prepare, but for a   *)
(* change nobody heard of, a user tier that moves the tower, and a drag     *)
(* never committed (viewport_render.rs:1293 resolved_tower, :1354           *)
(* effective_tower_corner, :1372 valid_tower_mesh).                         *)
THEOREM TowersAreTrue == TowerSpec => []TowerIsTrue
  BY TowerInitInv, TowerStep, TowerInvTells, PTL DEF TowerSpec
=============================================================================
