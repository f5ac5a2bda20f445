---------------------------- MODULE UndoHistory ----------------------------
(***************************************************************************)
(* The undo stack of `core/project/history.rs`: a sequence of snapshots    *)
(* with a cursor on the one that mirrors the live document. The stack only *)
(* sees the snapshots it is handed; who captures them, and when, is the    *)
(* session's business (module SceneSession).                               *)
(*                                                                         *)
(* Time is one bit: `recent` says that the last record is less than the    *)
(* coalescing window (250 ms) old; Lapse lets the window pass.             *)
(***************************************************************************)
EXTENDS Integers

CONSTANT MaxDepth   \* cap on retained snapshots (100 in the code)

ASSUME DepthAssumption == MaxDepth \in Nat /\ MaxDepth >= 2

VARIABLES snapshots, cursor, recent

historyVars == <<snapshots, cursor, recent>>

HistoryInit(s) == snapshots = [k \in 1..1 |-> s] /\ cursor = 1 /\ recent = FALSE

\* A loaded document is a fresh baseline.
Reset(s) == snapshots' = [k \in 1..1 |-> s] /\ cursor' = 1 /\ recent' = FALSE

\* Only the selection changed: no step of its own.
RefreshCurrent(s) ==
    /\ snapshots' = [snapshots EXCEPT ![cursor] = s]
    /\ UNCHANGED <<cursor, recent>>

\* mutant: the cap is off by one
RecordOverflows(s) ==
    LET n == IF recent THEN cursor ELSE cursor + 1
        drop == IF n > MaxDepth + 1 THEN 1 ELSE 0
    IN /\ snapshots' = [k \in 1..(n - drop) |->
                          IF k = n - drop THEN s ELSE snapshots[k + drop]]
       /\ cursor' = n - drop
       /\ recent' = TRUE

\* An edit drops the redo branch, then merges into the current step when one
\* was just recorded and is pushed otherwise; the oldest give way to the cap.
Record(s) ==
    LET n == IF recent THEN cursor ELSE cursor + 1
        drop == IF n > MaxDepth THEN n - MaxDepth ELSE 0
    IN /\ snapshots' = [k \in 1..(n - drop) |->
                          IF k = n - drop THEN s ELSE snapshots[k + drop]]
       /\ cursor' = n - drop
       /\ recent' = TRUE

CanUndo == cursor > 1
CanRedo == cursor + 1 \in DOMAIN snapshots

\* The snapshot to restore is the one the cursor lands on.
UndoStep ==
    /\ CanUndo
    /\ cursor' = cursor - 1
    /\ recent' = FALSE
    /\ UNCHANGED snapshots

RedoStep ==
    /\ CanRedo
    /\ cursor' = cursor + 1
    /\ recent' = FALSE
    /\ UNCHANGED snapshots

Lapse == recent /\ recent' = FALSE /\ UNCHANGED <<snapshots, cursor>>

-----------------------------------------------------------------------------

\* The cursor always points at a retained snapshot and the stack never
\* outgrows its cap: record's truncate, push and drain, in that order, keep
\* the index arithmetic of history.rs in range.
HistoryOK ==
    /\ \E n \in 1..MaxDepth : DOMAIN snapshots = 1..n
    /\ cursor \in DOMAIN snapshots
    /\ recent \in BOOLEAN

\* What can still be undone is never rewritten: after any step but a reset,
\* each snapshot before the cursor is the one that stood there, up to the
\* shift the cap's drain causes.
UndoTargetsKept ==
    \E drop \in {0, 1} :
        \A k \in 1..(cursor' - 1) : snapshots'[k] = snapshots[k + drop]
=============================================================================
