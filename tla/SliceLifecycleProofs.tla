------------------------ MODULE SliceLifecycleProofs ------------------------
(***************************************************************************)
(* The lifecycle gives its listeners one outcome per job.                  *)
(***************************************************************************)
EXTENDS SliceLifecycle, TLAPS

(* Silent(j): nothing terminal was said yet. *)
Silent(j) == \A i \in 1..Len(log[j]) : log[j][i].kind \notin Terminal

(* OneOutcome by itself is not inductive: a job that may still speak has   *)
(* not said its last word, and an idle one has not spoken.                 *)
IInv ==
  /\ TypeOK
  /\ \A j \in Job : phase[j] # "ended" => Silent(j)
  /\ \A j \in Job : phase[j] = "idle" => log[j] = <<>>
  /\ OneOutcome

(* Saying one more thing: the log keeps its type and its past, and gains   *)
(* the event at its end.                                                   *)
LEMMA HearProperties ==
  ASSUME TypeOK, NEW j \in Job, NEW kind \in Kind, NEW plate \in Nat,
         Hear(j, kind, plate)
  PROVE  /\ log' \in [Job -> Seq(Event)]
         /\ Len(log'[j]) = Len(log[j]) + 1
         /\ log'[j][Len(log[j]) + 1].kind = kind
         /\ \A i \in 1..Len(log[j]) : log'[j][i] = log[j][i]
         /\ \A k \in Job \ {j} : log'[k] = log[k]
<1> DEFINE e == [kind |-> kind, plate |-> plate, late |-> asked[j]]
<1>1. e \in Event
  BY DEF Event, TypeOK
<1>2. log[j] \in Seq(Event)
  BY DEF TypeOK
<1>3. log' = [log EXCEPT ![j] = Append(log[j], e)]
  BY DEF Hear
<1>4. /\ Append(log[j], e) \in Seq(Event)
      /\ Len(Append(log[j], e)) = Len(log[j]) + 1
      /\ Append(log[j], e)[Len(log[j]) + 1] = e
      /\ \A i \in 1..Len(log[j]) : Append(log[j], e)[i] = log[j][i]
  BY <1>1, <1>2
<1>5. log'[j] = Append(log[j], e) /\ \A k \in Job \ {j} : log'[k] = log[k]
  BY <1>3 DEF TypeOK
<1>6. log' \in [Job -> Seq(Event)]
  BY <1>3, <1>4 DEF TypeOK
<1>7. e.kind = kind
  OBVIOUS
<1> QED
  BY <1>4, <1>5, <1>6, <1>7

(* Saying something that is not terminal keeps a silent job silent. *)
LEMMA HearKeepsSilent ==
  ASSUME TypeOK, NEW j \in Job, NEW kind \in Kind \ Terminal, NEW plate \in Nat,
         Hear(j, kind, plate), Silent(j)
  PROVE  Silent(j)'
<1>1. log[j] \in Seq(Event) /\ Len(log[j]) \in Nat
  BY DEF TypeOK
<1> QED
  BY <1>1, HearProperties DEF Silent

(* Whatever a silent job says, it is the last thing it has said. *)
LEMMA HearIsLast ==
  ASSUME TypeOK, NEW j \in Job, NEW kind \in Kind, NEW plate \in Nat,
         Hear(j, kind, plate), Silent(j)
  PROVE  \A i \in 1..Len(log'[j]) :
            log'[j][i].kind \in Terminal => i = Len(log'[j])
<1>1. log[j] \in Seq(Event) /\ Len(log[j]) \in Nat
  BY DEF TypeOK
<1> QED
  BY <1>1, HearProperties DEF Silent

LEMMA TypeStep == TypeOK /\ [Next]_vars => TypeOK'
<1> SUFFICES ASSUME TypeOK, [Next]_vars PROVE TypeOK'
  OBVIOUS
<1>1. ASSUME NEW j \in Job, Accept(j) PROVE TypeOK'
  BY <1>1 DEF TypeOK, Accept, Shift, Phase
<1>2. ASSUME NEW j \in Job, Ask(j) PROVE TypeOK'
  BY <1>2 DEF TypeOK, Ask
<1>3. ASSUME NEW j \in Job, StartPlate(j) PROVE TypeOK'
  <2>0. Hear(j, "PlateStarted", done[j] + 1) /\ "PlateStarted" \in Kind /\ done[j] + 1 \in Nat
    BY <1>3 DEF StartPlate, Kind, TypeOK
  <2>1. log' \in [Job -> Seq(Event)]
    BY <2>0, HearProperties
  <2> QED
    BY <1>3, <2>1 DEF TypeOK, StartPlate, Shift, Phase
<1>4. ASSUME NEW j \in Job, Chatter(j) PROVE TypeOK'
  <2>1. PICK kind \in Chat : Hear(j, kind, done[j] + 1)
    BY <1>4 DEF Chatter
  <2>2. log' \in [Job -> Seq(Event)]
    <3>1. kind \in Kind /\ done[j] + 1 \in Nat
      BY DEF Kind, TypeOK
    <3> QED
      BY <2>1, <3>1, HearProperties
  <2> QED
    BY <1>4, <2>2 DEF TypeOK, Chatter
<1>5. ASSUME NEW j \in Job, FinishPlate(j) PROVE TypeOK'
  <2>0. Hear(j, "PlateFinished", done[j] + 1) /\ "PlateFinished" \in Kind /\ done[j] + 1 \in Nat
    BY <1>5 DEF FinishPlate, Kind, TypeOK
  <2>1. log' \in [Job -> Seq(Event)]
    BY <2>0, HearProperties
  <2>2. done' \in [Job -> Nat]
    BY <1>5 DEF FinishPlate, TypeOK
  <2> QED
    BY <1>5, <2>1, <2>2 DEF TypeOK, FinishPlate, Shift, Phase
<1>6. ASSUME NEW j \in Job, Finish(j) PROVE TypeOK'
  <2>0. Hear(j, "JobFinished", 0) /\ "JobFinished" \in Kind /\ 0 \in Nat
    BY <1>6 DEF Finish, Kind, Terminal, TypeOK
  <2>1. log' \in [Job -> Seq(Event)]
    BY <2>0, HearProperties
  <2> QED
    BY <1>6, <2>1 DEF TypeOK, Finish, Shift, Phase
<1>7. ASSUME NEW j \in Job, Fail(j) PROVE TypeOK'
  <2>0. Hear(j, "JobFailed", done[j] + 1) /\ "JobFailed" \in Kind /\ done[j] + 1 \in Nat
    BY <1>7 DEF Fail, Kind, Terminal, TypeOK
  <2>1. log' \in [Job -> Seq(Event)]
    BY <2>0, HearProperties
  <2> QED
    BY <1>7, <2>1 DEF TypeOK, Fail, Shift, Phase
<1>8. ASSUME NEW j \in Job, Cancel(j) PROVE TypeOK'
  <2>0. PICK plate \in Nat : Hear(j, "Cancelled", plate)
    BY <1>8 DEF Cancel, TypeOK
  <2>1. log' \in [Job -> Seq(Event)]
    <3>1. "Cancelled" \in Kind
      BY DEF Kind, Terminal
    <3> QED
      BY <2>0, <3>1, HearProperties
  <2> QED
    BY <1>8, <2>1 DEF TypeOK, Cancel, Shift, Phase
<1>9. CASE UNCHANGED vars
  BY <1>9 DEF TypeOK, vars
<1> QED
  BY <1>1, <1>2, <1>3, <1>4, <1>5, <1>6, <1>7, <1>8, <1>9 DEF Next, Advance

LEMMA TypeInvariant == Spec => []TypeOK
<1>1. Init => TypeOK
  BY DEF Init, TypeOK, Phase
<1> QED
  BY <1>1, TypeStep, PTL DEF Spec

(* A step by which job j says something and moves on keeps the invariant's *)
(* three parts: it was silent before; it stays so unless it has ended.     *)
LEMMA SpeakingPreserves ==
  ASSUME IInv, TypeOK', NEW j \in Job, NEW kind \in Kind, NEW plate \in Nat,
         Hear(j, kind, plate),
         phase[j] # "ended", phase'[j] # "idle",
         kind \in Terminal => phase'[j] = "ended",
         \A k \in Job \ {j} : phase'[k] = phase[k]
  PROVE  IInv'
<1>1. Silent(j)
  BY DEF IInv
<1>2. \A k \in Job \ {j} : log'[k] = log[k]
  BY HearProperties DEF IInv
<1>3. ASSUME NEW k \in Job, phase'[k] # "ended" PROVE Silent(k)'
  <2>1. CASE k = j
    BY <1>1, <1>3, <2>1, HearKeepsSilent DEF IInv
  <2>2. CASE k # j
    BY <1>2, <1>3, <2>2 DEF IInv, Silent
  <2> QED
    BY <2>1, <2>2
<1>4. ASSUME NEW k \in Job, phase'[k] = "idle" PROVE log'[k] = <<>>
  BY <1>2, <1>4 DEF IInv
<1>5. OneOutcome'
  <2> SUFFICES ASSUME NEW k \in Job
               PROVE \A i \in 1..Len(log'[k]) :
                       log'[k][i].kind \in Terminal => i = Len(log'[k])
    BY DEF OneOutcome
  <2>1. CASE k = j
    BY <1>1, <2>1, HearIsLast DEF IInv
  <2>2. CASE k # j
    BY <1>2, <2>2 DEF IInv, OneOutcome
  <2> QED
    BY <2>1, <2>2
<1> QED
  BY <1>3, <1>4, <1>5 DEF IInv

(* One outcome per job, and silence after it, for any set of jobs. *)
THEOREM LifecycleHasOneOutcome == Spec => []OneOutcome
<1>1. Init => IInv
  BY DEF Init, IInv, TypeOK, Phase, Silent, OneOutcome
<1>2. IInv /\ TypeOK' /\ [Next]_vars => IInv'
  <2> SUFFICES ASSUME IInv, TypeOK', [Next]_vars PROVE IInv'
    OBVIOUS
  <2>0. TypeOK
    BY DEF IInv
  <2>1. ASSUME NEW j \in Job, Accept(j) PROVE IInv'
    BY <2>0, <2>1 DEF IInv, Accept, Shift, TypeOK, Silent, OneOutcome
  <2>2. ASSUME NEW j \in Job, Ask(j) PROVE IInv'
    BY <2>2 DEF IInv, Ask, Silent, OneOutcome
  <2>3. ASSUME NEW j \in Job, StartPlate(j) PROVE IInv'
    BY <2>0, <2>3, SpeakingPreserves DEF StartPlate, Shift, TypeOK, Kind, Terminal
  <2>4. ASSUME NEW j \in Job, Chatter(j) PROVE IInv'
    <3>1. PICK kind \in Chat : Hear(j, kind, done[j] + 1)
      BY <2>4 DEF Chatter
    <3>2. kind \in Kind \ Terminal /\ done[j] + 1 \in Nat
      BY <2>0 DEF Chat, Kind, Terminal, TypeOK
    <3>3. phase[j] = "slicing" /\ phase' = phase
      BY <2>4 DEF Chatter
    <3> QED
      BY <3>1, <3>2, <3>3, SpeakingPreserves
  <2>5. ASSUME NEW j \in Job, FinishPlate(j) PROVE IInv'
    <3>1. "PlateFinished" \in Kind \ Terminal /\ done[j] + 1 \in Nat
      BY <2>0 DEF Kind, Terminal, TypeOK
    <3>2. /\ phase[j] # "ended" /\ phase'[j] # "idle"
          /\ \A k \in Job \ {j} : phase'[k] = phase[k]
          /\ Hear(j, "PlateFinished", done[j] + 1)
      BY <2>0, <2>5 DEF FinishPlate, Shift, TypeOK
    <3> QED
      BY <3>1, <3>2, SpeakingPreserves
  <2>6. ASSUME NEW j \in Job, Finish(j) PROVE IInv'
    BY <2>0, <2>6, SpeakingPreserves DEF Finish, Shift, TypeOK, Kind, Terminal
  <2>7. ASSUME NEW j \in Job, Fail(j) PROVE IInv'
    BY <2>0, <2>7, SpeakingPreserves DEF Fail, Shift, TypeOK, Kind, Terminal
  <2>8. ASSUME NEW j \in Job, Cancel(j) PROVE IInv'
    <3>1. /\ "Cancelled" \in Kind
          /\ done[j] \in Nat /\ done[j] + 1 \in Nat
      BY <2>0 DEF Kind, Terminal, TypeOK
    <3>2. /\ phase[j] # "ended" /\ phase'[j] = "ended"
          /\ \A k \in Job \ {j} : phase'[k] = phase[k]
          /\ Hear(j, "Cancelled", done[j]) \/ Hear(j, "Cancelled", done[j] + 1)
      BY <2>0, <2>8 DEF Cancel, Shift, TypeOK
    <3> QED
      BY <3>1, <3>2, SpeakingPreserves
  <2>9. CASE UNCHANGED vars
    BY <2>9 DEF IInv, TypeOK, vars, Silent, OneOutcome
  <2> QED
    BY <2>1, <2>2, <2>3, <2>4, <2>5, <2>6, <2>7, <2>8, <2>9 DEF Next, Advance
<1>3. IInv => OneOutcome
  BY DEF IInv
<1> QED
  BY <1>1, <1>2, <1>3, TypeInvariant, PTL DEF Spec

=============================================================================
