----------------------------- MODULE PartsProofs -----------------------------
(***************************************************************************)
(* Proofs about three parts that share no state: the last check before the *)
(* engine, the plugins and the support-paint tool.                          *)
(***************************************************************************)
EXTENDS UserProfiles, PluginHost, PaintTool, TLAPS, FiniteSetTheorems, SequenceTheorems

-----------------------------------------------------------------------------
(* The last check.  It holds for every library of profiles, every schema    *)
(* and every sequence of the user's edits.  The check sees the resolved     *)
(* values and the printer's catalogue entry, the engine gets the adapted    *)
(* configuration and the printer as the user has made it: the proof says    *)
(* that nothing is lost between the two.                                    *)

(* The printer keeps the slots it was made with, as its catalogue entry has them. *)
PrinterOK ==
  /\ {"ref", "slug", "bed", "config", "calibrated", "quality", "extruders"} \subseteq DOMAIN inst
  /\ \A e \in DOMAIN inst.extruders : {"nozzle", "slots"} \subseteq DOMAIN inst.extruders[e]
  /\ Len(AllSlots(inst)) > 1 => MultipleSlots(Profile(Lib, inst.ref))

(* Two printers whose extruders have the same slots. *)
SameSlots(a, b) ==
  /\ DOMAIN a.extruders = DOMAIN b.extruders
  /\ \A e \in DOMAIN a.extruders :
       DOMAIN a.extruders[e].slots = DOMAIN b.extruders[e].slots

LEMMA SlotsAreCounted ==
  ASSUME NEW a, NEW b, SameSlots(a, b)
  PROVE  AllSlots(a) = AllSlots(b)
<1>1. \A e \in DOMAIN a.extruders :
        [s \in DOMAIN a.extruders[e].slots |-> <<e, s>>]
          = [s \in DOMAIN b.extruders[e].slots |-> <<e, s>>]
  BY DEF SameSlots
<1>2. [e \in DOMAIN a.extruders |-> [s \in DOMAIN a.extruders[e].slots |-> <<e, s>>]]
        = [e \in DOMAIN b.extruders |-> [s \in DOMAIN b.extruders[e].slots |-> <<e, s>>]]
  BY <1>1 DEF SameSlots
<1> QED
  BY <1>2 DEF AllSlots

(* What a change of the printer has to leave alone. *)
LEMMA PrinterKept ==
  ASSUME PrinterOK, DOMAIN inst' = DOMAIN inst, inst'.ref = inst.ref, SameSlots(inst', inst),
         \A e \in DOMAIN inst'.extruders : DOMAIN inst'.extruders[e] = DOMAIN inst.extruders[e]
  PROVE  PrinterOK'
<1>1. AllSlots(inst') = AllSlots(inst)
  BY SlotsAreCounted
<1>2. /\ {"ref", "slug", "bed", "config", "calibrated", "quality", "extruders"} \subseteq DOMAIN inst'
      /\ \A e \in DOMAIN inst'.extruders : {"nozzle", "slots"} \subseteq DOMAIN inst'.extruders[e]
  BY DEF PrinterOK, SameSlots
<1>3. (Len(AllSlots(inst)) > 1)' => MultipleSlots(Profile(Lib, inst.ref))'
  BY <1>1 DEF PrinterOK
<1> QED
  BY <1>2, <1>3 DEF PrinterOK

LEMMA PrinterStart == Init => PrinterOK
  BY StartsAssumption DEF Init, PrinterOK

LEMMA PrinterStep == PrinterOK /\ [Next]_vars => PrinterOK'
<1> SUFFICES ASSUME PrinterOK, [Next]_vars PROVE PrinterOK'
  OBVIOUS
<1>0. CASE UNCHANGED inst
  BY <1>0 DEF PrinterOK
<1>1. ASSUME NEW ref \in Refs, NEW ident, NEW c, BindSlot(ref, ident, c) PROVE PrinterOK'
  <2>1. inst' = [inst EXCEPT !.extruders[ref[1]].slots[ref[2]] = [ident |-> ident, color |-> c]]
    BY <1>1 DEF BindSlot
  <2>2. /\ DOMAIN inst' = DOMAIN inst /\ inst'.ref = inst.ref /\ SameSlots(inst', inst)
        /\ \A e \in DOMAIN inst'.extruders : DOMAIN inst'.extruders[e] = DOMAIN inst.extruders[e]
    BY <2>1 DEF PrinterOK, SameSlots
  <2> QED
    BY <2>2, PrinterKept
<1>2. ASSUME NEW ref \in Refs, NEW k \in Ks, Calibrate(ref, k) PROVE PrinterOK'
  <2>1. /\ DOMAIN inst' = DOMAIN inst /\ inst'.ref = inst.ref /\ SameSlots(inst', inst)
        /\ \A e \in DOMAIN inst'.extruders : DOMAIN inst'.extruders[e] = DOMAIN inst.extruders[e]
    BY <1>2 DEF Calibrate, WithCalibration, PrinterOK, SameSlots
  <2> QED
    BY <2>1, PrinterKept
<1>3. ASSUME NEW k \in DOMAIN MachineEdits, Configure(k) PROVE PrinterOK'
  <2>1. /\ DOMAIN inst' = DOMAIN inst /\ inst'.ref = inst.ref /\ SameSlots(inst', inst)
        /\ \A e \in DOMAIN inst'.extruders : DOMAIN inst'.extruders[e] = DOMAIN inst.extruders[e]
    BY <1>3 DEF Configure, PrinterOK, SameSlots
  <2> QED
    BY <2>1, PrinterKept
<1>4. ASSUME NEW e \in DOMAIN inst.extruders, NEW sku, ChangeNozzle(e, sku) PROVE PrinterOK'
  <2> DEFINE after == [inst EXCEPT !.extruders[e].nozzle = sku]
  <2>1. inst' = inst \/ inst' = after \/ \E q : inst' = [after EXCEPT !.quality = q]
    BY <1>4 DEF ChangeNozzle, SetNozzle
  <2>2. /\ DOMAIN after = DOMAIN inst /\ after.ref = inst.ref /\ SameSlots(after, inst)
        /\ \A x \in DOMAIN after.extruders : DOMAIN after.extruders[x] = DOMAIN inst.extruders[x]
    BY DEF PrinterOK, SameSlots
  <2> HIDE DEF after
  <2>3. /\ DOMAIN inst' = DOMAIN inst /\ inst'.ref = inst.ref /\ SameSlots(inst', inst)
        /\ \A x \in DOMAIN inst'.extruders : DOMAIN inst'.extruders[x] = DOMAIN inst.extruders[x]
    BY <2>1, <2>2 DEF PrinterOK, SameSlots
  <2> QED
    BY <2>3, PrinterKept
<1>5. ASSUME NEW bed, ChangeBed(bed) PROVE PrinterOK'
  <2>1. /\ DOMAIN inst' = DOMAIN inst /\ inst'.ref = inst.ref /\ SameSlots(inst', inst)
        /\ \A e \in DOMAIN inst'.extruders : DOMAIN inst'.extruders[e] = DOMAIN inst.extruders[e]
    BY <1>5 DEF ChangeBed, SetBed, PrinterOK, SameSlots
  <2> QED
    BY <2>1, PrinterKept
<1>6. CASE OnFilaments
  BY <1>0, <1>6 DEF OnFilaments, SetFilament, CloneFilament, RemoveFilament
<1>7. CASE OnProcesses
  BY <1>0, <1>7 DEF OnProcesses, Stamp, Duplicate, Revert, Delete, SetQuality
<1>8. CASE OnPlateAndPrinter
  BY <1>0, <1>1, <1>2, <1>3, <1>4, <1>5, <1>8 DEF OnPlateAndPrinter, SetOverride, MapMaterial
<1>9. CASE Restart \/ Done \/ UNCHANGED vars
  BY <1>0, <1>9 DEF Restart, Done, vars
<1> QED
  BY <1>6, <1>7, <1>8, <1>9 DEF Next

-----------------------------------------------------------------------------
(* What the engine is configured with where the check has looked. *)
LEMMA AdaptedAsResolved ==
  ASSUME NEW values, NEW bed, Adapt(values, bed).error = "",
         NEW k \in Gated \cup Tempered
  PROVE  LET adapted == Adapt(values, bed).config
         IN /\ k \in DOMAIN adapted => k \in DOMAIN values /\ adapted[k] = values[k]
            /\ k \in Gated /\ k \in DOMAIN values => k \in DOMAIN adapted
<1> DEFINE known == [x \in DOMAIN values \cap DOMAIN Schema |-> values[x]]
           plates == IF "bed_temp" \in DOMAIN values
                     THEN [x \in BedTempKeys |-> values["bed_temp"]] ELSE Empty
           final == [x \in {"curr_bed_type"} |-> <<CurrBedType(bed)>>]
<1>1. Adapt(values, bed).config = Under(Under(known, plates), final)
  BY DEF Adapt
<1>2. k \notin DOMAIN plates /\ k \notin DOMAIN final
  BY GatedAssumption DEF Gated, Tempered, Empty
<1>3. \A f, g : DOMAIN Under(f, g) = DOMAIN f \cup DOMAIN g
  BY DEF Under
<1>4. \A f, g : k \in DOMAIN f /\ k \notin DOMAIN g => Under(f, g)[k] = f[k]
  BY DEF Under
<1>5. DOMAIN known = DOMAIN values \cap DOMAIN Schema
      /\ (k \in DOMAIN known => known[k] = values[k])
  OBVIOUS
<1>6. k \in Gated => k \in DOMAIN Schema
  BY GatedAssumption
<1> HIDE DEF known, plates, final
<1> DEFINE given == Under(known, plates)
           adapted == Under(given, final)
<1>7. /\ k \in DOMAIN adapted <=> k \in DOMAIN known
      /\ k \in DOMAIN known => adapted[k] = known[k]
  <2>1. /\ k \in DOMAIN given <=> k \in DOMAIN known
        /\ k \in DOMAIN known => given[k] = known[k]
    BY <1>2, <1>3, <1>4
  <2> HIDE DEF given
  <2> QED
    BY <1>2, <1>3, <1>4, <2>1
<1>8. Adapt(values, bed).config = adapted
  BY <1>1
<1> HIDE DEF adapted
<1> QED
  BY <1>5, <1>6, <1>7, <1>8

(* The last check before the engine (cascade_safety.rs:22): what it lets   *)
(* through is safe for the first filament when it reaches the engine.      *)
LEMMA CheckedIsSafe == PrinterOK => NothingUnsafePasses
<1> SUFFICES ASSUME PrinterOK PROVE NothingUnsafePasses
  OBVIOUS
<1> DEFINE values == SliceValues(Lib, users, plate, inst, userTier)
           given == Adapt(values, inst.bed)
           has(k) == k \in DOMAIN given.config /\ given.config[k] # <<>>
<1> SUFFICES ASSUME given.error = "", CascadeIssues(Lib, inst, values) = {}
             PROVE  /\ \A k \in Tempered : ~(has(k) /\ given.config[k][1] > MaxTemp)
                    /\ has("machine_start_gcode") /\ has("machine_end_gcode")
                    /\ Len(AllSlots(inst)) > 1 => has("change_filament_gcode")
                    /\ has("machine_max_acceleration_extruding")
                    /\ given.config["machine_max_acceleration_extruding"][1] > 0
  BY DEF NothingUnsafePasses, Tempered
<1> HIDE DEF values
<1>1. \A k \in Gated \cup Tempered :
        /\ k \in DOMAIN given.config => k \in DOMAIN values /\ given.config[k] = values[k]
        /\ k \in Gated /\ k \in DOMAIN values => k \in DOMAIN given.config
  BY AdaptedAsResolved
<1>2. /\ Default(values, "machine_start_gcode", <<>>) # <<>>
      /\ Default(values, "machine_end_gcode", <<>>) # <<>>
      /\ MultipleSlots(Profile(Lib, inst.ref)) =>
           Default(values, "change_filament_gcode", <<>>) # <<>>
      /\ Default(values, "machine_max_acceleration_extruding", <<>>) # <<>>
      /\ values["machine_max_acceleration_extruding"][1] > 0
      /\ \A k \in Tempered : ~TooHot(values, k)
  BY DEF CascadeIssues, Tempered
<1>3. \A k : Default(values, k, <<>>) # <<>> => k \in DOMAIN values /\ values[k] # <<>>
  BY DEF Default
<1> HIDE DEF given
<1>4. \A k \in Gated : Default(values, k, <<>>) # <<>> => has(k)
  BY <1>1, <1>3
<1>5. \A k \in Tempered : ~(has(k) /\ given.config[k][1] > MaxTemp)
  BY <1>1, <1>2 DEF TooHot
<1> QED
  BY <1>1, <1>2, <1>3, <1>4, <1>5 DEF PrinterOK, Gated

(* Whatever the user clones, edits, stamps, maps and calibrates, for every *)
(* catalogue and schema: what is sliced has passed the check in the form   *)
(* in which the engine gets it, printers with several slots included.      *)
THEOREM CheckHolds == Spec => []NothingUnsafePasses
<1>1. Spec => []PrinterOK
  BY PrinterStart, PrinterStep, PTL DEF Spec
<1> QED
  BY <1>1, CheckedIsSafe, PTL

-----------------------------------------------------------------------------
(* The plugins.  Their layers and settings are found by recursion over the  *)
(* lines and over numbers, so the proof starts with induction: any set of   *)
(* numbers has a least one, what holds of 0 and of each next number holds   *)
(* up to n, and a function given by its first value and its steps exists.   *)

(* Of any set of numbers there is a least one. *)
LEMMA LeastOne ==
  ASSUME NEW T \in SUBSET Nat, T # {}
  PROVE  \E m \in T : \A k \in T : m <= k
<1> DEFINE U == {0..i : i \in T}
<1>1. U \subseteq FiniteSubsetsOf(Nat)
  <2> SUFFICES ASSUME NEW i \in T PROVE 0..i \in FiniteSubsetsOf(Nat)
    OBVIOUS
  <2>1. IsFiniteSet(0..i) /\ 0..i \in SUBSET Nat
    BY FS_Interval
  <2> QED
    BY <2>1 DEF FiniteSubsetsOf
<1>2. U # {}
  OBVIOUS
<1>3. \E x \in U : \A y \in U : ~ (<<y, x>> \in StrictSubsetOrdering(Nat))
  <2> HIDE DEF U
  <2> QED
    BY <1>1, <1>2, FS_StrictSubsetOrderingWellFounded, WFMin
<1>4. PICK m \in T : \A k \in T : ~ (<<0..k, 0..m>> \in StrictSubsetOrdering(Nat))
  BY <1>3
<1>5. ASSUME NEW k \in T, k < m PROVE FALSE
  <2>1. 0..k \subseteq 0..m /\ 0..k # 0..m /\ 0..k \in SUBSET Nat /\ 0..m \in SUBSET Nat
    BY <1>5
  <2> QED
    BY <2>1, <1>4 DEF StrictSubsetOrdering
<1> QED
  BY <1>4, <1>5

(* What holds of 0 and of each next number holds up to n. *)
LEMMA UpTo ==
  ASSUME NEW n \in Nat, NEW T, 0 \in T, \A i \in 1..n : i - 1 \in T => i \in T
  PROVE  \A i \in 0..n : i \in T
<1> DEFINE bad == {i \in 0..n : i \notin T}
<1> SUFFICES ASSUME bad # {} PROVE FALSE
  OBVIOUS
<1>1. PICK m \in bad : \A k \in bad : m <= k
  <2>1. bad \in SUBSET Nat
    OBVIOUS
  <2> QED
    BY <2>1, LeastOne
<1>2. m # 0 /\ m - 1 \in 0..n /\ m - 1 \notin bad /\ m \in 1..n
  BY <1>1
<1> QED
  BY <1>1, <1>2

(* A function given by its first value and its steps. *)
Steps(f, n, base, step) ==
  /\ f[0] = base
  /\ \A i \in 1..n : f[i] = step[i][f[i - 1]]

LEMMA Recursion ==
  ASSUME NEW n \in Nat, NEW S, NEW base \in S, NEW step \in [1..n -> [S -> S]]
  PROVE  \E f \in [0..n -> S] : Steps(f, n, base, step)
<1> DEFINE T == {m \in 0..n : \E f \in [0..m -> S] : Steps(f, m, base, step)}
<1>1. 0 \in T
  <2>1. [i \in 0..0 |-> base] \in [0..0 -> S] /\ Steps([i \in 0..0 |-> base], 0, base, step)
    BY DEF Steps
  <2> QED
    BY <2>1
<1>2. ASSUME NEW m \in 1..n, m - 1 \in T PROVE m \in T
  <2>1. PICK f \in [0..(m - 1) -> S] : Steps(f, m - 1, base, step)
    BY <1>2
  <2> DEFINE g == [i \in 0..m |-> IF i = m THEN step[m][f[m - 1]] ELSE f[i]]
  <2>2. g \in [0..m -> S]
    BY <2>1
  <2>3. Steps(g, m, base, step)
    BY <2>1 DEF Steps
  <2> QED
    BY <2>2, <2>3
<1> HIDE DEF T
<1>3. \A i \in 0..n : i \in T
  BY <1>1, <1>2, UpTo, Zenon
<1>4. n \in 0..n
  OBVIOUS
<1> QED
  BY <1>3, <1>4 DEF T


-----------------------------------------------------------------------------
(* The elements of a set of numbers below a number. *)
LEMMA Below ==
  ASSUME NEW n \in Nat, NEW S \in SUBSET (1..n)
  PROVE  /\ \A i \in 1..(n + 1) : /\ IsFiniteSet({j \in S : j < i})
                                  /\ Cardinality({j \in S : j < i}) \in Nat
         /\ \A i \in 1..n : Cardinality({j \in S : j < i + 1})
              = Cardinality({j \in S : j < i}) + IF i \in S THEN 1 ELSE 0
         /\ Cardinality({j \in S : j < 1}) = 0
         /\ {j \in S : j < n + 1} = S
         /\ IsFiniteSet(S) /\ Cardinality(S) \in Nat
<1>0. \A j \in S : j \in Int /\ 1 <= j /\ j <= n
  OBVIOUS
<1>1. IsFiniteSet(S) /\ Cardinality(S) \in Nat
  <2>1. IsFiniteSet(1..n)
    BY FS_Interval
  <2> QED
    BY <2>1, FS_Subset, FS_CardinalityType
<1>2. \A i \in 1..(n + 1) : IsFiniteSet({j \in S : j < i}) /\ Cardinality({j \in S : j < i}) \in Nat
  <2> TAKE i \in 1..(n + 1)
  <2>1. {j \in S : j < i} \in SUBSET S
    OBVIOUS
  <2> QED
    BY <1>1, <2>1, FS_Subset, FS_CardinalityType
<1>3. ASSUME NEW i \in 1..n
      PROVE  Cardinality({j \in S : j < i + 1}) = Cardinality({j \in S : j < i}) + IF i \in S THEN 1 ELSE 0
  <2>1. CASE i \in S
    <3>0. \A j \in S : j < i + 1 <=> j < i \/ j = i
      BY <1>0
    <3>1. {j \in S : j < i + 1} = {j \in S : j < i} \cup {i}
      <4>1. \A x : x \in {j \in S : j < i + 1} <=> x \in {j \in S : j < i} \/ x = i
        BY <2>1, <3>0
      <4> QED
        BY <4>1, Zenon
    <3>3. i \notin {j \in S : j < i}
      BY <2>1, <1>0
    <3>2. IsFiniteSet({j \in S : j < i})
      BY <1>2
    <3> QED
      BY <2>1, <3>1, <3>2, <3>3, FS_AddElement
  <2>2. CASE i \notin S
    <3>0. \A j \in S : j < i + 1 <=> j < i
      BY <1>0, <2>2
    <3>1. {j \in S : j < i + 1} = {j \in S : j < i}
      BY <3>0
    <3>2. Cardinality({j \in S : j < i}) \in Nat
      <4>1. i \in 1..(n + 1)
        OBVIOUS
      <4> QED
        BY <1>2, <4>1
    <3>3. Cardinality({j \in S : j < i + 1}) = Cardinality({j \in S : j < i})
      BY <3>1
    <3> HIDE <3>1
    <3> QED
      BY <2>2, <3>2, <3>3
  <2> QED
    BY <2>1, <2>2
<1>4. {j \in S : j < 1} = {} /\ {j \in S : j < n + 1} = S
  <2>1. \A j \in S : ~ (j < 1) /\ j < n + 1
    BY <1>0
  <2> QED
    BY <2>1, Zenon
<1> QED
  BY <1>1, <1>2, <1>3, <1>4, FS_EmptySet

(* InOrder lists the set's numbers, each once, in order. *)
LEMMA InOrderLists ==
  ASSUME NEW n \in Nat, NEW S \in SUBSET (1..n)
  PROVE  /\ Cardinality(S) \in Nat
         /\ InOrder(S) \in [1..Cardinality(S) -> S]
         /\ \A r, q \in 1..Cardinality(S) : r < q => InOrder(S)[r] < InOrder(S)[q]
         /\ Cardinality(S) = 0 => S = {}
<1> DEFINE c(i) == Cardinality({j \in S : j < i})
           N == Cardinality(S)
<1>1. /\ \A i \in 1..(n + 1) : c(i) \in Nat
      /\ \A i \in 1..n : c(i + 1) = c(i) + IF i \in S THEN 1 ELSE 0
      /\ c(1) = 0 /\ c(n + 1) = N /\ N \in Nat /\ IsFiniteSet(S)
  BY Below
<1>2. \A i, j \in 1..(n + 1) : i < j => c(i) <= c(j)
  <2> SUFFICES ASSUME NEW i \in 1..(n + 1), NEW j \in 1..(n + 1), i < j PROVE c(i) <= c(j)
    OBVIOUS
  <2>0. \A k \in S : k \in Int /\ (k < i => k < j)
    OBVIOUS
  <2>1. {k \in S : k < i} \in SUBSET {k \in S : k < j}
    BY <2>0
  <2>2. IsFiniteSet({k \in S : k < j})
    BY Below
  <2> QED
    BY <2>1, <2>2, FS_Subset
<1>3. ASSUME NEW r \in 1..N PROVE \E i \in S : c(i) = r - 1
  <2> DEFINE T == {i \in 1..(n + 1) : c(i) >= r}
  <2>1. n + 1 \in T /\ T \in SUBSET Nat
    BY <1>1
  <2>2. PICK m \in T : \A k \in T : m <= k
    <3> HIDE DEF T
    <3> QED
      BY <2>1, LeastOne
  <2> HIDE DEF c, N
  <2>3. m # 1 /\ m \in 1..(n + 1) /\ c(m) >= r
    BY <1>1, <2>2
  <2>4. m - 1 \in 1..n /\ m - 1 \notin T
    BY <2>2, <2>3
  <2>5. ~ (c(m - 1) >= r)
    BY <2>4
  <2>6. c(m) = c(m - 1) + IF m - 1 \in S THEN 1 ELSE 0
    <3>1. c((m - 1) + 1) = c(m - 1) + IF m - 1 \in S THEN 1 ELSE 0
      BY <1>1, <2>4
    <3>2. (m - 1) + 1 = m
      BY <2>3
    <3> QED
      BY <3>1, <3>2
  <2>7. c(m - 1) \in Nat /\ c(m) \in Nat
    BY <1>1, <2>3, <2>4
  <2>8. m - 1 \in S /\ c(m - 1) = r - 1
    BY <2>3, <2>5, <2>6, <2>7, <1>1
  <2> QED
    BY <2>8
<1>4. \A r \in 1..N : InOrder(S)[r] \in S /\ c(InOrder(S)[r]) = r - 1
  <2> TAKE r \in 1..N
  <2>1. InOrder(S)[r] = CHOOSE i \in S : c(i) = r - 1
    BY DEF InOrder
  <2> QED
    BY <1>3, <2>1
<1>5. \A r, q \in 1..N : r < q => InOrder(S)[r] < InOrder(S)[q]
  <2> SUFFICES ASSUME NEW r \in 1..N, NEW q \in 1..N, r < q, ~ (InOrder(S)[r] < InOrder(S)[q]) PROVE FALSE
    OBVIOUS
  <2> DEFINE a == InOrder(S)[r]
             b == InOrder(S)[q]
  <2>0. a \in S /\ b \in S /\ c(a) = r - 1 /\ c(b) = q - 1
    BY <1>4
  <2>1. a \in 1..n /\ b \in 1..n /\ c(a) = r - 1 /\ c(b) = q - 1 /\ b <= a
    <3> HIDE DEF c, N
    <3>1. a \in 1..n /\ b \in 1..n
      BY <2>0
    <3>2. ~ (a < b)
      OBVIOUS
    <3> QED
      BY <2>0, <3>1, <3>2
  <2> HIDE DEF a, b, c, N
  <2>2. c(b) <= c(a)
    <3>1. CASE b = a
      BY <3>1, <2>1, <1>1
    <3>2. CASE b < a
      BY <3>2, <2>1, <1>2
    <3> QED
      BY <2>1, <3>1, <3>2
  <2> QED
    BY <2>1, <2>2, <1>1
<1>6. DOMAIN InOrder(S) = 1..N
  BY DEF InOrder
<1>7. InOrder(S) \in [1..N -> S]
  <2> DEFINE f == [r \in 1..N |-> CHOOSE i \in S : c(i) = r - 1]
  <2>1. InOrder(S) = f
    BY DEF InOrder
  <2>2. \A r \in 1..N : f[r] \in S
    BY <1>4, <2>1
  <2>3. f \in [1..N -> S]
    BY <2>2
  <2> QED
    BY <2>1, <2>3
<1>8. N = 0 => S = {}
  BY <1>1, FS_EmptySet
<1> QED
  BY <1>1, <1>4, <1>5, <1>7, <1>8

-----------------------------------------------------------------------------
(* What the parser makes of a text's lines. *)
Sources(t) == ToSet(t.lines)
Typed(t) ==
  [k : {"comment"} \cup {s.k : s \in Sources(t)}, of : Sources(t), raw : Nat]
    \cup [k : {"layer_change"}, index : Nat, z : {None} \cup {{s.v} : s \in Sources(t)}, raw : Nat]
Parsers(t) == [next : Nat, z : {None} \cup {{s.v} : s \in Sources(t)}]
Parsings(t) == [p : Parsers(t), lines : Seq(Typed(t))]

LEMMA TextShape ==
  ASSUME NEW t \in Texts
  PROVE  /\ t.lines \in Seq(Sources(t)) /\ Len(t.lines) \in Nat /\ DOMAIN t.lines = 1..Len(t.lines)
         /\ t.terminated \in BOOLEAN
         /\ \A i \in 1..Len(t.lines) : t.lines[i] \in Sources(t)
<1>1. t.lines \in Seq(Sources(t)) /\ t.terminated \in BOOLEAN
  BY TextsAssumption DEF Sources
<1> QED
  BY <1>1

LEMMA ClassifyShape ==
  ASSUME NEW t \in Texts, NEW p \in Parsers(t), NEW s \in Sources(t), NEW i \in Nat
  PROVE  /\ Classify(p, s, i) \in Seq(Typed(t))
         /\ \A j \in DOMAIN Classify(p, s, i) : Classify(p, s, i)[j].raw = i
         /\ s.k # "layer" => Len(Classify(p, s, i)) <= 1
         /\ AfterLine(p, s) \in Parsers(t)
<1>1. AfterLine(p, s) \in Parsers(t)
  BY DEF AfterLine, Parsers
<1> DEFINE own == [k |-> "comment", of |-> s, raw |-> i]
           other == [k |-> s.k, of |-> s, raw |-> i]
           made == [k |-> "layer_change", index |-> p.next, z |-> p.z, raw |-> i]
<1>2. own \in Typed(t) /\ other \in Typed(t) /\ made \in Typed(t)
  BY DEF Typed, Parsers
<1>3. own.raw = i /\ other.raw = i /\ made.raw = i
  OBVIOUS
<1>4. Classify(p, s, i) \in {<<>>, <<own>>, <<other>>, <<own, made>>}
      /\ (s.k # "layer" => Classify(p, s, i) \in {<<>>, <<own>>, <<other>>})
  BY DEF Classify
<1> HIDE DEF own, other, made
<1>5. \A x \in Typed(t) : /\ <<x>> \in Seq(Typed(t)) /\ Len(<<x>>) = 1 /\ DOMAIN <<x>> = {1}
                            /\ <<x>>[1] = x
  OBVIOUS
<1>6. \A x, y \in Typed(t) : /\ <<x, y>> \in Seq(Typed(t)) /\ DOMAIN <<x, y>> = {1, 2}
                               /\ <<x, y>>[1] = x /\ <<x, y>>[2] = y
  OBVIOUS
<1>7. <<>> \in Seq(Typed(t)) /\ Len(<<>>) = 0 /\ DOMAIN <<>> = {}
  OBVIOUS
<1>8. CASE Classify(p, s, i) = <<>>
  BY <1>1, <1>7, <1>8
<1>9. CASE Classify(p, s, i) = <<own>>
  BY <1>1, <1>2, <1>3, <1>5, <1>9
<1>10. CASE Classify(p, s, i) = <<other>>
  BY <1>1, <1>2, <1>3, <1>5, <1>10
<1>11. s.k # "layer" => Len(Classify(p, s, i)) <= 1
  <2> HAVE s.k # "layer"
  <2>1. Classify(p, s, i) = <<>> \/ Classify(p, s, i) = <<own>> \/ Classify(p, s, i) = <<other>>
    BY <1>4
  <2>2. Len(<<>>) <= 1 /\ Len(<<own>>) <= 1 /\ Len(<<other>>) <= 1
    OBVIOUS
  <2> QED
    BY <2>1, <2>2, Zenon
<1>12. CASE Classify(p, s, i) = <<own, made>>
  <2>1. /\ Classify(p, s, i) \in Seq(Typed(t))
        /\ \A j \in DOMAIN Classify(p, s, i) : Classify(p, s, i)[j].raw = i
    BY <1>2, <1>3, <1>6, <1>12
  <2> QED
    BY <1>1, <1>11, <2>1
<1> QED
  BY <1>4, <1>8, <1>9, <1>10, <1>12

LEMMA Parsed ==
  ASSUME NEW t \in Texts
  PROVE  LET ls == ParseAll(t.lines).lines
             n == Len(t.lines)
         IN /\ ls \in Seq(Typed(t))
            /\ \A i \in DOMAIN ls : ls[i].raw \in 1..n
            /\ n > 0 /\ t.lines[n].k # "layer" => \A i \in 1..(Len(ls) - 1) : ls[i].raw < n
<1> DEFINE n == Len(t.lines)
           text == t.lines
           start == [p |-> ParserStart, lines |-> <<>>]
           next(acc, i) == [p |-> AfterLine(acc.p, text[i]),
                            lines |-> acc.lines \o Classify(acc.p, text[i], i)]
           step == [i \in 1..n |-> [acc \in Parsings(t) |-> next(acc, i)]]
<1>1. n \in Nat /\ \A i \in 1..n : text[i] \in Sources(t)
  BY TextShape
<1>2. start \in Parsings(t)
  BY DEF Parsings, Parsers, ParserStart
<1>3. \A i \in 1..n, acc \in Parsings(t) : next(acc, i) \in Parsings(t)
  <2> TAKE i \in 1..n, acc \in Parsings(t)
  <2>1. acc.p \in Parsers(t) /\ acc.lines \in Seq(Typed(t)) /\ i \in Nat
    BY DEF Parsings
  <2>2. Classify(acc.p, text[i], i) \in Seq(Typed(t)) /\ AfterLine(acc.p, text[i]) \in Parsers(t)
    BY <1>1, <2>1, ClassifyShape
  <2> HIDE DEF text
  <2> QED
    BY <2>1, <2>2 DEF Parsings
<1>4. step \in [1..n -> [Parsings(t) -> Parsings(t)]]
  <2> HIDE DEF next
  <2> QED
    BY <1>3
<1>5. PICK f \in [0..n -> Parsings(t)] : Steps(f, n, start, step)
  <2> HIDE DEF start, step, n
  <2> QED
    BY <1>1, <1>2, <1>4, Recursion
<1>6. f[0] = start /\ \A i \in 1..n : f[i] = next(f[i - 1], i)
  <2>1. \A i \in 1..n : f[i - 1] \in Parsings(t)
    BY <1>1, <1>5
  <2>2. \A i \in 1..n : step[i][f[i - 1]] = next(f[i - 1], i)
    <3> HIDE DEF next
    <3> QED
      BY <2>1
  <2> HIDE DEF next, step
  <2> QED
    BY <1>5, <2>2 DEF Steps
<1>7. f = [m \in 0..n |-> IF m = 0 THEN start ELSE next(f[m - 1], m)]
  <2> HIDE DEF next, start
  <2>1. \A m \in 0..n : f[m] = IF m = 0 THEN start ELSE next(f[m - 1], m)
    <3> TAKE m \in 0..n
    <3>1. m # 0 => m \in 1..n
      BY <1>1
    <3> QED
      BY <1>6, <3>1
  <2>2. f = [m \in 0..n |-> f[m]]
    BY <1>5
  <2> QED
    BY <2>1, <2>2, Zenon
<1> DEFINE g == CHOOSE h : h = [m \in 0..Len(t.lines) |->
                  IF m = 0 THEN [p |-> ParserStart, lines |-> <<>>]
                  ELSE [p |-> AfterLine(h[m - 1].p, t.lines[m]),
                        lines |-> h[m - 1].lines \o Classify(h[m - 1].p, t.lines[m], m)]]
<1>8. g = [m \in 0..Len(t.lines) |->
                  IF m = 0 THEN [p |-> ParserStart, lines |-> <<>>]
                  ELSE [p |-> AfterLine(g[m - 1].p, t.lines[m]),
                        lines |-> g[m - 1].lines \o Classify(g[m - 1].p, t.lines[m], m)]]
  BY <1>7, Zenon
<1>9. ParseAll(t.lines) = g[n]
  BY DEF ParseAll
<1>10. g[0] = start /\ \A m \in 1..n : g[m] = next(g[m - 1], m)
  <2>1. 0 \in 0..n /\ \A m \in 1..n : m \in 0..n /\ m # 0
    BY <1>1
  <2> HIDE DEF g
  <2> QED
    BY <1>8, <2>1
<1> DEFINE good == {m \in 0..n : /\ g[m] \in Parsings(t)
                                 /\ \A i \in DOMAIN g[m].lines : g[m].lines[i].raw \in 1..m}
<1> HIDE DEF g
<1>11. 0 \in good
  BY <1>1, <1>2, <1>10
<1>12. ASSUME NEW m \in 1..n, m - 1 \in good
       PROVE  /\ g[m] \in Parsings(t)
              /\ \A i \in DOMAIN g[m].lines : g[m].lines[i].raw \in 1..m
              /\ text[m].k # "layer" => \A i \in 1..(Len(g[m].lines) - 1) : g[m].lines[i].raw < m
  <2>1. g[m - 1] \in Parsings(t) /\ \A i \in DOMAIN g[m - 1].lines : g[m - 1].lines[i].raw \in 1..(m - 1)
    BY <1>12
  <2>2. g[m] \in Parsings(t)
    <3> HIDE DEF next
    <3> QED
      BY <1>3, <1>10, <2>1
  <2> DEFINE was == g[m - 1].lines
             more == Classify(g[m - 1].p, text[m], m)
  <2>3. g[m].lines = was \o more
    <3>1. g[m] = next(g[m - 1], m)
      <4> HIDE DEF next
      <4> QED
        BY <1>10
    <3>2. next(g[m - 1], m).lines = was \o more
      OBVIOUS
    <3> HIDE DEF next, was, more
    <3> QED
      BY <3>1, <3>2
  <2>4. /\ more \in Seq(Typed(t)) /\ (\A j \in DOMAIN more : more[j].raw = m)
        /\ (text[m].k # "layer" => Len(more) <= 1)
    <3>1. g[m - 1].p \in Parsers(t) /\ m \in Nat /\ text[m] \in Sources(t)
      BY <1>1, <2>1 DEF Parsings
    <3> HIDE DEF text
    <3> QED
      BY <3>1, ClassifyShape
  <2>5. was \in Seq(Typed(t)) /\ \A i \in DOMAIN was : was[i].raw \in 1..(m - 1)
    BY <2>1 DEF Parsings
  <2> HIDE DEF was, more, text
  <2>6. /\ Len(was \o more) = Len(was) + Len(more) /\ Len(was) \in Nat /\ Len(more) \in Nat
        /\ DOMAIN (was \o more) = 1..(Len(was) + Len(more))
        /\ DOMAIN was = 1..Len(was) /\ DOMAIN more = 1..Len(more)
        /\ \A i \in 1..(Len(was) + Len(more)) :
             (was \o more)[i] = IF i <= Len(was) THEN was[i] ELSE more[i - Len(was)]
    BY <2>4, <2>5
  <2>7. \A i \in 1..(Len(was) + Len(more)) : /\ (was \o more)[i].raw \in 1..m
                                             /\ i <= Len(was) => (was \o more)[i].raw < m
    <3> TAKE i \in 1..(Len(was) + Len(more))
    <3>1. CASE i <= Len(was)
      <4>1. i \in DOMAIN was
        BY <3>1, <2>6
      <4> QED
        BY <3>1, <4>1, <2>5, <2>6
    <3>2. CASE ~ (i <= Len(was))
      <4>1. i - Len(was) \in DOMAIN more
        BY <3>2, <2>6
      <4> QED
        BY <3>2, <4>1, <2>4, <2>6
    <3> QED
      BY <3>1, <3>2
  <2>8. text[m].k # "layer" => \A i \in 1..(Len(was \o more) - 1) : (was \o more)[i].raw < m
    BY <2>4, <2>6, <2>7
  <2> QED
    BY <2>2, <2>3, <2>6, <2>7, <2>8
<1>13. \A i \in 0..n : i \in good
  <2>1. \A m \in 1..n : m - 1 \in good => m \in good
    BY <1>12
  <2> HIDE DEF good
  <2> QED
    BY <1>1, <1>11, <2>1, UpTo
<1>14. g[n] \in Parsings(t) /\ \A i \in DOMAIN g[n].lines : g[n].lines[i].raw \in 1..n
  BY <1>1, <1>13
<1>15. n > 0 /\ text[n].k # "layer" => \A i \in 1..(Len(g[n].lines) - 1) : g[n].lines[i].raw < n
  <2> HAVE n > 0 /\ text[n].k # "layer"
  <2>1. n \in 1..n /\ n - 1 \in good
    BY <1>1, <1>13
  <2> HIDE DEF good
  <2> QED
    BY <1>12, <2>1
<1> QED
  BY <1>9, <1>14, <1>15 DEF Parsings

-----------------------------------------------------------------------------
Kinds == {"comment", "layer_change", "other"} \cup UNION {{s.k : s \in Sources(t)} : t \in Texts}
Line == [k : Kinds, raw : Nat, by : Plugins \cup {0}, nl : BOOLEAN]

(* Only the last line may lack its end. *)
Ended(ls) == \A i \in 1..(Len(ls) - 1) : ls[i].nl
Banned == {p \in Plugins : LevelOf(p, "plate").on = {FALSE}}

(* The lines the fold has are of plugins that ran to their end, and that    *)
(* may change the plate.                                                   *)
Earned(ls) ==
  \A i \in DOMAIN ls :
    ls[i].by # 0 => /\ ls[i].by \in healthy /\ ls[i].by \notin Banned
                    /\ ls[i].by <= last /\ ls[i].by # running

Phases ==
  /\ input \in Texts /\ folding \in {"idle", "read", "fold"} /\ last \in Nat
  /\ folding # "fold" => last = 0 /\ running = 0

(* The copy of the running plugin, and the two lists of typed lines. *)
Copies ==
  running # 0 => /\ running \notin Banned
                 /\ \A i \in DOMAIN buf : buf[i].by # 0 =>
                       /\ buf[i].by \in healthy /\ buf[i].by \notin Banned /\ buf[i].by <= last
TypedLines ==
  /\ adopted \in Seq(Line) /\ buf \in Seq(Line)
  /\ ~BareMarker => Ended(adopted) /\ Ended(buf)
WrittenLines ==
  /\ file \in Seq([raw : Nat, nl : BOOLEAN, by : Plugins \cup {0}])
  /\ \A i \in DOMAIN file : file[i].by # 0 => file[i].by \notin Banned
  /\ ~BareMarker => Ended(file)

HostIInv ==
  /\ HostTypeOK /\ SwitchSurvivesRestart /\ Phases /\ Earned(adopted) /\ Copies /\ TypedLines
  /\ WrittenLines

LEMMA BufferShape ==
  ASSUME NEW t \in Texts
  PROVE  /\ Buffer(t) \in Seq(Line) /\ \A i \in DOMAIN Buffer(t) : Buffer(t)[i].by = 0
         /\ t.terminated \/ Last(t.lines).k # "layer" => Ended(Buffer(t))
<1> DEFINE ls == ParseAll(t.lines).lines
           n == Len(t.lines)
<1>1. /\ ls \in Seq(Typed(t)) /\ \A i \in DOMAIN ls : ls[i].raw \in 1..n
      /\ n > 0 /\ t.lines[n].k # "layer" => \A i \in 1..(Len(ls) - 1) : ls[i].raw < n
  BY Parsed
<1>2. n \in Nat /\ t.terminated \in BOOLEAN
  BY TextShape
<1>3. \A x \in Typed(t) : x.k \in Kinds /\ x.raw \in Nat
  BY DEF Typed, Kinds
<1> HIDE DEF ls
<1>4. Len(ls) \in Nat /\ DOMAIN ls = 1..Len(ls) /\ \A i \in 1..Len(ls) : ls[i] \in Typed(t)
  BY <1>1
<1> DEFINE made(i) == [k |-> ls[i].k, raw |-> ls[i].raw, by |-> 0, nl |-> ls[i].raw < n \/ t.terminated]
<1>5. Buffer(t) = [i \in 1..Len(ls) |-> made(i)]
  BY <1>4 DEF Buffer, ls
<1>6. \A i \in 1..Len(ls) : made(i) \in Line
  <2> TAKE i \in 1..Len(ls)
  <2>1. ls[i].k \in Kinds /\ ls[i].raw \in Nat
    BY <1>3, <1>4
  <2> QED
    BY <2>1, <1>2 DEF Line
<1>7. \A i \in 1..Len(ls) : made(i).by = 0 /\ made(i).nl = (ls[i].raw < n \/ t.terminated)
  OBVIOUS
<1> HIDE DEF made
<1>8. /\ Buffer(t) \in Seq(Line) /\ Len(Buffer(t)) = Len(ls) /\ DOMAIN Buffer(t) = 1..Len(ls)
      /\ \A i \in 1..Len(ls) : Buffer(t)[i] = made(i)
  BY <1>4, <1>5, <1>6
<1>9. ASSUME t.terminated \/ Last(t.lines).k # "layer"
      PROVE  \A i \in 1..(Len(ls) - 1) : ls[i].raw < n \/ t.terminated
  <2> SUFFICES ASSUME ~ t.terminated, NEW i \in 1..(Len(ls) - 1) PROVE ls[i].raw < n
    OBVIOUS
  <2>1. n > 0
    <3>1. i \in DOMAIN ls
      BY <1>4
    <3>2. ls[i].raw \in 1..n
      BY <1>1, <3>1
    <3> QED
      BY <1>2, <3>2
  <2>2. Last(t.lines) = t.lines[n]
    BY DEF Last
  <2> QED
    BY <1>1, <1>9, <2>1, <2>2
<1>10. ASSUME t.terminated \/ Last(t.lines).k # "layer"
       PROVE  Ended(Buffer(t))
  <2> SUFFICES ASSUME NEW i \in 1..(Len(ls) - 1) PROVE Buffer(t)[i].nl
    BY <1>8 DEF Ended
  <2>1. i \in 1..Len(ls) /\ (ls[i].raw < n \/ t.terminated)
    BY <1>4, <1>9, <1>10
  <2>2. Buffer(t)[i].nl = (ls[i].raw < n \/ t.terminated)
    BY <1>7, <1>8, <2>1
  <2> QED
    BY <2>1, <2>2
<1> QED
  BY <1>7, <1>8, <1>10

(* What is written is of lines there are, in their order. *)
LEMMA SerializedShape ==
  ASSUME NEW ls \in Seq(Line)
  PROVE  /\ Serialized(ls) \in Seq([raw : Nat, nl : BOOLEAN, by : Plugins \cup {0}])
         /\ \A i \in DOMAIN Serialized(ls) : \E j \in DOMAIN ls : Serialized(ls)[i].by = ls[j].by
         /\ Ended(ls) => Ended(Serialized(ls))
<1> DEFINE S == {i \in DOMAIN ls : ~Synthetic(ls[i])}
           N == Cardinality(S)
           at == InOrder(S)
<1>1. Len(ls) \in Nat /\ DOMAIN ls = 1..Len(ls) /\ \A i \in 1..Len(ls) : ls[i] \in Line
  OBVIOUS
<1>2. S \in SUBSET (1..Len(ls))
  BY <1>1
<1>3. N \in Nat /\ at \in [1..N -> S] /\ \A r, q \in 1..N : r < q => at[r] < at[q]
  <2> HIDE DEF S
  <2> QED
    BY <1>1, <1>2, InOrderLists
<1>4. Kept(ls) = at
  BY DEF Kept
<1> HIDE DEF S, N, at
<1> DEFINE made(r) == [raw |-> ls[at[r]].raw, nl |-> ls[at[r]].nl, by |-> ls[at[r]].by]
<1>5. \A r \in 1..N : at[r] \in 1..Len(ls)
  BY <1>2, <1>3
<1>6. Serialized(ls) = [r \in 1..N |-> made(r)]
  BY <1>3, <1>4 DEF Serialized
<1>7. \A r \in 1..N : /\ made(r) \in [raw : Nat, nl : BOOLEAN, by : Plugins \cup {0}]
                      /\ made(r).by = ls[at[r]].by /\ made(r).nl = ls[at[r]].nl
  BY <1>1, <1>5 DEF Line
<1> HIDE DEF made
<1>8. /\ Serialized(ls) \in Seq([raw : Nat, nl : BOOLEAN, by : Plugins \cup {0}])
      /\ Len(Serialized(ls)) = N /\ DOMAIN Serialized(ls) = 1..N
      /\ \A r \in 1..N : Serialized(ls)[r] = made(r)
  BY <1>3, <1>6, <1>7
<1>9. ASSUME Ended(ls) PROVE Ended(Serialized(ls))
  <2> SUFFICES ASSUME NEW r \in 1..(N - 1) PROVE Serialized(ls)[r].nl
    BY <1>8 DEF Ended
  <2>1. r \in 1..N /\ N \in 1..N /\ r < N
    BY <1>3
  <2>2. at[r] < at[N] /\ at[r] \in 1..Len(ls) /\ at[N] \in 1..Len(ls)
    BY <1>3, <1>5, <2>1
  <2>3. at[r] \in 1..(Len(ls) - 1)
    BY <1>1, <2>2
  <2>4. ls[at[r]].nl
    BY <1>9, <2>3 DEF Ended
  <2> QED
    BY <1>7, <1>8, <2>1, <2>4
<1>10. \A i \in DOMAIN Serialized(ls) : \E j \in DOMAIN ls : Serialized(ls)[i].by = ls[j].by
  BY <1>1, <1>5, <1>7, <1>8
<1> QED
  BY <1>8, <1>9, <1>10

LEMMA ValueShape ==
  ASSUME NEW v, NEW p \in Plugins
  PROVE  /\ Value(v, p) \in Seq(Line)
         /\ \A i \in DOMAIN Value(v, p) : Value(v, p)[i].by = p /\ Value(v, p)[i].nl
<1> DEFINE line(k) == [k |-> k, raw |-> 0, by |-> p, nl |-> TRUE]
<1>1. \A k \in {"other", "comment", "layer_change"} : line(k) \in Line /\ line(k).by = p /\ line(k).nl
  BY DEF Line, Kinds
<1>2. Value(v, p) \in {<<>>, <<line("other")>>, <<line("comment"), line("layer_change")>>}
  BY DEF Value
<1> HIDE DEF line
<1>3. CASE Value(v, p) = <<>>
  BY <1>3
<1>4. CASE Value(v, p) = <<line("other")>>
  BY <1>1, <1>4
<1>5. CASE Value(v, p) = <<line("comment"), line("layer_change")>>
  BY <1>1, <1>5
<1> QED
  BY <1>2, <1>3, <1>4, <1>5

(* What an edit of the copy gives: lines it had, lines of the plugin that   *)
(* edits, and only the last without its end.                               *)
LEMMA Inserted ==
  ASSUME NEW ls \in Seq(Line), NEW i \in 0..Len(ls), NEW new \in Seq(Line), NEW p \in Plugins,
         \A j \in DOMAIN new : new[j].by = p /\ new[j].nl
  PROVE  /\ InsertLines(ls, i, new) \in Seq(Line)
         /\ \A j \in DOMAIN InsertLines(ls, i, new) :
              \/ InsertLines(ls, i, new)[j].by = p
              \/ \E k \in DOMAIN ls : InsertLines(ls, i, new)[j].by = ls[k].by
         /\ Ended(ls) => Ended(InsertLines(ls, i, new))
<1> DEFINE t == EnsureTerminated(ls, i)
           n == Len(ls)
           m == Len(new)
           out == SubSeq(t, 1, i) \o new \o SubSeq(t, i + 1, Len(t))
<1>1. /\ n \in Nat /\ m \in Nat /\ DOMAIN ls = 1..n /\ DOMAIN new = 1..m
      /\ (\A j \in 1..n : ls[j] \in Line) /\ \A j \in 1..m : new[j] \in Line
  OBVIOUS
<1>2. /\ t \in Seq(Line) /\ Len(t) = n /\ DOMAIN t = 1..n
      /\ \A j \in 1..n : /\ t[j].by = ls[j].by
                         /\ t[j].nl = IF j = i THEN TRUE ELSE ls[j].nl
  <2>1. CASE i = 0
    <3>1. t = ls
      BY <2>1 DEF EnsureTerminated
    <3>2. \A j \in 1..n : j # i
      BY <1>1, <2>1
    <3> HIDE DEF t, n
    <3> QED
      BY <1>1, <3>1, <3>2 DEF n
  <2>2. CASE i # 0
    <3>1. t = [ls EXCEPT ![i].nl = TRUE] /\ i \in 1..n
      BY <1>1, <2>2 DEF EnsureTerminated
    <3>2. [ls[i] EXCEPT !.nl = TRUE] \in Line
      BY <1>1, <3>1 DEF Line
    <3>3. \A j \in 1..n : t[j] = IF j = i THEN [ls[i] EXCEPT !.nl = TRUE] ELSE ls[j]
      BY <1>1, <3>1
    <3>4. t \in [1..n -> Line]
      BY <1>1, <3>1, <3>2
    <3>5. t \in Seq(Line) /\ Len(t) = n
      <4> HIDE DEF t, n
      <4> QED
        BY <1>1, <3>4
    <3>6. \A j \in 1..n : /\ t[j].by = ls[j].by
                          /\ t[j].nl = IF j = i THEN TRUE ELSE ls[j].nl
      <4> HIDE DEF t, n
      <4> QED
        BY <1>1, <3>1, <3>3 DEF Line
    <3>7. DOMAIN t = 1..n
      BY <1>1, <3>1
    <3> QED
      BY <3>5, <3>6, <3>7
  <2> QED
    BY <2>1, <2>2
<1> HIDE DEF t
<1>3. /\ SubSeq(t, 1, i) \in Seq(Line) /\ Len(SubSeq(t, 1, i)) = i
      /\ \A j \in 1..i : SubSeq(t, 1, i)[j] = t[j]
  BY <1>1, <1>2
<1>4. /\ SubSeq(t, i + 1, Len(t)) \in Seq(Line) /\ Len(SubSeq(t, i + 1, Len(t))) = n - i
      /\ \A j \in 1..(n - i) : SubSeq(t, i + 1, Len(t))[j] = t[i + j]
  <2>1. \A j \in (i + 1)..n : t[j] \in Line
    BY <1>1, <1>2
  <2>0. i \in Int /\ n \in Int /\ i <= n
    BY <1>1
  <2> HIDE DEF n
  <2>2. /\ i + 1 \in Int /\ n \in Int /\ n - (i + 1) + 1 = n - i
        /\ (IF i + 1 <= n THEN n - (i + 1) + 1 ELSE 0) = n - i
        /\ \A j \in 1..(n - i) : (i + 1) + j - 1 = i + j
    BY <2>0
  <2>3. /\ SubSeq(t, i + 1, n) \in Seq(Line)
        /\ Len(SubSeq(t, i + 1, n)) = IF i + 1 <= n THEN n - (i + 1) + 1 ELSE 0
        /\ \A j \in 1..(n - (i + 1) + 1) : SubSeq(t, i + 1, n)[j] = t[(i + 1) + j - 1]
    BY <2>1, <2>2, SubSeqProperties
  <2> QED
    BY <1>2, <2>2, <2>3
<1> DEFINE a == SubSeq(t, 1, i)
           b == SubSeq(t, i + 1, Len(t))
<1>5. a \o new \in Seq(Line) /\ Len(a \o new) = i + m
      /\ \A j \in 1..(i + m) : (a \o new)[j] = IF j <= i THEN t[j] ELSE new[j - i]
  <2> HIDE DEF a, b
  <2>1. a \in Seq(Line) /\ Len(a) = i /\ \A j \in 1..i : a[j] = t[j]
    BY <1>3 DEF a
  <2>2. /\ a \o new \in Seq(Line) /\ Len(a \o new) = Len(a) + Len(new)
        /\ \A j \in 1..(Len(a) + Len(new)) : (a \o new)[j] = IF j <= Len(a) THEN a[j] ELSE new[j - Len(a)]
    BY <2>1, ConcatProperties
  <2> QED
    BY <1>1, <2>1, <2>2
<1>6. /\ out \in Seq(Line) /\ Len(out) = n + m /\ DOMAIN out = 1..(n + m)
      /\ \A j \in 1..(n + m) : out[j] = IF j <= i THEN t[j] ELSE IF j <= i + m THEN new[j - i] ELSE t[j - m]
  <2> DEFINE c == a \o new
  <2>1. c \in Seq(Line) /\ Len(c) = i + m /\ \A j \in 1..(i + m) : c[j] = IF j <= i THEN t[j] ELSE new[j - i]
    BY <1>5
  <2>2. b \in Seq(Line) /\ Len(b) = n - i /\ \A j \in 1..(n - i) : b[j] = t[i + j]
    BY <1>4
  <2>3. out = c \o b
    OBVIOUS
  <2> HIDE DEF c, b, out
  <2>4. /\ c \o b \in Seq(Line) /\ Len(c \o b) = n + m
        /\ \A j \in 1..(n + m) : (c \o b)[j] = IF j <= i + m THEN c[j] ELSE b[j - (i + m)]
    <3>1. /\ c \o b \in Seq(Line) /\ Len(c \o b) = Len(c) + Len(b)
          /\ \A j \in 1..(Len(c) + Len(b)) : (c \o b)[j] = IF j <= Len(c) THEN c[j] ELSE b[j - Len(c)]
      BY <2>1, <2>2, ConcatProperties
    <3>2. Len(c) + Len(b) = n + m
      BY <1>1, <2>1, <2>2
    <3> QED
      BY <2>1, <3>1, <3>2
  <2>5. \A j \in 1..(n + m) : (c \o b)[j] = IF j <= i THEN t[j] ELSE IF j <= i + m THEN new[j - i] ELSE t[j - m]
    <3> TAKE j \in 1..(n + m)
    <3>1. CASE j <= i + m
      BY <3>1, <1>1, <2>1, <2>4
    <3>2. CASE ~ (j <= i + m)
      <4>1. j - (i + m) \in 1..(n - i) /\ i + (j - (i + m)) = j - m
        BY <3>2, <1>1
      <4>2. (c \o b)[j] = t[j - m]
        BY <3>2, <4>1, <2>2, <2>4
      <4> QED
        BY <3>2, <4>2, <1>1
    <3> QED
      BY <3>1, <3>2
  <2> QED
    BY <1>1, <2>3, <2>4, <2>5
<1>7. InsertLines(ls, i, new) = out
  BY DEF InsertLines, t
<1> HIDE DEF out, a, b, n, m
<1>8. \A j \in 1..(n + m) : \/ out[j].by = p
                            \/ \E k \in DOMAIN ls : out[j].by = ls[k].by
  <2> TAKE j \in 1..(n + m)
  <2>1. CASE j <= i
    <3>1. j \in 1..n /\ out[j] = t[j]
      BY <2>1, <1>1, <1>6 DEF n
    <3> QED
      BY <3>1, <1>1, <1>2
  <2>2. CASE i < j /\ j <= i + m
    <3>1. j - i \in 1..m /\ out[j] = new[j - i]
      BY <2>2, <1>1, <1>6
    <3> QED
      BY <3>1, <1>1
  <2>3. CASE i + m < j
    <3>1. j - m \in 1..n /\ out[j] = t[j - m]
      BY <2>3, <1>1, <1>6
    <3> QED
      BY <3>1, <1>1, <1>2
  <2> QED
    BY <2>1, <2>2, <2>3, <1>1
<1>9. ASSUME Ended(ls) PROVE Ended(out)
  <2> SUFFICES ASSUME NEW j \in 1..(n + m - 1) PROVE out[j].nl
    <3>1. Len(out) - 1 = n + m - 1
      BY <1>1, <1>6
    <3> QED
      BY <3>1 DEF Ended
  <2>0. j \in 1..(n + m)
    BY <1>1
  <2>1. CASE j <= i
    <3>1. j \in 1..n /\ out[j] = t[j] /\ (j # i => j \in 1..(n - 1))
      BY <2>0, <2>1, <1>1, <1>6 DEF n
    <3> QED
      BY <3>1, <1>2, <1>9 DEF Ended, n
  <2>2. CASE i < j /\ j <= i + m
    <3>1. j - i \in 1..m /\ out[j] = new[j - i]
      BY <2>0, <2>2, <1>1, <1>6
    <3> QED
      BY <3>1, <1>1
  <2>3. CASE i + m < j
    <3>1. j - m \in 1..(n - 1) /\ j - m # i /\ out[j] = t[j - m] /\ j - m \in 1..n
      BY <2>0, <2>3, <1>1, <1>6
    <3>2. ls[j - m].nl
      BY <3>1, <1>9 DEF Ended, n
    <3> QED
      BY <3>1, <3>2, <1>2
  <2> QED
    BY <2>1, <2>2, <2>3, <1>1
<1> QED
  BY <1>6, <1>7, <1>8, <1>9

LEMMA Removed ==
  ASSUME NEW ls \in Seq(Line), NEW i \in 1..Len(ls)
  PROVE  /\ RemoveLine(ls, i) \in Seq(Line) /\ Len(RemoveLine(ls, i)) = Len(ls) - 1
         /\ \A j \in DOMAIN RemoveLine(ls, i) : \E k \in DOMAIN ls : RemoveLine(ls, i)[j].by = ls[k].by
         /\ Ended(ls) => Ended(RemoveLine(ls, i))
<1> DEFINE n == Len(ls)
           a == SubSeq(ls, 1, i - 1)
           b == SubSeq(ls, i + 1, n)
<1>1. n \in Nat /\ DOMAIN ls = 1..n /\ i \in 1..n
  OBVIOUS
<1>2. a \in Seq(Line) /\ Len(a) = i - 1 /\ \A j \in 1..(i - 1) : a[j] = ls[j]
  BY <1>1
<1>3. b \in Seq(Line) /\ Len(b) = n - i /\ \A j \in 1..(n - i) : b[j] = ls[i + j]
  <2>1. \A j \in (i + 1)..n : ls[j] \in Line
    BY <1>1
  <2>0. i \in Int /\ n \in Int /\ i <= n
    BY <1>1
  <2> HIDE DEF n
  <2>2. /\ i + 1 \in Int /\ n \in Int /\ n - (i + 1) + 1 = n - i
        /\ (IF i + 1 <= n THEN n - (i + 1) + 1 ELSE 0) = n - i
        /\ \A j \in 1..(n - i) : (i + 1) + j - 1 = i + j
    BY <2>0
  <2>3. /\ SubSeq(ls, i + 1, n) \in Seq(Line)
        /\ Len(SubSeq(ls, i + 1, n)) = IF i + 1 <= n THEN n - (i + 1) + 1 ELSE 0
        /\ \A j \in 1..(n - (i + 1) + 1) : SubSeq(ls, i + 1, n)[j] = ls[(i + 1) + j - 1]
    BY <2>1, <2>2, SubSeqProperties
  <2> QED
    BY <2>2, <2>3
<1>4. RemoveLine(ls, i) = a \o b
  BY DEF RemoveLine
<1> HIDE DEF a, b
<1>5. /\ a \o b \in Seq(Line) /\ Len(a \o b) = n - 1 /\ DOMAIN (a \o b) = 1..(n - 1)
      /\ \A j \in 1..(n - 1) : (a \o b)[j] = IF j <= i - 1 THEN a[j] ELSE b[j - (i - 1)]
  <2>1. /\ a \o b \in Seq(Line) /\ Len(a \o b) = Len(a) + Len(b)
        /\ \A j \in 1..(Len(a) + Len(b)) : (a \o b)[j] = IF j <= Len(a) THEN a[j] ELSE b[j - Len(a)]
    BY <1>2, <1>3, ConcatProperties
  <2>2. Len(a) + Len(b) = n - 1
    BY <1>1, <1>2, <1>3
  <2>3. DOMAIN (a \o b) = 1..Len(a \o b)
    BY <2>1
  <2> QED
    BY <1>2, <2>1, <2>2, <2>3
<1>6. \A j \in 1..(n - 1) : (a \o b)[j] = IF j < i THEN ls[j] ELSE ls[j + 1]
  <2> TAKE j \in 1..(n - 1)
  <2>1. CASE j < i
    <3>1. j \in 1..(i - 1) /\ j <= i - 1
      BY <2>1, <1>1
    <3> QED
      BY <2>1, <3>1, <1>2, <1>5
  <2>2. CASE ~ (j < i)
    <3>1. j - (i - 1) \in 1..(n - i) /\ i + (j - (i - 1)) = j + 1
      BY <2>2, <1>1
    <3> QED
      BY <2>2, <3>1, <1>3, <1>5, <1>1
  <2> QED
    BY <2>1, <2>2
<1> HIDE DEF n
<1>7. \A j \in 1..(n - 1) : j \in 1..n /\ j + 1 \in 1..n
  BY <1>1
<1>8. ASSUME Ended(ls) PROVE Ended(a \o b)
  <2> SUFFICES ASSUME NEW j \in 1..(n - 2) PROVE (a \o b)[j].nl
    BY <1>1, <1>5 DEF Ended
  <2>1. j \in 1..(n - 1) /\ j + 1 \in 1..(n - 1)
    BY <1>1
  <2>2. ls[j].nl /\ ls[j + 1].nl
    BY <1>8, <2>1 DEF Ended, n
  <2> QED
    BY <1>6, <2>1, <2>2
<1> QED
  BY <1>1, <1>4, <1>5, <1>6, <1>7, <1>8 DEF n

-----------------------------------------------------------------------------
(* Every layer is found, from its marker to the line before the next one.  *)
LEMMA LayersAreFound == buf \in Seq(Line) => LayersTile
<1> SUFFICES ASSUME buf \in Seq(Line) PROVE LayersTile
  OBVIOUS
<1> DEFINE S == {i \in DOMAIN buf : Synthetic(buf[i])}
           n == Cardinality(S)
           at == InOrder(S)
<1>1. S \in SUBSET (1..Len(buf)) /\ Len(buf) \in Nat
  OBVIOUS
<1>2. n \in Nat /\ at \in [1..n -> S]
  <2> HIDE DEF S
  <2> QED
    BY <1>1, InOrderLists
<1>3. \A i \in S : Synthetic(buf[i])
  OBVIOUS
<1>4. Len(at) = n
  BY <1>2
<1>5. \A k : NthLayer(buf, k) =
        IF k >= n THEN None
        ELSE {[first |-> at[k + 1], last |-> IF k + 2 > n THEN Len(buf) ELSE at[k + 2] - 1]}
  <2> HIDE DEF n
  <2>1. \A k : NthLayer(buf, k) =
          IF k >= Len(at) THEN None
          ELSE {[first |-> at[k + 1], last |-> IF k + 2 > Len(at) THEN Len(buf) ELSE at[k + 2] - 1]}
    BY DEF NthLayer
  <2> HIDE DEF at
  <2> QED
    BY <1>4, <2>1
<1>6. LayersTile = \A k \in 0..(n - 1) : \E l \in NthLayer(buf, k) :
          /\ Synthetic(buf[l.first])
          /\ IF k = n - 1 THEN l.last = Len(buf)
             ELSE \A next \in NthLayer(buf, k + 1) : l.last + 1 = next.first
  BY DEF LayersTile
<1> HIDE DEF S, n, at
<1> SUFFICES ASSUME NEW k \in 0..(n - 1)
             PROVE  \E l \in NthLayer(buf, k) :
                      /\ Synthetic(buf[l.first])
                      /\ IF k = n - 1 THEN l.last = Len(buf)
                         ELSE \A next \in NthLayer(buf, k + 1) : l.last + 1 = next.first
  BY <1>6
<1> DEFINE l == [first |-> at[k + 1], last |-> IF k + 2 > n THEN Len(buf) ELSE at[k + 2] - 1]
<1>7. ~ (k >= n) /\ k + 1 \in 1..n /\ k \in Int
  BY <1>2
<1>8. NthLayer(buf, k) = {l}
  BY <1>5, <1>7
<1>9. Synthetic(buf[l.first])
  BY <1>2, <1>3, <1>7
<1>10. CASE k = n - 1
  <2>1. l.last = Len(buf)
    BY <1>2, <1>7, <1>10
  <2> QED
    BY <1>8, <1>9, <1>10, <2>1
<1>11. CASE k # n - 1
  <2>1. ~ (k + 1 >= n) /\ k + 2 \in 1..n /\ ~ (k + 2 > n) /\ (k + 1) + 1 = k + 2
    BY <1>2, <1>7, <1>11
  <2>2. at[k + 2] \in Int
    <3>1. at[k + 2] \in 1..Len(buf)
      BY <1>1, <1>2, <2>1
    <3> QED
      BY <3>1
  <2>3. \A next \in NthLayer(buf, k + 1) : next.first = at[k + 2]
    BY <1>5, <2>1
  <2>4. l.last = at[k + 2] - 1
    BY <2>1
  <2>5. l.last + 1 = at[k + 2]
    BY <2>2, <2>4
  <2> HIDE DEF l
  <2> QED
    BY <1>8, <1>9, <1>11, <2>3, <2>5
<1> QED
  BY <1>10, <1>11

(* A plugin that is off for the plate does not run. *)
LEMMA FinestIs ==
  ASSUME NEW is \in SUBSET (1..3), is # {}
  PROVE  /\ \E i \in is : Finest(is) = Levels[i]
         /\ 1 \in is => Finest(is) = Levels[1]
<1>1. \E i \in is : \A j \in is : i <= j
  <2>1. is \in SUBSET Nat
    OBVIOUS
  <2> QED
    BY <2>1, LeastOne
<1> DEFINE least == CHOOSE i \in is : \A j \in is : i <= j
<1>2. least \in is /\ \A j \in is : least <= j
  BY <1>1
<1>3. Finest(is) = Levels[least]
  BY DEF Finest
<1> HIDE DEF least
<1>4. 1 \in is => least = 1
  BY <1>2
<1> QED
  BY <1>2, <1>3, <1>4

LEMMA BannedDoesNotRun == \A p \in Banned : ~ Runs(p)
<1> SUFFICES ASSUME NEW p \in Banned, Runs(p) PROVE FALSE
  OBVIOUS
<1> DEFINE said == {i \in DOMAIN Levels : LevelOf(p, Levels[i]).on # None}
<1>1. DOMAIN Levels = 1..3 /\ Levels[1] = "plate"
  BY DEF Levels
<1>2. said \in SUBSET (1..3) /\ 1 \in said
  <2>1. LevelOf(p, Levels[1]).on = {FALSE}
    BY <1>1 DEF Banned
  <2>2. LevelOf(p, Levels[1]).on # None
    BY <2>1 DEF None
  <2>3. 1 \in DOMAIN Levels
    BY <1>1
  <2> QED
    BY <1>1, <2>2, <2>3
<1>3. Effective(p) = IF said # {} THEN Or(LevelOf(p, Finest(said)).on, FALSE)
                     ELSE Or(global[p], manifest[p].default)
  BY DEF Effective
<1> HIDE DEF said
<1>4. Finest(said) = "plate"
  BY <1>1, <1>2, FinestIs
<1>5. Effective(p) = Or({FALSE}, FALSE)
  BY <1>2, <1>3, <1>4 DEF Banned
<1>6. Or({FALSE}, FALSE) = FALSE
  BY DEF Or
<1> QED
  BY <1>5, <1>6 DEF Runs

LEMMA SettingIsOfASwitch == SettingsComeWithTheSwitch
<1> SUFFICES ASSUME NEW p, Setting(p) \in ToSet(Levels)
             PROVE  LevelOf(p, Setting(p)).on = {TRUE}
  BY DEF SettingsComeWithTheSwitch
<1> DEFINE set == {i \in DOMAIN Levels : LevelOf(p, Levels[i]).set /\ LevelOf(p, Levels[i]).on = {TRUE}}
<1>1. DOMAIN Levels = 1..3 /\ ToSet(Levels) = {"plate", "project", "instance"}
  BY DEF Levels, ToSet
<1>2. set \in SUBSET (1..3) /\ \A i \in set : LevelOf(p, Levels[i]).on = {TRUE}
  BY <1>1
<1>3. Setting(p) = IF set # {} THEN Finest(set)
                   ELSE IF Or(global[p], manifest[p].default) THEN "global" ELSE "default"
  BY DEF Setting
<1> HIDE DEF set
<1>4. set # {}
  BY <1>1, <1>3
<1>5. Setting(p) = Finest(set)
  BY <1>3, <1>4
<1>6. \E i \in set : Finest(set) = Levels[i]
  BY <1>2, <1>4, FinestIs
<1> QED
  BY <1>2, <1>5, <1>6

-----------------------------------------------------------------------------
(* Who is off for the plate is fixed with the manifests; a marker without   *)
(* its newline, with the text.                                             *)
LEMMA Fixed ==
  /\ manifest' = manifest => Banned' = Banned
  /\ input' = input => BareMarker' = BareMarker
  BY DEF Banned, LevelOf, BareMarker

LEMMA NoLines == <<>> \in Seq(Line) /\ Ended(<<>>) /\ Earned(<<>>) /\ DOMAIN <<>> = {}
  BY DEF Ended, Earned

LEMMA HostStart == HostInit => HostIInv
<1> SUFFICES ASSUME HostInit PROVE HostIInv
  OBVIOUS
<1>1. input \in Texts /\ file = FileOf(input)
  BY DEF HostInit
<1>2. /\ Len(input.lines) \in Nat /\ DOMAIN input.lines = 1..Len(input.lines) /\ input.terminated \in BOOLEAN
  BY <1>1, TextShape
<1> DEFINE n == Len(input.lines)
           made(i) == [raw |-> i, nl |-> i < n \/ input.terminated, by |-> 0]
<1>3. file = [i \in 1..n |-> made(i)]
  BY <1>1, <1>2 DEF FileOf
<1>4. \A i \in 1..n : /\ made(i) \in [raw : Nat, nl : BOOLEAN, by : Plugins \cup {0}]
                      /\ made(i).by = 0 /\ made(i).nl = (i < n \/ input.terminated)
  BY <1>2
<1> HIDE DEF made, n
<1>5. n \in Nat
  BY <1>2 DEF n
<1>6. /\ file \in Seq([raw : Nat, nl : BOOLEAN, by : Plugins \cup {0}])
      /\ Len(file) = n /\ DOMAIN file = 1..n /\ \A i \in 1..n : file[i] = made(i)
  BY <1>3, <1>4, <1>5
<1>7. Ended(file)
  BY <1>4, <1>5, <1>6 DEF Ended
<1>8. \A i \in DOMAIN file : file[i].by = 0
  BY <1>4, <1>6
<1>9. adopted = <<>> /\ buf = <<>> /\ folding = "idle" /\ running = 0 /\ last = 0 /\ healthy = Plugins
      /\ global = config
  BY DEF HostInit
<1>10. HostTypeOK
  BY <1>9, NoLines DEF HostTypeOK
<1>11. TypedLines /\ Copies /\ Earned(adopted) /\ Phases /\ SwitchSurvivesRestart
  BY <1>1, <1>9, NoLines DEF TypedLines, Copies, Phases, SwitchSurvivesRestart
<1>12. WrittenLines
  BY <1>6, <1>7, <1>8 DEF WrittenLines
<1> QED
  BY <1>10, <1>11, <1>12 DEF HostIInv

LEMMA WrittenLinesKept ==
  ASSUME WrittenLines, file' = file, manifest' = manifest, input' = input
  PROVE  WrittenLines'
  BY Fixed DEF WrittenLines, Ended

LEMMA TypedLinesKept ==
  ASSUME TypedLines, input' = input, adopted' \in {adopted, buf, <<>>}, buf' \in {adopted, buf, <<>>}
  PROVE  TypedLines'
<1>1. /\ adopted' \in Seq(Line) /\ buf' \in Seq(Line)
      /\ ~BareMarker => Ended(adopted') /\ Ended(buf')
  BY NoLines DEF TypedLines
<1> QED
  BY <1>1, Fixed DEF TypedLines, Ended

(* While no hook runs, only the plugins' health and switches change. *)
LEMMA NoHook ==
  ASSUME HostIInv, manifest' = manifest, adopted' = adopted, buf' = buf, file' = file, input' = input,
         running' = running, last' = last, folding' = folding,
         folding = "fold" => healthy' = healthy, healthy' \subseteq Plugins, global' = config'
  PROVE  HostIInv'
<1>1. Earned(adopted)'
  <2>1. CASE folding = "fold"
    BY <2>1, Fixed DEF HostIInv, Earned
  <2>2. CASE folding # "fold"
    <3>1. \A i \in DOMAIN adopted : adopted[i].by = 0
      <4> SUFFICES ASSUME NEW i \in DOMAIN adopted, adopted[i].by # 0 PROVE FALSE
        OBVIOUS
      <4>1. adopted[i].by <= 0 /\ adopted[i].by \in Nat \ {0}
        BY <2>2, PluginsAssumption DEF HostIInv, Phases, Earned, HostTypeOK
      <4> QED
        BY <4>1
    <3> QED
      BY <3>1 DEF Earned
  <2> QED
    BY <2>1, <2>2
<1>2. HostTypeOK'
  BY DEF HostIInv, HostTypeOK
<1>3. Copies'
  <2>1. running # 0 => folding = "fold"
    BY DEF HostIInv, HostTypeOK
  <2> QED
    BY <2>1, Fixed DEF HostIInv, Copies
<1>4. Phases' /\ SwitchSurvivesRestart'
  BY DEF HostIInv, Phases, SwitchSurvivesRestart
<1> QED
  BY <1>1, <1>2, <1>3, <1>4, WrittenLinesKept, TypedLinesKept DEF HostIInv

(* The running plugin's edit of its copy. *)
LEMMA EditKeeps ==
  ASSUME HostIInv, running # 0, NEW new \in Seq(Line), Edited(new),
         Ended(buf) => Ended(new),
         \A j \in DOMAIN new : new[j].by = running \/ \E k \in DOMAIN buf : new[j].by = buf[k].by
  PROVE  HostIInv'
<1>1. /\ buf' = new
      /\ UNCHANGED <<manifest, global, config, healthy, folding, input, adopted, running, last, file>>
  BY DEF Edited
<1>2. running \in healthy /\ running <= last /\ running \notin Banned
  <2>1. running \in healthy /\ last = running /\ running \notin Banned /\ last \in Nat
    BY DEF HostIInv, HostTypeOK, Copies, Phases
  <2> QED
    BY <2>1
<1>3. Copies'
  <2>1. \A j \in DOMAIN new : new[j].by # 0 =>
           /\ new[j].by \in healthy /\ new[j].by \notin Banned /\ new[j].by <= last
    BY <1>2 DEF HostIInv, Copies
  <2> QED
    BY <1>1, <1>2, <2>1, Fixed DEF Copies
<1>4. TypedLines'
  BY <1>1, Fixed DEF HostIInv, TypedLines, Ended
<1>5. HostTypeOK' /\ Earned(adopted)' /\ Phases' /\ SwitchSurvivesRestart'
  BY <1>1, Fixed DEF HostIInv, HostTypeOK, Earned, Phases, SwitchSurvivesRestart
<1>6. WrittenLines'
  BY <1>1, WrittenLinesKept DEF HostIInv
<1> QED
  BY <1>3, <1>4, <1>5, <1>6 DEF HostIInv

LEMMA InvokeKeeps == HostIInv /\ Invoke => HostIInv'
<1> SUFFICES ASSUME HostIInv, Invoke PROVE HostIInv'
  OBVIOUS
<1>1. PICK p \in Rest : running' = p
  <2>1. Rest \in SUBSET Nat /\ Rest # {}
    BY PluginsAssumption DEF Invoke, Rest
  <2>2. \E p \in Rest : \A q \in Rest : p <= q
    BY <2>1, LeastOne
  <2> QED
    BY <2>2 DEF Invoke
<1>2. /\ folding' = "fold" /\ last' = p /\ buf' = adopted /\ running = 0
      /\ UNCHANGED <<manifest, global, config, healthy, input, adopted, file>>
  BY <1>1 DEF Invoke
<1>3. p \in Plugins /\ p > last /\ p \in healthy /\ p \notin Banned /\ p \in Nat \ {0} /\ last \in Nat
  BY BannedDoesNotRun, PluginsAssumption DEF Rest, Runs, HostIInv, Phases
<1>4. \A i \in DOMAIN adopted : adopted[i].by # 0 =>
         /\ adopted[i].by \in healthy /\ adopted[i].by \notin Banned
         /\ adopted[i].by <= p /\ adopted[i].by # p
  <2> SUFFICES ASSUME NEW i \in DOMAIN adopted, adopted[i].by # 0
               PROVE  /\ adopted[i].by \in healthy /\ adopted[i].by \notin Banned
                      /\ adopted[i].by <= p /\ adopted[i].by # p
    OBVIOUS
  <2>1. adopted[i].by \in healthy /\ adopted[i].by \notin Banned /\ adopted[i].by <= last
    BY DEF HostIInv, Earned
  <2>2. adopted[i].by \in Nat
    BY <2>1, PluginsAssumption DEF HostIInv, HostTypeOK
  <2> QED
    BY <1>3, <2>1, <2>2
<1>5. HostTypeOK'
  BY <1>1, <1>2, <1>3 DEF HostIInv, HostTypeOK
<1>6. Earned(adopted)'
  BY <1>1, <1>2, <1>4, Fixed DEF Earned
<1>7. Copies'
  BY <1>1, <1>2, <1>3, <1>4, Fixed DEF Copies
<1>8. Phases' /\ SwitchSurvivesRestart'
  BY <1>2, <1>3 DEF HostIInv, Phases, SwitchSurvivesRestart
<1>9. TypedLines' /\ WrittenLines'
  BY <1>2, TypedLinesKept, WrittenLinesKept DEF HostIInv
<1> QED
  BY <1>5, <1>6, <1>7, <1>8, <1>9 DEF HostIInv

(* The file is read, a hook returns or fails, the file is written, the      *)
(* program starts again.                                                   *)
LEMMA ReadKeeps == HostIInv /\ ReadFile => HostIInv'
<1> SUFFICES ASSUME HostIInv, ReadFile PROVE HostIInv'
  OBVIOUS
<1>1. /\ folding = "idle" /\ folding' = "read" /\ adopted' = Buffer(input)
      /\ UNCHANGED <<manifest, global, config, healthy, input, buf, running, last, file>>
  BY DEF ReadFile
<1>2. input \in Texts
  BY DEF HostIInv, Phases
<1>3. /\ adopted' \in Seq(Line) /\ \A i \in DOMAIN adopted' : adopted'[i].by = 0
      /\ ~BareMarker => Ended(adopted')
  BY <1>1, <1>2, BufferShape DEF BareMarker
<1>4. running = 0
  BY <1>1 DEF HostIInv, Phases
<1>5. HostTypeOK' /\ Earned(adopted)' /\ Copies'
  BY <1>1, <1>3, <1>4 DEF HostIInv, HostTypeOK, Earned, Copies
<1>6. TypedLines'
  BY <1>1, <1>3, Fixed DEF HostIInv, TypedLines, Ended
<1>7. Phases' /\ SwitchSurvivesRestart'
  BY <1>1 DEF HostIInv, Phases, SwitchSurvivesRestart
<1> QED
  BY <1>1, <1>5, <1>6, <1>7, WrittenLinesKept DEF HostIInv

LEMMA ReturnKeeps == HostIInv /\ Return => HostIInv'
<1> SUFFICES ASSUME HostIInv, Return PROVE HostIInv'
  OBVIOUS
<1>1. /\ running # 0 /\ adopted' = buf /\ running' = 0
      /\ UNCHANGED <<manifest, global, config, healthy, folding, input, buf, last, file>>
  BY DEF Return
<1>2. Earned(adopted)' /\ Copies'
  BY <1>1, Fixed DEF HostIInv, Copies, Earned
<1>3. HostTypeOK'
  <2>1. \A i \in DOMAIN buf : buf[i].by \in Plugins \cup {0}
    <3>1. \A i \in DOMAIN buf : buf[i] \in Line
      BY DEF HostIInv, TypedLines
    <3> QED
      BY <3>1 DEF Line
  <2> QED
    BY <1>1, <2>1 DEF HostIInv, HostTypeOK
<1>4. Phases' /\ SwitchSurvivesRestart'
  BY <1>1 DEF HostIInv, Phases, SwitchSurvivesRestart, HostTypeOK
<1> QED
  BY <1>1, <1>2, <1>3, <1>4, WrittenLinesKept, TypedLinesKept DEF HostIInv

LEMMA FailureKeeps == HostIInv /\ HookFails => HostIInv'
<1> SUFFICES ASSUME HostIInv, HookFails PROVE HostIInv'
  OBVIOUS
<1>1. /\ running # 0 /\ healthy' = healthy \ {running} /\ running' = 0
      /\ UNCHANGED <<manifest, global, config, folding, input, adopted, buf, last, file>>
  BY DEF HookFails
<1>2. Earned(adopted)' /\ Copies'
  BY <1>1, Fixed DEF HostIInv, Copies, Earned
<1>3. HostTypeOK'
  BY <1>1 DEF HostIInv, HostTypeOK
<1>4. Phases' /\ SwitchSurvivesRestart'
  BY <1>1 DEF HostIInv, Phases, SwitchSurvivesRestart, HostTypeOK
<1> QED
  BY <1>1, <1>2, <1>3, <1>4, WrittenLinesKept, TypedLinesKept DEF HostIInv

LEMMA WriteKeeps == HostIInv /\ WriteFile => HostIInv'
<1> SUFFICES ASSUME HostIInv, WriteFile PROVE HostIInv'
  OBVIOUS
<1>1. /\ folding' = "idle" /\ last' = 0 /\ running = 0 /\ adopted' = <<>> /\ buf' = <<>>
      /\ file' \in {Serialized(adopted), file}
      /\ UNCHANGED <<manifest, global, config, healthy, input, running>>
  BY DEF WriteFile
<1>2. adopted \in Seq(Line) /\ (~BareMarker => Ended(adopted))
  BY DEF HostIInv, TypedLines
<1>3. /\ Serialized(adopted) \in Seq([raw : Nat, nl : BOOLEAN, by : Plugins \cup {0}])
      /\ \A i \in DOMAIN Serialized(adopted) : \E j \in DOMAIN adopted : Serialized(adopted)[i].by = adopted[j].by
      /\ ~BareMarker => Ended(Serialized(adopted))
  BY <1>2, SerializedShape
<1>4. \A i \in DOMAIN Serialized(adopted) :
         Serialized(adopted)[i].by # 0 => Serialized(adopted)[i].by \notin Banned
  BY <1>3 DEF HostIInv, Earned
<1>5. WrittenLines'
  <2>1. CASE file' = file
    BY <1>1, <2>1, WrittenLinesKept DEF HostIInv
  <2>2. CASE file' = Serialized(adopted)
    BY <1>1, <1>3, <1>4, <2>2, Fixed DEF WrittenLines, Ended
  <2> QED
    BY <1>1, <2>1, <2>2
<1>6. HostTypeOK' /\ Earned(adopted)' /\ Copies'
  BY <1>1 DEF HostIInv, HostTypeOK, Earned, Copies
<1>7. Phases' /\ SwitchSurvivesRestart'
  BY <1>1 DEF HostIInv, Phases, SwitchSurvivesRestart
<1> QED
  BY <1>1, <1>5, <1>6, <1>7, TypedLinesKept DEF HostIInv

LEMMA RestartKeeps == HostIInv /\ RestartHost => HostIInv'
<1> SUFFICES ASSUME HostIInv, RestartHost PROVE HostIInv'
  OBVIOUS
<1>1. /\ folding # "fold" /\ folding' = "idle" /\ healthy' = Plugins /\ global' = config
      /\ adopted' = <<>> /\ buf' = <<>> /\ UNCHANGED <<manifest, config, input, running, last, file>>
  BY DEF RestartHost, Commanded
<1>2. running = 0 /\ last = 0
  BY <1>1 DEF HostIInv, Phases
<1>3. HostTypeOK' /\ Earned(adopted)' /\ Copies'
  BY <1>1, <1>2 DEF HostIInv, HostTypeOK, Earned, Copies
<1>4. Phases' /\ SwitchSurvivesRestart'
  BY <1>1, <1>2 DEF HostIInv, Phases, SwitchSurvivesRestart
<1> QED
  BY <1>1, <1>3, <1>4, WrittenLinesKept, TypedLinesKept DEF HostIInv

LEMMA HostStep == HostIInv /\ [HostNext]_hostVars => HostIInv'
<1> SUFFICES ASSUME HostIInv, [HostNext]_hostVars PROVE HostIInv'
  OBVIOUS
<1>0. /\ buf \in Seq(Line) /\ healthy \subseteq Plugins /\ running \in Plugins \cup {0} /\ global = config
  BY DEF HostIInv, HostTypeOK, SwitchSurvivesRestart, TypedLines
<1>1. ASSUME NEW i \in 0..Len(buf), NEW v, Insert(i, v) PROVE HostIInv'
  <2> DEFINE more == Value(v, running)
             new == InsertLines(buf, i, more)
  <2>1. running # 0 /\ Edited(new) /\ running \in Plugins
    BY <1>0, <1>1 DEF Insert
  <2>2. more \in Seq(Line) /\ \A j \in DOMAIN more : more[j].by = running /\ more[j].nl
    BY <2>1, ValueShape
  <2> HIDE DEF more
  <2>3. /\ new \in Seq(Line) /\ (Ended(buf) => Ended(new))
        /\ \A j \in DOMAIN new : new[j].by = running \/ \E k \in DOMAIN buf : new[j].by = buf[k].by
    BY <1>0, <2>1, <2>2, Inserted
  <2> HIDE DEF new
  <2> QED
    BY <2>1, <2>3, EditKeeps
<1>2. ASSUME NEW i \in 1..Len(buf), TakeOut(i) PROVE HostIInv'
  <2> DEFINE new == RemoveLine(buf, i)
  <2>1. running # 0 /\ Edited(new)
    BY <1>2 DEF TakeOut
  <2>2. /\ new \in Seq(Line) /\ (Ended(buf) => Ended(new))
        /\ \A j \in DOMAIN new : \E k \in DOMAIN buf : new[j].by = buf[k].by
    BY <1>0, Removed
  <2> HIDE DEF new
  <2> QED
    BY <2>1, <2>2, EditKeeps
<1>3. ASSUME NEW i \in 1..Len(buf), NEW v, Replace(i, v) PROVE HostIInv'
  <2> DEFINE less == RemoveLine(buf, i)
             more == Value(v, running)
             new == InsertLines(less, i - 1, more)
  <2>1. running # 0 /\ Edited(new) /\ running \in Plugins
    BY <1>0, <1>3 DEF Replace
  <2>2. more \in Seq(Line) /\ \A j \in DOMAIN more : more[j].by = running /\ more[j].nl
    BY <2>1, ValueShape
  <2>3. /\ less \in Seq(Line) /\ Len(less) = Len(buf) - 1 /\ (Ended(buf) => Ended(less))
        /\ \A j \in DOMAIN less : \E k \in DOMAIN buf : less[j].by = buf[k].by
    BY <1>0, Removed
  <2> HIDE DEF less, more
  <2>4. i - 1 \in 0..Len(less)
    BY <1>0, <2>3
  <2>5. /\ new \in Seq(Line) /\ (Ended(less) => Ended(new))
        /\ \A j \in DOMAIN new : new[j].by = running \/ \E k \in DOMAIN less : new[j].by = less[k].by
    BY <2>1, <2>2, <2>3, <2>4, Inserted
  <2>6. \A j \in DOMAIN new : new[j].by = running \/ \E k \in DOMAIN buf : new[j].by = buf[k].by
    BY <2>3, <2>5
  <2> HIDE DEF new
  <2> QED
    BY <2>1, <2>3, <2>5, <2>6, EditKeeps
<1>4. ASSUME NEW p \in Plugins, NEW on, NEW ok, SetGlobalEnabled(p, on, ok) PROVE HostIInv'
  <2>1. /\ UNCHANGED <<manifest, healthy, folding, input, adopted, buf, running, last, file>>
        /\ global' = config'
    BY <1>0, <1>4 DEF SetGlobalEnabled
  <2> QED
    BY <1>0, <2>1, NoHook
<1>5. ASSUME NEW p \in Plugins, NEW loads, ReloadPlugin(p, loads) PROVE HostIInv'
  <2>1. /\ UNCHANGED <<manifest, global, config, folding, input, adopted, buf, running, last, file>>
        /\ folding # "fold" /\ healthy' \subseteq Plugins
    BY <1>0, <1>5 DEF ReloadPlugin, Commanded
  <2> QED
    BY <1>0, <2>1, NoHook
<1>6. CASE UNCHANGED hostVars
  BY <1>0, <1>6, NoHook DEF hostVars
<1>7. CASE EditStep
  BY <1>1, <1>2, <1>3, <1>7 DEF EditStep
<1> QED
  BY <1>4, <1>5, <1>6, <1>7, ReadKeeps, InvokeKeeps, ReturnKeeps, FailureKeeps, WriteKeeps, RestartKeeps
  DEF HostNext

LEMMA HostInvEnough == HostIInv => PluginsAreContained
<1> SUFFICES ASSUME HostIInv PROVE PluginsAreContained
  OBVIOUS
<1>1. HookIsAllOrNothing
  BY PluginsAssumption DEF HostIInv, HookIsAllOrNothing, Earned
<1>2. OffMeansUntouched
  <2> SUFFICES ASSUME NEW p \in Banned PROVE Untouched(p)
    BY DEF OffMeansUntouched, Banned
  <2>1. p # 0
    BY PluginsAssumption DEF Banned
  <2> QED
    BY <2>1 DEF HostIInv, Untouched, Earned, WrittenLines
<1>3. LinesStayApart
  <2> SUFFICES ASSUME ~BareMarker, NEW ls \in {Serialized(buf), Serialized(adopted), file}, NEW i \in DOMAIN ls
               PROVE  ls[i].nl \/ i = Len(ls)
    BY DEF LinesStayApart
  <2>1. Ended(ls) /\ ls \in Seq([raw : Nat, nl : BOOLEAN, by : Plugins \cup {0}])
    BY SerializedShape DEF HostIInv, TypedLines, WrittenLines
  <2> QED
    BY <2>1 DEF Ended
<1> QED
  BY <1>1, <1>2, <1>3, LayersAreFound, SettingIsOfASwitch
  DEF HostIInv, PluginsAreContained, TypedLines

(* For every set of plugins, every manifest, plate and switch, and whatever *)
(* the hooks write, wherever and in whatever order they fail.              *)
THEOREM PluginsStayContained == HostSpec => []PluginsAreContained
<1>1. HostSpec => []HostIInv
  BY HostStart, HostStep, PTL DEF HostSpec
<1> QED
  BY <1>1, HostInvEnough, PTL

-----------------------------------------------------------------------------
(* The paint tool.  The page sends commands while the answers to earlier    *)
(* ones are on their way, so the invariant is about the whole pipeline.     *)

Paints == [Facets -> 0 .. 2]
Flags == BOOLEAN \X BOOLEAN
CallKinds == {"open", "close", "brush", "fill", "undo", "clear"}
Calls == [k : CallKinds, drag : Nat, new : BOOLEAN]
Replies == [k : CallKinds, drag : Nat, new : BOOLEAN, ok : BOOLEAN, hit : BOOLEAN, flags : Flags]
Sessions == [paint : Paints, undo : Seq(Paints), drag : Nat]
PageDrags == [id : Nat, mode : {"brush", "fill", "camera"}]

PaintShape ==
  /\ support \in Paints /\ recorded \in Paints /\ strokes \in Seq(Paints)
  /\ tool = << >> \/ \E s \in Sessions : tool = <<s>> /\ Len(s.undo) <= MaxPaintUndo
  /\ calls \in Seq(Calls) /\ replies \in Seq(Replies) /\ Len(calls) + Len(replies) <= MaxCalls
  /\ page \in [active : BOOLEAN, flags : Flags, drag : {<< >>} \cup {<<d>> : d \in PageDrags}, inflight : BOOLEAN]
  /\ away \in BOOLEAN /\ muddled \in BOOLEAN /\ lateMiss \in BOOLEAN /\ unheard \in BOOLEAN
  /\ paintLeft \in 0 .. PaintBudget

Strokes == {"brush", "fill"}
(* Every press has a number of its own, smaller than those before it. *)
CallsAreNumbered ==
  /\ \A i \in DOMAIN calls : calls[i].new => calls[i].k \in Strokes
  /\ \A i \in DOMAIN calls : calls[i].k = "fill" => calls[i].new
  /\ \A i \in DOMAIN calls : calls[i].k \in Strokes => calls[i].drag > paintLeft
NumbersFall ==
  \A i \in DOMAIN calls, j \in DOMAIN calls :
    i < j /\ calls[i].k \in Strokes /\ calls[j].new => calls[i].drag > calls[j].drag
ToolIsNumbered ==
  tool # << >> =>
    /\ tool[1].drag = 0 \/ tool[1].drag > paintLeft
    /\ \A j \in DOMAIN calls : calls[j].new => tool[1].drag = 0 \/ tool[1].drag > calls[j].drag
DragIsNumbered ==
  page.drag # << >> => page.drag[1].mode = "camera" \/ page.drag[1].id > paintLeft
Numbered == CallsAreNumbered /\ NumbersFall /\ ToolIsNumbered /\ DragIsNumbered

(* One sample is on its way at a time. *)
OneSample ==
  /\ \A i \in DOMAIN calls, j \in DOMAIN calls : calls[i].k = "brush" /\ calls[j].k = "brush" => i = j
  /\ \A i \in DOMAIN replies, j \in DOMAIN replies : replies[i].k = "brush" /\ replies[j].k = "brush" => i = j
  /\ \A i \in DOMAIN calls, j \in DOMAIN replies : ~ (calls[i].k = "brush" /\ replies[j].k = "brush")
  /\ \A i \in DOMAIN calls : calls[i].k = "brush" => page.inflight
  /\ \A i \in DOMAIN replies : replies[i].k = "brush" => page.inflight

(* A sample that is not a press is the next to run, and of the drag that   *)
(* painted last.                                                           *)
MovesFollow ==
  \A i \in DOMAIN calls :
    calls[i].k = "brush" /\ ~ calls[i].new => i = 1 /\ tool # << >> /\ tool[1].drag = calls[i].drag

Sampled(r) ==
  /\ r.k = "brush" /\ r.drag = page.drag[1].id
  /\ r.ok => tool # << >>
  /\ r.ok /\ (r.hit \/ ~ r.new) => tool[1].drag = r.drag
  /\ ~ r.ok => tool = << >>

DragsAreHeard ==
  Brushing =>
    IF page.inflight
    THEN IF calls # << >>
         THEN calls[Len(calls)].k = "brush" /\ calls[Len(calls)].drag = page.drag[1].id
         ELSE replies # << >> /\ Sampled(replies[Len(replies)])
    ELSE /\ calls = << >> /\ replies = << >>
         /\ page.active => tool # << >> /\ tool[1].drag = page.drag[1].id

OpensAreSent ==
  page.active =>
    \/ \E i \in DOMAIN calls : calls[i].k = "open" /\ \A j \in DOMAIN calls : j > i => calls[j].k # "close"
    \/ /\ \A j \in DOMAIN calls : calls[j].k # "close"
       /\ tool # << >> \/ \E i \in DOMAIN replies : replies[i].k = "open" /\ ~ replies[i].ok

FlagsAreSent ==
  tool # << >> =>
    \/ /\ \A i \in DOMAIN replies : ~ (replies[i].ok /\ replies[i].hit)
       /\ lateMiss \/ page.flags = FlagsOf(support)
    \/ \E i \in DOMAIN replies :
         /\ replies[i].ok /\ replies[i].hit /\ replies[i].flags = FlagsOf(support)
         /\ \A j \in DOMAIN replies : j > i => ~ (replies[j].ok /\ replies[j].hit)


PaintIInv ==
  /\ PaintShape /\ Numbered /\ OverlayIsSliced /\ PaintIsRecorded
  /\ UndoIsOneDrag /\ OpensAreSent /\ FlagsAreSent
  /\ ~ muddled => (OneSample /\ MovesFollow /\ DragsAreHeard)

-----------------------------------------------------------------------------
(* What is appended to a sequence is its last element, and the others stay. *)
LEMMA Appended ==
  ASSUME NEW S, NEW s \in Seq(S), NEW x \in S
  PROVE  /\ Append(s, x) \in Seq(S) /\ Len(Append(s, x)) = Len(s) + 1 /\ Len(s) \in Nat
         /\ DOMAIN s = 1 .. Len(s) /\ DOMAIN Append(s, x) = 1 .. Len(s) + 1
         /\ Append(s, x)[Len(s) + 1] = x /\ \A i \in 1 .. Len(s) : Append(s, x)[i] = s[i]
         /\ Append(s, x) # << >>
BY AppendProperties

(* A sequence without its first element. *)
LEMMA Taken ==
  ASSUME NEW S, NEW s \in Seq(S), s # << >>
  PROVE  /\ Head(s) \in S /\ Head(s) = s[1] /\ Tail(s) \in Seq(S)
         /\ Len(s) \in Nat /\ Len(s) >= 1 /\ Len(Tail(s)) = Len(s) - 1
         /\ DOMAIN s = 1 .. Len(s) /\ DOMAIN Tail(s) = 1 .. Len(s) - 1
         /\ \A i \in 1 .. Len(s) - 1 : Tail(s)[i] = s[i + 1]
         /\ Len(s) = 1 => Tail(s) = << >>
<1>1. Len(s) \in Nat \ {0} /\ DOMAIN s = 1 .. Len(s)
  BY EmptySeq
<1>2. Head(s) \in S /\ Tail(s) \in Seq(S) /\ Len(Tail(s)) = Len(s) - 1 /\ \A i \in 1 .. Len(s) - 1 : Tail(s)[i] = s[i + 1]
  BY HeadTailProperties
<1>3. Head(s) = s[1]
  BY <1>1
<1>4. DOMAIN Tail(s) = 1 .. Len(s) - 1
  BY <1>2
<1>5. Tail(s) # << >> => Len(Tail(s)) \in Nat \ {0}
  BY <1>2, EmptySeq
<1>6. Len(s) = 1 => Tail(s) = << >>
  BY <1>1, <1>2, <1>5
<1> QED BY <1>1, <1>2, <1>3, <1>4, <1>6

(* A sequence without its last element. *)
LEMMA Dropped ==
  ASSUME NEW S, NEW s \in Seq(S), s # << >>
  PROVE  Last(s) \in S /\ Front(s) \in Seq(S) /\ Len(Front(s)) = Len(s) - 1
<1>1. Len(s) \in Nat \ {0} /\ \A i \in 1 .. Len(s) : s[i] \in S
  BY EmptySeq
<1>2. SubSeq(s, 1, Len(s) - 1) \in Seq(S) /\ Len(SubSeq(s, 1, Len(s) - 1)) = Len(s) - 1
  <2>1. 1 \in Int /\ Len(s) - 1 \in Int /\ \A i \in 1 .. Len(s) - 1 : s[i] \in S
    BY <1>1
  <2>2. Len(SubSeq(s, 1, Len(s) - 1)) = IF 1 <= Len(s) - 1 THEN (Len(s) - 1) - 1 + 1 ELSE 0
    BY <2>1, SubSeqProperties
  <2>3. SubSeq(s, 1, Len(s) - 1) \in Seq(S)
    BY <2>1, SubSeqProperties
  <2>4. Len(SubSeq(s, 1, Len(s) - 1)) = Len(s) - 1
    <3>1. CASE Len(s) = 1
      BY <3>1, <2>2
    <3>2. CASE Len(s) > 1
      BY <3>2, <2>2, <1>1
    <3>3. \A n \in Nat \ {0} : n = 1 \/ n > 1
      OBVIOUS
    <3>4. Len(s) = 1 \/ Len(s) > 1
      BY <1>1, <3>3, Zenon
    <3> QED BY <3>1, <3>2, <3>4, Zenon
  <2> QED BY <2>3, <2>4
<1>3. s[Len(s)] \in S
  BY <1>1
<1> QED BY <1>2, <1>3 DEF Last, Front

(* The steps that can be undone are never more than the cap. *)
LEMMA CappedIs ==
  ASSUME PaintAssumption, NEW s \in Seq(Paints), NEW p \in Paints, Len(s) <= MaxPaintUndo
  PROVE  Capped(Append(s, p)) \in Seq(Paints) /\ Len(Capped(Append(s, p))) <= MaxPaintUndo
<1>1. Append(s, p) \in Seq(Paints) /\ Len(Append(s, p)) = Len(s) + 1 /\ Append(s, p) # << >> /\ Len(s) \in Nat
  BY Appended
<1>2. Tail(Append(s, p)) \in Seq(Paints) /\ Len(Tail(Append(s, p))) = Len(s)
  BY <1>1, Taken
<1> QED BY <1>1, <1>2 DEF Capped, PaintAssumption

(* What the panel is told of some paint. *)
LEMMA FlagsAre == \A p : FlagsOf(p) \in Flags /\ NoFlags \in Flags
BY DEF FlagsOf, NoFlags, Flags

LEMMA PaintStart == ASSUME PaintAssumption, PaintInit PROVE PaintIInv
<1>1. Unpainted \in Paints
  BY DEF Unpainted, Paints
<1>2. PaintShape
  <2>1. NoFlags \in Flags /\ << >> \in Seq(Calls) /\ << >> \in Seq(Replies) /\ << >> \in Seq(Paints)
    BY FlagsAre, EmptySeq
  <2>2. page \in [active : BOOLEAN, flags : Flags, drag : {<< >>} \cup {<<d>> : d \in PageDrags}, inflight : BOOLEAN]
    BY <2>1 DEF PaintInit
  <2>3. paintLeft \in 0 .. PaintBudget /\ Len(calls) + Len(replies) <= MaxCalls
    BY DEF PaintInit, PaintAssumption
  <2> QED BY <1>1, <2>1, <2>2, <2>3 DEF PaintInit, PaintShape
<1>3. Numbered /\ OverlayIsSliced /\ PaintIsRecorded /\ UndoIsOneDrag /\ OpensAreSent /\ FlagsAreSent
  BY DEF PaintInit, Numbered, CallsAreNumbered, NumbersFall, ToolIsNumbered, DragIsNumbered, OverlayIsSliced, PaintIsRecorded, UndoIsOneDrag, OpensAreSent, FlagsAreSent
<1>4. OneSample /\ MovesFollow /\ DragsAreHeard
  BY DEF PaintInit, OneSample, MovesFollow, DragsAreHeard, Brushing
<1> QED BY <1>2, <1>3, <1>4 DEF PaintIInv

(* What the page's sending a command leaves of the commands. *)
LEMMA SentIs ==
  ASSUME PaintShape, NEW c \in Calls, Send(c)
  PROVE  /\ calls' \in Seq(Calls) /\ Len(calls') = Len(calls) + 1 /\ Len(calls) \in Nat
         /\ DOMAIN calls = 1 .. Len(calls) /\ DOMAIN calls' = 1 .. Len(calls) + 1
         /\ calls'[Len(calls) + 1] = c /\ \A i \in 1 .. Len(calls) : calls'[i] = calls[i]
         /\ Len(calls') + Len(replies) <= MaxCalls /\ calls' # << >>
         /\ Len(replies) \in Nat /\ MaxCalls \in Nat
<1>1. calls \in Seq(Calls) /\ replies \in Seq(Replies)
  BY DEF PaintShape
<1>2. calls' = Append(calls, c) /\ Len(calls) + Len(replies) < MaxCalls
  BY DEF Send
<1>3. Len(replies) \in Nat /\ MaxCalls \in Nat
  BY <1>1, PaintAssumption, EmptySeq DEF PaintAssumption
<1> QED BY <1>1, <1>2, <1>3, Appended

(* What an action of the page leaves of the session, the mesh and the document. *)
LEMMA SessionKept ==
  ASSUME PaintIInv, UNCHANGED <<tool, support, overlay, recorded, strokes, unheard>>, muddled' = FALSE => muddled = FALSE,
         muddled' \in BOOLEAN
  PROVE  OverlayIsSliced' /\ PaintIsRecorded' /\ UndoIsOneDrag'
<1>1. OverlayIsSliced'
  BY DEF PaintIInv, OverlayIsSliced
<1>2. PaintIsRecorded'
  BY DEF PaintIInv, PaintIsRecorded
<1>3. UndoIsOneDrag'
  BY DEF PaintIInv, PaintShape, UndoIsOneDrag
<1> QED BY <1>1, <1>2, <1>3

(* What a command the page sends leaves of the commands' order and numbers. *)
LEMMA SentKeeps ==
  ASSUME PaintIInv, NEW c \in Calls, Send(c), UNCHANGED <<tool, support, replies, lateMiss>>,
         page'.flags = page.flags, page.inflight => page'.inflight, paintLeft' \in Nat, paintLeft' <= paintLeft,
         c.new => c.k \in Strokes /\ c.drag = paintLeft, c.k = "fill" => c.new, c.k \in Strokes => c.drag > paintLeft'
  PROVE  CallsAreNumbered' /\ NumbersFall' /\ ToolIsNumbered' /\ FlagsAreSent'
<1>1. /\ calls' \in Seq(Calls) /\ Len(calls') = Len(calls) + 1 /\ Len(calls) \in Nat
      /\ DOMAIN calls = 1 .. Len(calls) /\ DOMAIN calls' = 1 .. Len(calls) + 1
      /\ calls'[Len(calls) + 1] = c /\ \A i \in 1 .. Len(calls) : calls'[i] = calls[i]
  BY SentIs DEF PaintIInv
<1>2. paintLeft \in Nat /\ c.drag \in Nat
  BY PaintAssumption DEF PaintIInv, PaintShape, PaintAssumption, Calls
<1>3. \A i \in 1 .. Len(calls) : calls[i] \in Calls
  BY DEF PaintIInv, PaintShape
<1>4. \A i \in 1 .. Len(calls) : calls[i].drag \in Nat
  BY <1>3 DEF Calls
<1>5. CallsAreNumbered'
  <2> SUFFICES ASSUME NEW i \in DOMAIN calls'
               PROVE  /\ calls'[i].new => calls'[i].k \in Strokes
                      /\ calls'[i].k = "fill" => calls'[i].new
                      /\ calls'[i].k \in Strokes => calls'[i].drag > paintLeft'
    BY DEF CallsAreNumbered
  <2>1. CASE i = Len(calls) + 1
    BY <2>1, <1>1
  <2>2. CASE i \in 1 .. Len(calls)
    <3>1. /\ calls[i].new => calls[i].k \in Strokes
          /\ calls[i].k = "fill" => calls[i].new
          /\ calls[i].k \in Strokes => calls[i].drag > paintLeft
      BY <2>2, <1>1 DEF PaintIInv, Numbered, CallsAreNumbered
    <3> QED BY <3>1, <2>2, <1>1, <1>2, <1>4
  <2> QED BY <2>1, <2>2, <1>1
<1>6. NumbersFall'
  <2> SUFFICES ASSUME NEW i \in DOMAIN calls', NEW j \in DOMAIN calls', i < j, calls'[i].k \in Strokes, calls'[j].new
               PROVE  calls'[i].drag > calls'[j].drag
    BY DEF NumbersFall
  <2>1. i \in 1 .. Len(calls)
    BY <1>1
  <2>2. CASE j = Len(calls) + 1
    BY <2>1, <2>2, <1>1 DEF PaintIInv, Numbered, CallsAreNumbered
  <2>3. CASE j \in 1 .. Len(calls)
    BY <2>1, <2>3, <1>1 DEF PaintIInv, Numbered, NumbersFall
  <2> QED BY <2>2, <2>3, <1>1
<1>7. ToolIsNumbered'
  <2> SUFFICES ASSUME tool # << >>
               PROVE  /\ tool[1].drag = 0 \/ tool[1].drag > paintLeft'
                      /\ \A j \in DOMAIN calls' : calls'[j].new => tool[1].drag = 0 \/ tool[1].drag > calls'[j].drag
    BY DEF ToolIsNumbered
  <2>1. tool[1].drag \in Nat
    BY DEF PaintIInv, PaintShape, Sessions
  <2>2. /\ tool[1].drag = 0 \/ tool[1].drag > paintLeft
        /\ \A j \in 1 .. Len(calls) : calls[j].new => tool[1].drag = 0 \/ tool[1].drag > calls[j].drag
    BY <1>1 DEF PaintIInv, Numbered, ToolIsNumbered
  <2> QED BY <2>1, <2>2, <1>1, <1>2
<1>8. FlagsAreSent'
  BY DEF PaintIInv, FlagsAreSent
<1> QED BY <1>5, <1>6, <1>7, <1>8

(* With one sample at a time, as far as the page has not sent two. *)
LEMMA SampleKeeps ==
  ASSUME PaintIInv, NEW c \in Calls, Send(c), UNCHANGED <<tool, replies>>, ~ muddled,
         page.inflight => page'.inflight, c.k = "brush" => ~ page.inflight /\ page'.inflight,
         c.k = "brush" /\ ~ c.new => calls = << >> /\ tool # << >> /\ tool[1].drag = c.drag
  PROVE  OneSample' /\ MovesFollow'
<1>1. /\ DOMAIN calls = 1 .. Len(calls) /\ DOMAIN calls' = 1 .. Len(calls) + 1 /\ Len(calls) \in Nat
      /\ calls'[Len(calls) + 1] = c /\ \A i \in 1 .. Len(calls) : calls'[i] = calls[i]
  BY SentIs DEF PaintIInv
<1>2. OneSample /\ MovesFollow
  BY DEF PaintIInv
<1>3. OneSample'
  BY <1>1, <1>2 DEF OneSample
<1>4. MovesFollow'
  <2>1. calls = << >> => Len(calls) = 0
    BY EmptySeq
  <2> QED BY <1>1, <1>2, <2>1 DEF MovesFollow
<1> QED BY <1>3, <1>4

LEMMA OpenToolKeeps == ASSUME PaintIInv, OpenTool PROVE PaintIInv'
<1> DEFINE c == Call("open", 0, FALSE)
<1>1. c \in Calls /\ c.k = "open" /\ c.new = FALSE
  BY DEF Call, Calls, CallKinds
<1>2. PaintShape /\ Send(c)
  BY DEF PaintIInv, OpenTool
<1>3. /\ calls' \in Seq(Calls) /\ Len(calls') = Len(calls) + 1 /\ Len(calls) \in Nat
      /\ DOMAIN calls' = 1 .. Len(calls) + 1 /\ calls'[Len(calls) + 1] = c /\ Len(calls') + Len(replies) <= MaxCalls
  BY <1>1, <1>2, SentIs
<1> HIDE DEF c
<1>4. /\ UNCHANGED <<tool, support, overlay, replies, away, recorded, strokes, muddled, lateMiss, unheard>>
      /\ page.active = FALSE /\ page.drag = << >> /\ paintLeft > 0 /\ paintLeft' = paintLeft - 1
      /\ page' = [page EXCEPT !.active = TRUE]
  BY <1>2 DEF OpenTool, UsePaint, PaintShape
<1>5. /\ page' \in [active : BOOLEAN, flags : Flags, drag : {<< >>} \cup {<<d>> : d \in PageDrags}, inflight : BOOLEAN]
      /\ page'.drag = << >> /\ page'.flags = page.flags /\ page'.inflight = page.inflight
  BY <1>2, <1>4 DEF PaintShape
<1>6. PaintShape' /\ paintLeft' \in Nat /\ paintLeft' <= paintLeft
  <2>1. paintLeft' \in 0 .. PaintBudget /\ paintLeft' \in Nat /\ paintLeft' <= paintLeft
    BY <1>2, <1>4, PaintAssumption DEF PaintShape, PaintAssumption
  <2> QED BY <1>2, <1>3, <1>4, <1>5, <2>1 DEF PaintShape
<1>7. OverlayIsSliced' /\ PaintIsRecorded' /\ UndoIsOneDrag'
  <2>1. muddled' \in BOOLEAN /\ (muddled' = FALSE => muddled = FALSE)
    BY <1>4, <1>6 DEF PaintShape
  <2> QED BY <1>4, <2>1, SessionKept
<1>8. CallsAreNumbered' /\ NumbersFall' /\ ToolIsNumbered' /\ FlagsAreSent'
  BY <1>1, <1>2, <1>4, <1>5, <1>6, SentKeeps DEF Strokes
<1>9. DragIsNumbered' /\ DragsAreHeard'
  BY <1>5 DEF DragIsNumbered, DragsAreHeard, Brushing
<1>10. OpensAreSent'
  BY <1>1, <1>3 DEF OpensAreSent
<1>11. ~ muddled' => (OneSample' /\ MovesFollow')
  BY <1>1, <1>2, <1>4, <1>5, SampleKeeps
<1> QED BY <1>6, <1>7, <1>8, <1>9, <1>10, <1>11 DEF PaintIInv, Numbered

(* A command that is not the tool's closing leaves its opening on its way. *)
LEMMA OpenStaysSent ==
  ASSUME PaintIInv, NEW c \in Calls, Send(c), c.k # "close", UNCHANGED <<tool, replies>>, page'.active = page.active
  PROVE  OpensAreSent'
<1>1. /\ DOMAIN calls = 1 .. Len(calls) /\ DOMAIN calls' = 1 .. Len(calls) + 1 /\ Len(calls) \in Nat
      /\ calls'[Len(calls) + 1] = c /\ \A i \in 1 .. Len(calls) : calls'[i] = calls[i]
  BY SentIs DEF PaintIInv
<1>2. OpensAreSent
  BY DEF PaintIInv
<1>3. CASE \E i \in DOMAIN calls : calls[i].k = "open" /\ \A j \in DOMAIN calls : j > i => calls[j].k # "close"
  <2>1. PICK i \in DOMAIN calls : calls[i].k = "open" /\ \A j \in DOMAIN calls : j > i => calls[j].k # "close"
    BY <1>3
  <2>2. i \in DOMAIN calls' /\ calls'[i].k = "open" /\ \A j \in DOMAIN calls' : j > i => calls'[j].k # "close"
    BY <1>1, <2>1
  <2> QED BY <2>2 DEF OpensAreSent
<1>4. CASE /\ \A j \in DOMAIN calls : calls[j].k # "close"
           /\ tool # << >> \/ \E i \in DOMAIN replies : replies[i].k = "open" /\ ~ replies[i].ok
  BY <1>1, <1>4 DEF OpensAreSent
<1> QED BY <1>2, <1>3, <1>4 DEF OpensAreSent

LEMMA ExitToolKeeps == ASSUME PaintIInv, ExitTool PROVE PaintIInv'
<1> DEFINE c == Call("close", 0, FALSE)
<1>1. c \in Calls /\ c.k = "close" /\ c.new = FALSE
  BY DEF Call, Calls, CallKinds, Strokes
<1>2. PaintShape /\ Send(c)
  BY DEF PaintIInv, ExitTool
<1>3. /\ calls' \in Seq(Calls) /\ Len(calls') = Len(calls) + 1 /\ Len(calls) \in Nat /\ calls' # << >>
      /\ DOMAIN calls' = 1 .. Len(calls) + 1 /\ calls'[Len(calls) + 1] = c /\ Len(calls') + Len(replies) <= MaxCalls
  BY <1>1, <1>2, SentIs
<1> HIDE DEF c
<1>4. /\ UNCHANGED <<tool, support, overlay, replies, away, recorded, strokes, lateMiss, unheard>>
      /\ muddled' = muddled /\ paintLeft' = paintLeft /\ page.drag = << >> /\ page' = [page EXCEPT !.active = FALSE]
  BY <1>2 DEF ExitTool, UsePaint, PaintShape, Brushing
<1>5. /\ page' \in [active : BOOLEAN, flags : Flags, drag : {<< >>} \cup {<<d>> : d \in PageDrags}, inflight : BOOLEAN]
      /\ page'.flags = page.flags /\ page'.drag = << >> /\ page'.inflight = page.inflight /\ page'.active = FALSE
  BY <1>2, <1>4 DEF PaintShape, PageDrags
<1>6. PaintShape' /\ paintLeft' \in Nat /\ paintLeft' <= paintLeft
  <2>1. paintLeft' \in 0 .. PaintBudget /\ paintLeft' \in Nat /\ paintLeft' <= paintLeft
    BY <1>2, <1>4, PaintAssumption DEF PaintShape, PaintAssumption
  <2>2. muddled' \in BOOLEAN
    BY <1>2, <1>4 DEF PaintShape, Brushing
  <2> QED BY <1>2, <1>3, <1>4, <1>5, <2>1, <2>2 DEF PaintShape
<1>7. OverlayIsSliced' /\ PaintIsRecorded' /\ UndoIsOneDrag'
  <2>1. muddled' \in BOOLEAN /\ (muddled' = FALSE => muddled = FALSE)
    BY <1>2, <1>4, <1>6 DEF PaintShape
  <2> QED BY <1>4, <2>1, SessionKept
<1>8. CallsAreNumbered' /\ NumbersFall' /\ ToolIsNumbered' /\ FlagsAreSent'
  BY <1>1, <1>2, <1>4, <1>5, <1>6, SentKeeps DEF Strokes
<1>9. DragIsNumbered' /\ (~ muddled' => DragsAreHeard')
  BY <1>5 DEF DragIsNumbered, DragsAreHeard, Brushing
<1>10. OpensAreSent'
  BY <1>5 DEF OpensAreSent
<1>11. ~ muddled' => (OneSample' /\ MovesFollow')
  BY <1>1, <1>2, <1>4, <1>5, SampleKeeps
<1> QED BY <1>6, <1>7, <1>8, <1>9, <1>10, <1>11 DEF PaintIInv, Numbered

LEMMA ErasePaintKeeps == ASSUME PaintIInv, ErasePaint PROVE PaintIInv'
<1> DEFINE c == Call("clear", 0, FALSE)
<1>1. c \in Calls /\ c.k = "clear" /\ c.new = FALSE
  BY DEF Call, Calls, CallKinds, Strokes
<1>2. PaintShape /\ Send(c)
  BY DEF PaintIInv, ErasePaint
<1>3. /\ calls' \in Seq(Calls) /\ Len(calls') = Len(calls) + 1 /\ Len(calls) \in Nat /\ calls' # << >>
      /\ DOMAIN calls' = 1 .. Len(calls) + 1 /\ calls'[Len(calls) + 1] = c /\ Len(calls') + Len(replies) <= MaxCalls
  BY <1>1, <1>2, SentIs
<1> HIDE DEF c
<1>4. /\ UNCHANGED <<tool, support, overlay, replies, away, recorded, strokes, lateMiss, unheard>>
      /\ muddled' = muddled /\ paintLeft > 0 /\ paintLeft' = paintLeft - 1 /\ page.drag = << >> /\ page' = page
  BY <1>2 DEF ErasePaint, UsePaint, PaintShape, Brushing
<1>5. /\ page' \in [active : BOOLEAN, flags : Flags, drag : {<< >>} \cup {<<d>> : d \in PageDrags}, inflight : BOOLEAN]
      /\ page'.flags = page.flags /\ page'.drag = << >> /\ page'.inflight = page.inflight /\ page'.active = page.active
  BY <1>2, <1>4 DEF PaintShape, PageDrags
<1>6. PaintShape' /\ paintLeft' \in Nat /\ paintLeft' <= paintLeft
  <2>1. paintLeft' \in 0 .. PaintBudget /\ paintLeft' \in Nat /\ paintLeft' <= paintLeft
    BY <1>2, <1>4, PaintAssumption DEF PaintShape, PaintAssumption
  <2>2. muddled' \in BOOLEAN
    BY <1>2, <1>4 DEF PaintShape, Brushing
  <2> QED BY <1>2, <1>3, <1>4, <1>5, <2>1, <2>2 DEF PaintShape
<1>7. OverlayIsSliced' /\ PaintIsRecorded' /\ UndoIsOneDrag'
  <2>1. muddled' \in BOOLEAN /\ (muddled' = FALSE => muddled = FALSE)
    BY <1>2, <1>4, <1>6 DEF PaintShape
  <2> QED BY <1>4, <2>1, SessionKept
<1>8. CallsAreNumbered' /\ NumbersFall' /\ ToolIsNumbered' /\ FlagsAreSent'
  BY <1>1, <1>2, <1>4, <1>5, <1>6, SentKeeps DEF Strokes
<1>9. DragIsNumbered' /\ (~ muddled' => DragsAreHeard')
  BY <1>5 DEF DragIsNumbered, DragsAreHeard, Brushing
<1>10. OpensAreSent'
  BY <1>1, <1>2, <1>4, <1>5, OpenStaysSent
<1>11. ~ muddled' => (OneSample' /\ MovesFollow')
  BY <1>1, <1>2, <1>4, <1>5, SampleKeeps
<1> QED BY <1>6, <1>7, <1>8, <1>9, <1>10, <1>11 DEF PaintIInv, Numbered

LEMMA UndoPaintKeeps == ASSUME PaintIInv, UndoPaint PROVE PaintIInv'
<1> DEFINE c == Call("undo", 0, FALSE)
<1>1. c \in Calls /\ c.k = "undo" /\ c.new = FALSE
  BY DEF Call, Calls, CallKinds, Strokes
<1>2. PaintShape /\ Send(c)
  BY DEF PaintIInv, UndoPaint
<1>3. /\ calls' \in Seq(Calls) /\ Len(calls') = Len(calls) + 1 /\ Len(calls) \in Nat /\ calls' # << >>
      /\ DOMAIN calls' = 1 .. Len(calls) + 1 /\ calls'[Len(calls) + 1] = c /\ Len(calls') + Len(replies) <= MaxCalls
  BY <1>1, <1>2, SentIs
<1> HIDE DEF c
<1>4. /\ UNCHANGED <<tool, support, overlay, replies, away, recorded, strokes, lateMiss, unheard>>
      /\ paintLeft > 0 /\ paintLeft' = paintLeft - 1 /\ page' = page /\ muddled' = (muddled \/ Brushing)
  BY <1>2 DEF UndoPaint, UsePaint, PaintShape, Brushing
<1>5. /\ page' \in [active : BOOLEAN, flags : Flags, drag : {<< >>} \cup {<<d>> : d \in PageDrags}, inflight : BOOLEAN]
      /\ page'.flags = page.flags /\ page'.drag = page.drag /\ page'.inflight = page.inflight /\ page'.active = page.active
  BY <1>2, <1>4 DEF PaintShape, PageDrags
<1>6. PaintShape' /\ paintLeft' \in Nat /\ paintLeft' <= paintLeft
  <2>1. paintLeft' \in 0 .. PaintBudget /\ paintLeft' \in Nat /\ paintLeft' <= paintLeft
    BY <1>2, <1>4, PaintAssumption DEF PaintShape, PaintAssumption
  <2>2. muddled' \in BOOLEAN
    BY <1>2, <1>4 DEF PaintShape, Brushing
  <2> QED BY <1>2, <1>3, <1>4, <1>5, <2>1, <2>2 DEF PaintShape
<1>7. OverlayIsSliced' /\ PaintIsRecorded' /\ UndoIsOneDrag'
  <2>1. muddled' \in BOOLEAN /\ (muddled' = FALSE => muddled = FALSE)
    BY <1>2, <1>4, <1>6 DEF PaintShape
  <2> QED BY <1>4, <2>1, SessionKept
<1>8. CallsAreNumbered' /\ NumbersFall' /\ ToolIsNumbered' /\ FlagsAreSent'
  BY <1>1, <1>2, <1>4, <1>5, <1>6, SentKeeps DEF Strokes
<1>9. DragIsNumbered' /\ (~ muddled' => DragsAreHeard')
  <2>1. DragIsNumbered'
    <3>1. page.drag # << >> => page.drag[1].id \in Nat
      BY <1>2 DEF PaintShape, PageDrags
    <3>2. paintLeft \in Nat
      BY <1>2, PaintAssumption DEF PaintShape, PaintAssumption
    <3> QED BY <1>4, <1>5, <1>6, <3>1, <3>2 DEF PaintIInv, Numbered, DragIsNumbered
  <2>2. ~ muddled' => DragsAreHeard'
    BY <1>4, <1>5 DEF DragsAreHeard, Brushing
  <2> QED BY <2>1, <2>2
<1>10. OpensAreSent'
  BY <1>1, <1>2, <1>4, <1>5, OpenStaysSent
<1>11. ~ muddled' => (OneSample' /\ MovesFollow')
  BY <1>1, <1>2, <1>4, <1>5, SampleKeeps
<1> QED BY <1>6, <1>7, <1>8, <1>9, <1>10, <1>11 DEF PaintIInv, Numbered

LEMMA PressPaintKeeps == ASSUME PaintIInv, NEW kind \in Strokes, PressPaint(kind) PROVE PaintIInv'
<1> DEFINE c == Call(kind, paintLeft, TRUE)
<1>1. c \in Calls /\ c.k = kind /\ c.new /\ c.drag = paintLeft /\ kind \in Strokes
  BY PaintAssumption DEF Call, Calls, CallKinds, Strokes, PaintIInv, PaintShape, PaintAssumption
<1>2. PaintShape /\ Send(c)
  BY DEF PaintIInv, PressPaint
<1>3. /\ calls' \in Seq(Calls) /\ Len(calls') = Len(calls) + 1 /\ Len(calls) \in Nat /\ calls' # << >>
      /\ DOMAIN calls' = 1 .. Len(calls) + 1 /\ calls'[Len(calls) + 1] = c /\ Len(calls') + Len(replies) <= MaxCalls
  BY <1>1, <1>2, SentIs
<1> HIDE DEF c
<1>4. /\ UNCHANGED <<tool, support, overlay, replies, away, recorded, strokes, lateMiss, unheard>>
      /\ paintLeft > 0 /\ paintLeft' = paintLeft - 1
      /\ muddled' = (muddled \/ (kind = "brush" /\ page.inflight))
      /\ page' = [page EXCEPT !.drag = <<[id |-> paintLeft, mode |-> kind]>>, !.inflight = @ \/ kind = "brush"]
  BY <1>2 DEF PressPaint, UsePaint, PaintShape, Brushing
<1>5. /\ page' \in [active : BOOLEAN, flags : Flags, drag : {<< >>} \cup {<<d>> : d \in PageDrags}, inflight : BOOLEAN]
      /\ page'.flags = page.flags /\ page'.active = page.active /\ page'.drag = <<[id |-> paintLeft, mode |-> kind]>>
      /\ page'.inflight = (page.inflight \/ kind = "brush")
  <2>1. [id |-> paintLeft, mode |-> kind] \in PageDrags
    BY <1>1, <1>2, PaintAssumption DEF PaintShape, PageDrags, Strokes, PaintAssumption
  <2>2. \A d, i : page' = [page EXCEPT !.drag = <<d>>, !.inflight = i] /\ d \in PageDrags /\ i \in BOOLEAN =>
          /\ page' \in [active : BOOLEAN, flags : Flags, drag : {<< >>} \cup {<<x>> : x \in PageDrags}, inflight : BOOLEAN]
          /\ page'.flags = page.flags /\ page'.active = page.active /\ page'.drag = <<d>> /\ page'.inflight = i
    BY <1>2 DEF PaintShape
  <2>3. (page.inflight \/ kind = "brush") \in BOOLEAN
    OBVIOUS
  <2> QED BY <1>4, <2>1, <2>2, <2>3
<1>6. PaintShape' /\ paintLeft' \in Nat /\ paintLeft' <= paintLeft
  <2>1. paintLeft' \in 0 .. PaintBudget /\ paintLeft' \in Nat /\ paintLeft' <= paintLeft
    BY <1>2, <1>4, PaintAssumption DEF PaintShape, PaintAssumption
  <2>2. muddled' \in BOOLEAN
    BY <1>2, <1>4 DEF PaintShape, Brushing
  <2> QED BY <1>2, <1>3, <1>4, <1>5, <2>1, <2>2 DEF PaintShape
<1>7. OverlayIsSliced' /\ PaintIsRecorded' /\ UndoIsOneDrag'
  <2>1. muddled' \in BOOLEAN /\ (muddled' = FALSE => muddled = FALSE)
    BY <1>2, <1>4, <1>6 DEF PaintShape
  <2> QED BY <1>4, <2>1, SessionKept
<1>8. CallsAreNumbered' /\ NumbersFall' /\ ToolIsNumbered' /\ FlagsAreSent'
  <2>1. page.inflight => page'.inflight
    BY <1>5
  <2>2. c.k \in Strokes /\ c.drag = paintLeft /\ c.drag > paintLeft' /\ (c.k = "fill" => c.new)
    BY <1>1, <1>2, <1>4, <1>6 DEF PaintShape
  <2> QED BY <1>1, <1>2, <1>4, <1>5, <1>6, <2>1, <2>2, SentKeeps
<1>9. DragIsNumbered' /\ (~ muddled' => DragsAreHeard')
  <2>1. page'.drag # << >> /\ page'.drag[1].id = paintLeft /\ page'.drag[1].mode = kind
    BY <1>5
  <2>2. DragIsNumbered'
    BY <1>2, <1>4, <1>6, <2>1 DEF DragIsNumbered, PaintShape
  <2>3. DragsAreHeard'
    BY <1>1, <1>3, <1>5, <2>1 DEF DragsAreHeard, Brushing
  <2> QED BY <2>2, <2>3
<1>10. OpensAreSent'
  BY <1>1, <1>2, <1>4, <1>5, OpenStaysSent DEF Strokes
<1>11. ~ muddled' => (OneSample' /\ MovesFollow')
  <2> SUFFICES ASSUME ~ muddled' PROVE OneSample' /\ MovesFollow'
    OBVIOUS
  <2>1. ~ muddled /\ (c.k = "brush" => ~ page.inflight /\ page'.inflight) /\ (page.inflight => page'.inflight)
    BY <1>1, <1>4, <1>5
  <2> QED BY <1>1, <1>2, <1>4, <2>1, SampleKeeps
<1> QED BY <1>6, <1>7, <1>8, <1>9, <1>10, <1>11 DEF PaintIInv, Numbered

LEMMA MovePaintKeeps == ASSUME PaintIInv, MovePaint PROVE PaintIInv'
<1> DEFINE c == Call("brush", page.drag[1].id, FALSE)
<1>1. c \in Calls /\ c.k = "brush" /\ c.new = FALSE /\ c.drag = page.drag[1].id /\ c.drag > paintLeft
  BY DEF Call, Calls, CallKinds, Strokes, MovePaint, Brushing, PaintIInv, PaintShape, PageDrags, Numbered, DragIsNumbered
<1>2. PaintShape /\ Send(c)
  BY DEF PaintIInv, MovePaint
<1>3. /\ calls' \in Seq(Calls) /\ Len(calls') = Len(calls) + 1 /\ Len(calls) \in Nat /\ calls' # << >>
      /\ DOMAIN calls' = 1 .. Len(calls) + 1 /\ calls'[Len(calls) + 1] = c /\ Len(calls') + Len(replies) <= MaxCalls
  BY <1>1, <1>2, SentIs
<1> HIDE DEF c
<1>4. /\ UNCHANGED <<tool, support, overlay, replies, away, recorded, strokes, lateMiss, unheard>>
      /\ muddled' = muddled /\ paintLeft' = paintLeft /\ page.active /\ Brushing /\ ~ page.inflight
      /\ page' = [page EXCEPT !.inflight = TRUE]
  BY <1>2 DEF MovePaint, UsePaint, PaintShape, Brushing
<1>5. /\ page' \in [active : BOOLEAN, flags : Flags, drag : {<< >>} \cup {<<d>> : d \in PageDrags}, inflight : BOOLEAN]
      /\ page'.flags = page.flags /\ page'.drag = page.drag /\ page'.inflight /\ page'.active = page.active
  BY <1>2, <1>4 DEF PaintShape, PageDrags
<1>6. PaintShape' /\ paintLeft' \in Nat /\ paintLeft' <= paintLeft
  <2>1. paintLeft' \in 0 .. PaintBudget /\ paintLeft' \in Nat /\ paintLeft' <= paintLeft
    BY <1>2, <1>4, PaintAssumption DEF PaintShape, PaintAssumption
  <2>2. muddled' \in BOOLEAN
    BY <1>2, <1>4 DEF PaintShape, Brushing
  <2> QED BY <1>2, <1>3, <1>4, <1>5, <2>1, <2>2 DEF PaintShape
<1>7. OverlayIsSliced' /\ PaintIsRecorded' /\ UndoIsOneDrag'
  <2>1. muddled' \in BOOLEAN /\ (muddled' = FALSE => muddled = FALSE)
    BY <1>2, <1>4, <1>6 DEF PaintShape
  <2> QED BY <1>4, <2>1, SessionKept
<1>8. CallsAreNumbered' /\ NumbersFall' /\ ToolIsNumbered' /\ FlagsAreSent'
  BY <1>1, <1>2, <1>4, <1>5, <1>6, SentKeeps DEF Strokes
<1>9. DragIsNumbered' /\ (~ muddled' => DragsAreHeard')
  <2>1. DragIsNumbered'
    BY <1>4, <1>5 DEF PaintIInv, Numbered, DragIsNumbered
  <2>2. DragsAreHeard'
    BY <1>1, <1>3, <1>5 DEF DragsAreHeard, Brushing
  <2> QED BY <2>1, <2>2
<1>10. OpensAreSent'
  BY <1>1, <1>2, <1>4, <1>5, OpenStaysSent
<1>11. ~ muddled' => (OneSample' /\ MovesFollow')
  <2> SUFFICES ASSUME ~ muddled' PROVE OneSample' /\ MovesFollow'
    OBVIOUS
  <2>1. ~ muddled /\ calls = << >> /\ tool # << >> /\ tool[1].drag = c.drag
    BY <1>1, <1>4 DEF PaintIInv, DragsAreHeard
  <2> QED BY <1>1, <1>2, <1>4, <1>5, <2>1, SampleKeeps
<1> QED BY <1>6, <1>7, <1>8, <1>9, <1>10, <1>11 DEF PaintIInv, Numbered

LEMMA ReleasePaintKeeps == ASSUME PaintIInv, ReleasePaint PROVE PaintIInv'
<1>1. /\ UNCHANGED <<tool, support, overlay, calls, replies, away, recorded, strokes, muddled, lateMiss, unheard, paintLeft>>
      /\ page' \in [active : BOOLEAN, flags : Flags, drag : {<< >>} \cup {<<d>> : d \in PageDrags}, inflight : BOOLEAN]
      /\ page'.drag = << >> /\ page'.inflight = page.inflight /\ page'.active = page.active /\ page'.flags = page.flags
  BY DEF ReleasePaint, PaintIInv, PaintShape
<1>2. PaintShape'
  BY <1>1 DEF PaintIInv, PaintShape
<1>3. OverlayIsSliced' /\ PaintIsRecorded' /\ UndoIsOneDrag'
  BY <1>1 DEF PaintIInv, OverlayIsSliced, PaintIsRecorded, UndoIsOneDrag
<1>4. CallsAreNumbered' /\ NumbersFall' /\ ToolIsNumbered' /\ FlagsAreSent'
  BY <1>1 DEF PaintIInv, Numbered, CallsAreNumbered, NumbersFall, ToolIsNumbered, FlagsAreSent
<1>5. DragIsNumbered' /\ DragsAreHeard'
  BY <1>1 DEF DragIsNumbered, DragsAreHeard, Brushing
<1>6. OpensAreSent' /\ (~ muddled' => (OneSample' /\ MovesFollow'))
  BY <1>1 DEF PaintIInv, OpensAreSent, OneSample, MovesFollow
<1> QED BY <1>2, <1>3, <1>4, <1>5, <1>6 DEF PaintIInv, Numbered

LEMMA ShowPlateKeeps == ASSUME PaintIInv, ShowPlate PROVE PaintIInv'
<1>1. /\ UNCHANGED <<tool, support, overlay, calls, replies, page, recorded, strokes, muddled, lateMiss, unheard, paintLeft>>
      /\ away' \in BOOLEAN
  BY DEF ShowPlate, PaintIInv, PaintShape
<1>2. PaintShape'
  BY <1>1 DEF PaintIInv, PaintShape
<1>3. OverlayIsSliced' /\ PaintIsRecorded' /\ UndoIsOneDrag'
  BY <1>1 DEF PaintIInv, OverlayIsSliced, PaintIsRecorded, UndoIsOneDrag
<1>4. Numbered' /\ FlagsAreSent' /\ OpensAreSent'
  BY <1>1 DEF PaintIInv, Numbered, CallsAreNumbered, NumbersFall, ToolIsNumbered, DragIsNumbered, FlagsAreSent, OpensAreSent
<1>5. ~ muddled' => (OneSample' /\ MovesFollow' /\ DragsAreHeard')
  BY <1>1 DEF PaintIInv, OneSample, MovesFollow, DragsAreHeard, Brushing, Sampled
<1> QED BY <1>2, <1>3, <1>4, <1>5 DEF PaintIInv

-----------------------------------------------------------------------------
(* The commands. *)

(* What a command that has run leaves of those behind it. *)
LEMMA RanIs ==
  ASSUME PaintShape, calls # << >>, calls' = Tail(calls)
  PROVE  /\ calls' \in Seq(Calls) /\ Len(calls') = Len(calls) - 1 /\ Len(calls) \in Nat /\ Len(calls) >= 1
         /\ DOMAIN calls = 1 .. Len(calls) /\ DOMAIN calls' = 1 .. Len(calls) - 1
         /\ \A i \in 1 .. Len(calls) - 1 : calls'[i] = calls[i + 1]
         /\ \A i \in 1 .. Len(calls) : calls[i] \in Calls /\ calls[i].drag \in Nat
         /\ Head(calls) = calls[1] /\ calls[1] \in Calls
         /\ calls' # << >> => Len(calls) > 1
         /\ Len(calls) = 1 => calls' = << >>
<1>1. calls \in Seq(Calls)
  BY DEF PaintShape
<1>2. \A i \in 1 .. Len(calls) : calls[i] \in Calls /\ calls[i].drag \in Nat
  <2>1. \A c \in Calls : c.drag \in Nat
    BY DEF Calls
  <2> QED BY <1>1, <2>1
<1>3. calls' # << >> => Len(calls') # 0
  BY <1>1, Taken, EmptySeq
<1> QED BY <1>1, <1>2, <1>3, Taken

LEMMA RanKeeps ==
  ASSUME PaintIInv, calls # << >>, calls' = Tail(calls), UNCHANGED <<page, paintLeft>>,
         \/ tool' = tool \/ tool' = << >> \/ tool'[1].drag = 0
         \/ tool'[1].drag = calls[1].drag /\ calls[1].k \in Strokes
  PROVE  Numbered'
<1>1. /\ Len(calls) \in Nat /\ Len(calls) >= 1
      /\ DOMAIN calls = 1 .. Len(calls) /\ DOMAIN calls' = 1 .. Len(calls) - 1
      /\ \A i \in 1 .. Len(calls) - 1 : calls'[i] = calls[i + 1]
      /\ \A i \in 1 .. Len(calls) : calls[i].drag \in Nat
  BY RanIs DEF PaintIInv
<1>2. CallsAreNumbered'
  BY <1>1 DEF PaintIInv, Numbered, CallsAreNumbered
<1>3. NumbersFall'
  BY <1>1 DEF PaintIInv, Numbered, NumbersFall
<1>4. ToolIsNumbered'
  <2>1. CASE tool' = tool
    BY <1>1, <2>1 DEF PaintIInv, Numbered, ToolIsNumbered
  <2>2. CASE tool' = << >> \/ tool'[1].drag = 0
    BY <2>2 DEF ToolIsNumbered
  <2>3. CASE tool'[1].drag = calls[1].drag /\ calls[1].k \in Strokes
    <3>1. calls[1].drag > paintLeft
      BY <2>3, <1>1 DEF PaintIInv, Numbered, CallsAreNumbered
    <3>2. \A j \in DOMAIN calls' : calls'[j].new => calls[1].drag > calls'[j].drag
      BY <2>3, <1>1 DEF PaintIInv, Numbered, NumbersFall
    <3> QED BY <2>3, <3>1, <3>2 DEF ToolIsNumbered
  <2> QED BY <2>1, <2>2, <2>3
<1>5. DragIsNumbered'
  BY DEF PaintIInv, Numbered, DragIsNumbered
<1> QED BY <1>2, <1>3, <1>4, <1>5 DEF Numbered

(* What an answer leaves of those before it. *)
LEMMA AnsweredIs ==
  ASSUME PaintShape, NEW r \in Replies, replies' = Append(replies, r)
  PROVE  /\ replies' \in Seq(Replies) /\ Len(replies') = Len(replies) + 1 /\ Len(replies) \in Nat
         /\ DOMAIN replies = 1 .. Len(replies) /\ DOMAIN replies' = 1 .. Len(replies) + 1
         /\ replies'[Len(replies) + 1] = r /\ \A i \in 1 .. Len(replies) : replies'[i] = replies[i]
         /\ replies' # << >>
<1>1. replies \in Seq(Replies)
  BY DEF PaintShape
<1> QED BY <1>1, Appended

(* The sample, on its way or answered, stays one, and the drag's.  *)
LEMMA SampleRuns ==
  ASSUME PaintIInv, calls # << >>, calls' = Tail(calls), UNCHANGED page, ~ muddled,
         NEW r \in Replies, replies' = Append(replies, r),
         r.k = calls[1].k, r.drag = calls[1].drag,
         r.k = "brush" => /\ r.ok => tool' # << >>
                          /\ r.ok /\ (r.hit \/ ~ r.new) => tool'[1].drag = r.drag
                          /\ ~ r.ok => tool' = << >>
  PROVE  OneSample' /\ MovesFollow' /\ DragsAreHeard'
<1>1. /\ Len(calls) \in Nat /\ Len(calls) >= 1 /\ Len(calls') = Len(calls) - 1
      /\ DOMAIN calls = 1 .. Len(calls) /\ DOMAIN calls' = 1 .. Len(calls) - 1
      /\ \A i \in 1 .. Len(calls) - 1 : calls'[i] = calls[i + 1]
      /\ calls' # << >> => Len(calls) > 1
      /\ Len(calls) = 1 => calls' = << >>
  BY RanIs DEF PaintIInv
<1>2. /\ DOMAIN replies = 1 .. Len(replies) /\ DOMAIN replies' = 1 .. Len(replies) + 1 /\ Len(replies) \in Nat
      /\ replies'[Len(replies) + 1] = r /\ \A i \in 1 .. Len(replies) : replies'[i] = replies[i]
      /\ Len(replies') = Len(replies) + 1 /\ replies' # << >>
  BY AnsweredIs DEF PaintIInv
<1>3. OneSample /\ MovesFollow /\ DragsAreHeard
  BY DEF PaintIInv
<1>4. OneSample'
  <2>1. \A i \in DOMAIN calls', j \in DOMAIN calls' : calls'[i].k = "brush" /\ calls'[j].k = "brush" => i = j
    BY <1>1, <1>3 DEF OneSample
  <2>2. \A i \in DOMAIN replies', j \in DOMAIN replies' : replies'[i].k = "brush" /\ replies'[j].k = "brush" => i = j
    BY <1>1, <1>2, <1>3 DEF OneSample
  <2>3. \A i \in DOMAIN calls', j \in DOMAIN replies' : ~ (calls'[i].k = "brush" /\ replies'[j].k = "brush")
    BY <1>1, <1>2, <1>3 DEF OneSample
  <2>4. \A i \in DOMAIN calls' : calls'[i].k = "brush" => page.inflight
    BY <1>1, <1>3 DEF OneSample
  <2>5. \A i \in DOMAIN replies' : replies'[i].k = "brush" => page.inflight
    BY <1>1, <1>2, <1>3 DEF OneSample
  <2> QED BY <2>1, <2>2, <2>3, <2>4, <2>5 DEF OneSample
<1>5. MovesFollow'
  BY <1>1, <1>3 DEF MovesFollow
<1>6. DragsAreHeard'
  <2> SUFFICES ASSUME Brushing
               PROVE  IF page.inflight
                      THEN IF calls' # << >>
                           THEN calls'[Len(calls')].k = "brush" /\ calls'[Len(calls')].drag = page.drag[1].id
                           ELSE replies' # << >> /\ Sampled(replies[Len(replies)])'
                      ELSE /\ calls' = << >> /\ replies' = << >>
                           /\ page.active => tool' # << >> /\ tool'[1].drag = page.drag[1].id
    BY DEF DragsAreHeard, Brushing
  <2>1. page.inflight /\ calls[Len(calls)].k = "brush" /\ calls[Len(calls)].drag = page.drag[1].id
    BY <1>3 DEF DragsAreHeard
  <2>2. CASE calls' # << >>
    BY <2>1, <2>2, <1>1
  <2>3. CASE calls' = << >>
    <3>1. Len(calls) = 1
      BY <2>3, <1>1, EmptySeq
    <3>2. r.k = "brush" /\ r.drag = page.drag[1].id
      BY <3>1, <2>1
    <3>3. replies'[Len(replies')] = r
      BY <1>2
    <3>4. Sampled(replies[Len(replies)])'
      BY <3>2, <3>3 DEF Sampled
    <3> QED BY <3>4, <2>1, <2>3, <1>2
  <2> QED BY <2>2, <2>3
<1> QED BY <1>4, <1>5, <1>6

(* What the panel is told is what is painted. *)
LEMMA FlagsRun ==
  ASSUME PaintIInv, UNCHANGED <<page, lateMiss>>, NEW r \in Replies, replies' = Append(replies, r),
         \/ r.ok /\ r.hit /\ r.flags = FlagsOf(support')
         \/ ~ (r.ok /\ r.hit) /\ tool' = tool /\ support' = support
  PROVE  FlagsAreSent'
<1>1. /\ DOMAIN replies = 1 .. Len(replies) /\ DOMAIN replies' = 1 .. Len(replies) + 1 /\ Len(replies) \in Nat
      /\ replies'[Len(replies) + 1] = r /\ \A i \in 1 .. Len(replies) : replies'[i] = replies[i]
  BY AnsweredIs DEF PaintIInv
<1>2. CASE r.ok /\ r.hit /\ r.flags = FlagsOf(support')
  BY <1>1, <1>2 DEF FlagsAreSent
<1>3. CASE ~ (r.ok /\ r.hit) /\ tool' = tool /\ support' = support
  <2> SUFFICES ASSUME tool # << >> PROVE FlagsAreSent'
    BY <1>3 DEF FlagsAreSent
  <2>1. CASE /\ \A i \in DOMAIN replies : ~ (replies[i].ok /\ replies[i].hit)
             /\ lateMiss \/ page.flags = FlagsOf(support)
    BY <1>1, <1>3, <2>1 DEF FlagsAreSent
  <2>2. CASE \E i \in DOMAIN replies :
               /\ replies[i].ok /\ replies[i].hit /\ replies[i].flags = FlagsOf(support)
               /\ \A j \in DOMAIN replies : j > i => ~ (replies[j].ok /\ replies[j].hit)
    <3>1. PICK i \in DOMAIN replies :
               /\ replies[i].ok /\ replies[i].hit /\ replies[i].flags = FlagsOf(support)
               /\ \A j \in DOMAIN replies : j > i => ~ (replies[j].ok /\ replies[j].hit)
      BY <2>2
    <3>2. /\ i \in DOMAIN replies' /\ replies'[i].ok /\ replies'[i].hit /\ replies'[i].flags = FlagsOf(support)
          /\ \A j \in DOMAIN replies' : j > i => ~ (replies'[j].ok /\ replies'[j].hit)
      BY <3>1, <1>1, <1>3
    <3> QED BY <3>2, <1>3 DEF FlagsAreSent
  <2> QED BY <2>1, <2>2 DEF PaintIInv, FlagsAreSent
<1> QED BY <1>2, <1>3

(* The tool the panel shows is open, or about to be, or known not to be. *)
LEMMA OpensRun ==
  ASSUME PaintIInv, calls # << >>, calls' = Tail(calls), UNCHANGED page, NEW r \in Replies, replies' = Append(replies, r),
         r.k = calls[1].k, tool # << >> => tool' # << >>, r.k # "close",
         r.k = "open" => tool' # << >> \/ ~ r.ok
  PROVE  OpensAreSent'
<1>1. /\ Len(calls) \in Nat /\ Len(calls) >= 1
      /\ DOMAIN calls = 1 .. Len(calls) /\ DOMAIN calls' = 1 .. Len(calls) - 1
      /\ \A i \in 1 .. Len(calls) - 1 : calls'[i] = calls[i + 1]
  BY RanIs DEF PaintIInv
<1>2. /\ DOMAIN replies = 1 .. Len(replies) /\ DOMAIN replies' = 1 .. Len(replies) + 1 /\ Len(replies) \in Nat
      /\ replies'[Len(replies) + 1] = r /\ \A i \in 1 .. Len(replies) : replies'[i] = replies[i]
  BY AnsweredIs DEF PaintIInv
<1> SUFFICES ASSUME page.active PROVE OpensAreSent'
  BY DEF OpensAreSent
<1>3. CASE \E i \in DOMAIN calls : calls[i].k = "open" /\ \A j \in DOMAIN calls : j > i => calls[j].k # "close"
  <2>1. PICK i \in DOMAIN calls : calls[i].k = "open" /\ \A j \in DOMAIN calls : j > i => calls[j].k # "close"
    BY <1>3
  <2>2. CASE i = 1
    <3>1. \A j \in DOMAIN calls' : calls'[j].k # "close"
      BY <1>1, <2>1, <2>2
    <3>2. tool' # << >> \/ \E n \in DOMAIN replies' : replies'[n].k = "open" /\ ~ replies'[n].ok
      BY <1>2, <2>1, <2>2
    <3> QED BY <3>1, <3>2 DEF OpensAreSent
  <2>3. CASE i > 1
    <3>1. i - 1 \in DOMAIN calls' /\ calls'[i - 1].k = "open" /\ \A j \in DOMAIN calls' : j > i - 1 => calls'[j].k # "close"
      BY <1>1, <2>1, <2>3
    <3> QED BY <3>1 DEF OpensAreSent
  <2> QED BY <2>1, <2>2, <2>3, <1>1
<1>4. CASE /\ \A j \in DOMAIN calls : calls[j].k # "close"
           /\ tool # << >> \/ \E i \in DOMAIN replies : replies[i].k = "open" /\ ~ replies[i].ok
  <2>1. \A j \in DOMAIN calls' : calls'[j].k # "close"
    BY <1>1, <1>4
  <2>2. tool' # << >> \/ \E n \in DOMAIN replies' : replies'[n].k = "open" /\ ~ replies'[n].ok
    BY <1>2, <1>4
  <2> QED BY <2>1, <2>2 DEF OpensAreSent
<1> QED BY <1>3, <1>4 DEF PaintIInv, OpensAreSent

(* The mesh and the overlay show the session. *)
LEMMA CommitIs ==
  ASSUME NEW s \in Sessions, Commit(s)
  PROVE  tool' = <<s>> /\ tool' # << >> /\ tool'[1] = s /\ support' = s.paint /\ support' \in Paints /\ OverlayIsSliced'
<1>1. tool' = <<s>> /\ support' = s.paint /\ overlay' = OverlayOf(s.paint)
  BY DEF Commit
<1>2. s.paint \in Paints
  BY DEF Sessions
<1> QED BY <1>1, <1>2 DEF OverlayIsSliced, OverlayOf

(* What a command leaves, whatever it does to the session. *)
LEMMA RunKeeps ==
  ASSUME PaintIInv, calls # << >>, calls' = Tail(calls),
         UNCHANGED <<page, away, muddled, lateMiss, paintLeft, recorded, unheard>>,
         NEW r \in Replies, replies' = Append(replies, r), r.k = calls[1].k, r.drag = calls[1].drag,
         support' \in Paints, strokes' \in Seq(Paints),
         tool' = << >> \/ \E s \in Sessions : tool' = <<s>> /\ Len(s.undo) <= MaxPaintUndo,
         tool' # << >> \/ (tool' = tool /\ support' = support),
         OverlayIsSliced', UndoIsOneDrag', r.k # "close", r.k = "open" => tool' # << >> \/ ~ r.ok,
         \/ tool' = tool \/ tool'[1].drag = 0 \/ (tool'[1].drag = calls[1].drag /\ calls[1].k \in Strokes),
         r.k = "brush" /\ ~ muddled => /\ r.ok => tool' # << >>
                                       /\ r.ok /\ (r.hit \/ ~ r.new) => tool'[1].drag = r.drag
                                       /\ ~ r.ok => tool' = << >>,
         \/ r.ok /\ r.hit /\ r.flags = FlagsOf(support')
         \/ ~ (r.ok /\ r.hit) /\ tool' = tool /\ support' = support
  PROVE  PaintIInv'
<1>1. PaintShape'
  <2>1. PaintShape
    BY DEF PaintIInv
  <2>2. calls' \in Seq(Calls) /\ Len(calls') = Len(calls) - 1 /\ Len(calls) \in Nat
    BY <2>1, RanIs
  <2>3. replies' \in Seq(Replies) /\ Len(replies') = Len(replies) + 1 /\ Len(replies) \in Nat
    BY <2>1, AnsweredIs
  <2>4. Len(calls') + Len(replies') <= MaxCalls
    BY <2>1, <2>2, <2>3, PaintAssumption DEF PaintShape, PaintAssumption
  <2> QED BY <2>1, <2>2, <2>3, <2>4 DEF PaintShape
<1>2. PaintIsRecorded'
  BY DEF PaintIInv, PaintIsRecorded
<1>3. Numbered'
  BY RanKeeps
<1>4. OpensAreSent'
  BY OpensRun
<1>5. FlagsAreSent'
  BY FlagsRun
<1>6. ~ muddled' => (OneSample' /\ MovesFollow' /\ DragsAreHeard')
  <2> SUFFICES ASSUME ~ muddled PROVE OneSample' /\ MovesFollow' /\ DragsAreHeard'
    OBVIOUS
  <2>1. r.k = "brush" => /\ r.ok => tool' # << >>
                         /\ r.ok /\ (r.hit \/ ~ r.new) => tool'[1].drag = r.drag
                         /\ ~ r.ok => tool' = << >>
    OBVIOUS
  <2>2. UNCHANGED page /\ muddled' = muddled
    OBVIOUS
  <2>3. OneSample' /\ MovesFollow' /\ DragsAreHeard'
    BY <2>1, <2>2, SampleRuns
  <2> QED BY <2>3
<1> QED BY <1>1, <1>2, <1>3, <1>4, <1>5, <1>6 DEF PaintIInv

(* The call that runs, and its answer. *)
LEMMA AnswerIs ==
  ASSUME PaintShape, calls # << >>, NEW ok \in BOOLEAN, NEW hit \in BOOLEAN, NEW flags \in Flags,
         Answer(Head(calls), ok, hit, flags)
  PROVE  \E r \in Replies :
           /\ replies' = Append(replies, r) /\ r.k = calls[1].k /\ r.drag = calls[1].drag /\ r.new = calls[1].new
           /\ r.ok = ok /\ r.hit = hit /\ r.flags = flags
<1>1. Head(calls) = calls[1] /\ calls[1] \in Calls
  <2>1. calls \in Seq(Calls)
    BY DEF PaintShape
  <2> QED BY <2>1, Taken
<1> DEFINE r == [k |-> calls[1].k, drag |-> calls[1].drag, new |-> calls[1].new, ok |-> ok, hit |-> hit, flags |-> flags]
<1>2. r \in Replies
  BY <1>1 DEF Calls, Replies
<1>3. replies' = Append(replies, r)
  BY <1>1 DEF Answer
<1> QED BY <1>2, <1>3

LEMMA RunOpenKeeps ==
  ASSUME PaintIInv, calls # << >>, calls' = Tail(calls),
         UNCHANGED <<page, away, muddled, lateMiss, paintLeft, recorded, unheard>>,
         calls[1].k = "open", OpenSession(Head(calls))
  PROVE  PaintIInv'
<1>1. PaintShape /\ OverlayIsSliced /\ UndoIsOneDrag
  BY DEF PaintIInv
<1>2. CASE away
  <2>1. Answer(Head(calls), FALSE, FALSE, NoFlags) /\ UNCHANGED <<tool, support, overlay, strokes>>
    BY <1>2 DEF OpenSession
  <2>2. PICK r \in Replies : /\ replies' = Append(replies, r) /\ r.k = calls[1].k /\ r.drag = calls[1].drag
                             /\ r.ok = FALSE /\ r.hit = FALSE
    BY <1>1, <2>1, FlagsAre, AnswerIs
  <2>3. OverlayIsSliced' /\ UndoIsOneDrag'
    BY <1>1, <2>1 DEF OverlayIsSliced, UndoIsOneDrag
  <2>4. support' \in Paints /\ strokes' \in Seq(Paints)
        /\ (tool' = << >> \/ \E s \in Sessions : tool' = <<s>> /\ Len(s.undo) <= MaxPaintUndo)
    BY <1>1, <2>1 DEF PaintShape
  <2> QED BY <2>1, <2>2, <2>3, <2>4, RunKeeps
<1>3. CASE ~ away
  <2> DEFINE s == [paint |-> support, undo |-> << >>, drag |-> 0]
  <2>1. Commit(s) /\ strokes' = << >> /\ Answer(Head(calls), TRUE, TRUE, FlagsOf(support))
    BY <1>3 DEF OpenSession
  <2>2. PICK r \in Replies : /\ replies' = Append(replies, r) /\ r.k = calls[1].k /\ r.drag = calls[1].drag
                             /\ r.ok = TRUE /\ r.hit = TRUE /\ r.flags = FlagsOf(support)
    BY <1>1, <2>1, FlagsAre, AnswerIs
  <2>3. s \in Sessions /\ s.paint = support /\ s.undo = << >> /\ s.drag = 0 /\ Len(s.undo) <= MaxPaintUndo
    BY <1>1, PaintAssumption, EmptySeq DEF PaintShape, Sessions, PaintAssumption
  <2> HIDE DEF s
  <2>4. tool' = <<s>> /\ tool' # << >> /\ tool'[1] = s /\ support' = support /\ support' \in Paints /\ OverlayIsSliced'
    BY <2>1, <2>3, CommitIs
  <2>5. UndoIsOneDrag'
    BY <2>1, <2>3, <2>4 DEF UndoIsOneDrag
  <2>6. strokes' \in Seq(Paints)
    BY <2>1, EmptySeq
  <2> QED BY <2>2, <2>3, <2>4, <2>5, <2>6, RunKeeps
<1> QED BY <1>2, <1>3

LEMMA RunUnheardKeeps ==
  ASSUME PaintIInv, calls # << >>, calls' = Tail(calls),
         UNCHANGED <<page, away, muddled, lateMiss, paintLeft, recorded, unheard, tool, support, overlay, strokes>>,
         calls[1].k # "open", calls[1].k # "close", tool = << >>, Answer(Head(calls), FALSE, FALSE, NoFlags)
  PROVE  PaintIInv'
<1>1. PaintShape /\ OverlayIsSliced /\ UndoIsOneDrag
  BY DEF PaintIInv
<1>2. PICK r \in Replies : /\ replies' = Append(replies, r) /\ r.k = calls[1].k /\ r.drag = calls[1].drag
                           /\ r.ok = FALSE /\ r.hit = FALSE
  BY <1>1, FlagsAre, AnswerIs
<1>3. OverlayIsSliced' /\ UndoIsOneDrag'
  BY <1>1 DEF OverlayIsSliced, UndoIsOneDrag
<1>4. support' \in Paints /\ strokes' \in Seq(Paints)
  BY <1>1 DEF PaintShape
<1> QED BY <1>2, <1>3, <1>4, RunKeeps

LEMMA RunClearKeeps ==
  ASSUME PaintIInv, calls # << >>, calls' = Tail(calls),
         UNCHANGED <<page, away, muddled, lateMiss, paintLeft, recorded, unheard>>,
         calls[1].k = "clear", ClearSession(Head(calls))
  PROVE  PaintIInv'
<1>1. PaintShape
  BY DEF PaintIInv
<1> DEFINE s == [paint |-> Unpainted, undo |-> << >>, drag |-> 0]
<1>2. Commit(s) /\ strokes' = << >> /\ Answer(Head(calls), TRUE, TRUE, NoFlags)
  BY DEF ClearSession
<1>3. PICK r \in Replies : /\ replies' = Append(replies, r) /\ r.k = calls[1].k /\ r.drag = calls[1].drag
                           /\ r.ok = TRUE /\ r.hit = TRUE /\ r.flags = NoFlags
  BY <1>1, <1>2, FlagsAre, AnswerIs
<1>4. s \in Sessions /\ s.paint = Unpainted /\ s.undo = << >> /\ s.drag = 0 /\ Len(s.undo) <= MaxPaintUndo
  <2>1. Unpainted \in Paints
    BY DEF Unpainted, Paints
  <2> QED BY <1>1, <2>1, PaintAssumption, EmptySeq DEF PaintShape, Sessions, PaintAssumption
<1>5. NoFlags = FlagsOf(Unpainted)
  <2>1. Tinted(Unpainted, 1) = {} /\ Tinted(Unpainted, 2) = {}
    BY DEF Tinted, Unpainted
  <2>2. (Tinted(Unpainted, 1) # {}) = FALSE /\ (Tinted(Unpainted, 2) # {}) = FALSE
    BY <2>1
  <2> QED BY <2>2, Zenon DEF NoFlags, FlagsOf
<1> HIDE DEF s
<1>6. tool' = <<s>> /\ tool' # << >> /\ tool'[1] = s /\ support' = Unpainted /\ support' \in Paints /\ OverlayIsSliced'
  BY <1>2, <1>4, CommitIs
<1>7. UndoIsOneDrag'
  BY <1>2, <1>4, <1>6 DEF UndoIsOneDrag
<1>8. strokes' \in Seq(Paints)
  BY <1>2, EmptySeq
<1>9. r.flags = FlagsOf(support')
  BY <1>3, <1>5, <1>6
<1> QED BY <1>3, <1>4, <1>6, <1>7, <1>8, <1>9, RunKeeps

LEMMA RunMissKeeps ==
  ASSUME PaintIInv, calls # << >>, calls' = Tail(calls),
         UNCHANGED <<page, away, muddled, lateMiss, paintLeft, recorded, unheard>>,
         calls[1].k \in Strokes, tool # << >>, Miss(Head(calls))
  PROVE  PaintIInv'
<1>1. PaintShape /\ OverlayIsSliced /\ UndoIsOneDrag
  BY DEF PaintIInv
<1>2. UNCHANGED <<tool, support, overlay, strokes>> /\ Answer(Head(calls), TRUE, FALSE, NoFlags)
  BY DEF Miss
<1>3. PICK r \in Replies : /\ replies' = Append(replies, r) /\ r.k = calls[1].k /\ r.drag = calls[1].drag
                           /\ r.new = calls[1].new /\ r.ok = TRUE /\ r.hit = FALSE
  BY <1>1, <1>2, FlagsAre, AnswerIs
<1>4. OverlayIsSliced' /\ UndoIsOneDrag'
  BY <1>1, <1>2 DEF OverlayIsSliced, UndoIsOneDrag
<1>5. support' \in Paints /\ strokes' \in Seq(Paints)
      /\ (tool' = << >> \/ \E s \in Sessions : tool' = <<s>> /\ Len(s.undo) <= MaxPaintUndo)
  BY <1>1, <1>2 DEF PaintShape
<1>6. r.k = "brush" /\ ~ muddled /\ ~ r.new => tool[1].drag = r.drag
  <2>1. 1 \in DOMAIN calls
    BY <1>1, RanIs
  <2> QED BY <1>3, <2>1 DEF PaintIInv, MovesFollow
<1>7. r.k # "close" /\ r.k # "open"
  BY <1>3 DEF Strokes
<1> QED BY <1>2, <1>3, <1>4, <1>5, <1>6, <1>7, RunKeeps

LEMMA RunUndoKeeps ==
  ASSUME PaintIInv, calls # << >>, calls' = Tail(calls),
         UNCHANGED <<page, away, muddled, lateMiss, paintLeft, recorded, unheard>>,
         calls[1].k = "undo", tool # << >>, UndoStroke(Head(calls))
  PROVE  PaintIInv'
<1> DEFINE was == tool[1]
<1>1. PaintShape /\ OverlayIsSliced /\ UndoIsOneDrag
  BY DEF PaintIInv
<1>2. was \in Sessions /\ tool = <<was>> /\ Len(was.undo) <= MaxPaintUndo /\ was.undo \in Seq(Paints)
  BY <1>1 DEF PaintShape, Sessions
<1>3. CASE was.undo = << >>
  <2>1. Answer(Head(calls), TRUE, TRUE, FlagsOf(was.paint)) /\ UNCHANGED <<tool, support, overlay, strokes>>
    BY <1>3 DEF UndoStroke
  <2>2. PICK r \in Replies : /\ replies' = Append(replies, r) /\ r.k = calls[1].k /\ r.drag = calls[1].drag
                             /\ r.ok = TRUE /\ r.hit = TRUE /\ r.flags = FlagsOf(was.paint)
    BY <1>1, <2>1, FlagsAre, AnswerIs
  <2>3. OverlayIsSliced' /\ UndoIsOneDrag' /\ was.paint = support
    BY <1>1, <2>1 DEF OverlayIsSliced, UndoIsOneDrag
  <2>4. support' \in Paints /\ strokes' \in Seq(Paints)
        /\ (tool' = << >> \/ \E s \in Sessions : tool' = <<s>> /\ Len(s.undo) <= MaxPaintUndo)
    BY <1>1, <2>1 DEF PaintShape
  <2> QED BY <2>1, <2>2, <2>3, <2>4, RunKeeps
<1>4. CASE was.undo # << >>
  <2> DEFINE s == [paint |-> Last(was.undo), undo |-> Front(was.undo), drag |-> 0]
  <2>1. /\ Commit(s) /\ strokes' = IF strokes = << >> THEN strokes ELSE Front(strokes)
        /\ Answer(Head(calls), TRUE, TRUE, FlagsOf(Last(was.undo)))
    BY <1>4 DEF UndoStroke
  <2>2. PICK r \in Replies : /\ replies' = Append(replies, r) /\ r.k = calls[1].k /\ r.drag = calls[1].drag
                             /\ r.ok = TRUE /\ r.hit = TRUE /\ r.flags = FlagsOf(Last(was.undo))
    BY <1>1, <2>1, FlagsAre, AnswerIs
  <2>3. /\ Last(was.undo) \in Paints /\ Front(was.undo) \in Seq(Paints) /\ Len(Front(was.undo)) = Len(was.undo) - 1
        /\ Len(was.undo) \in Nat
    BY <1>2, <1>4, Dropped, EmptySeq
  <2>4. s \in Sessions /\ s.paint = Last(was.undo) /\ s.undo = Front(was.undo) /\ s.drag = 0 /\ Len(s.undo) <= MaxPaintUndo
    BY <1>2, <2>3, PaintAssumption DEF Sessions, PaintAssumption
  <2> HIDE DEF s
  <2>5. tool' = <<s>> /\ tool' # << >> /\ tool'[1] = s /\ support' = s.paint /\ support' \in Paints /\ OverlayIsSliced'
    BY <2>1, <2>4, CommitIs
  <2>6. UndoIsOneDrag'
    <3>1. ~ muddled => was.undo = strokes
      BY <1>1 DEF UndoIsOneDrag
    <3> QED BY <1>4, <3>1, <2>1, <2>4, <2>5 DEF UndoIsOneDrag
  <2>7. strokes' \in Seq(Paints)
    BY <1>1, <2>1, Dropped DEF PaintShape
  <2>8. r.flags = FlagsOf(support')
    BY <2>2, <2>4, <2>5
  <2> QED BY <2>2, <2>4, <2>5, <2>6, <2>7, <2>8, RunKeeps
<1> QED BY <1>3, <1>4

LEMMA RunPaintKeeps ==
  ASSUME PaintIInv, calls # << >>, calls' = Tail(calls),
         UNCHANGED <<page, away, muddled, lateMiss, paintLeft, recorded, unheard>>,
         calls[1].k \in Strokes, tool # << >>, NEW f \in Facets, NEW st \in 0 .. 2, Paint(Head(calls), f, st)
  PROVE  PaintIInv'
<1> DEFINE was == tool[1]
<1> DEFINE painted == [was.paint EXCEPT ![f] = st]
<1> DEFINE c == calls[1]
<1> DEFINE s == [paint |-> painted, drag |-> c.drag, undo |-> IF c.new THEN Pushed(was.undo, was.paint) ELSE was.undo]
<1>1. PaintShape /\ OverlayIsSliced /\ UndoIsOneDrag
  BY DEF PaintIInv
<1>2. /\ was \in Sessions /\ tool = <<was>> /\ Len(was.undo) <= MaxPaintUndo /\ was.undo \in Seq(Paints)
      /\ was.paint \in Paints
  BY <1>1 DEF PaintShape, Sessions
<1>3. Head(calls) = c /\ c \in Calls /\ c.drag \in Nat /\ c.new \in BOOLEAN /\ 1 \in DOMAIN calls
  BY <1>1, RanIs DEF Calls
<1>4. /\ Commit(s) /\ strokes' = IF was.drag = c.drag THEN strokes ELSE Capped(Append(strokes, was.paint))
      /\ Answer(Head(calls), TRUE, TRUE, FlagsOf(painted))
  BY <1>3 DEF Paint
<1>5. painted \in Paints
  BY <1>2 DEF Paints
<1>6. Pushed(was.undo, was.paint) \in Seq(Paints) /\ Len(Pushed(was.undo, was.paint)) <= MaxPaintUndo
  BY <1>2, PaintAssumption, CappedIs DEF Pushed
<1> HIDE DEF was, painted, c
<1>7. s \in Sessions /\ Len(s.undo) <= MaxPaintUndo
  BY <1>2, <1>3, <1>5, <1>6 DEF Sessions
<1>8. s.paint = painted /\ s.drag = c.drag /\ s.undo = IF c.new THEN Pushed(was.undo, was.paint) ELSE was.undo
  OBVIOUS
<1> HIDE DEF s
<1>9. PICK r \in Replies : /\ replies' = Append(replies, r) /\ r.k = calls[1].k /\ r.drag = calls[1].drag
                           /\ r.ok = TRUE /\ r.hit = TRUE /\ r.flags = FlagsOf(painted)
  BY <1>1, <1>4, FlagsAre, AnswerIs
<1>10. tool' = <<s>> /\ tool' # << >> /\ tool'[1] = s /\ support' = painted /\ support' \in Paints /\ OverlayIsSliced'
  BY <1>4, <1>7, <1>8, CommitIs
<1>11. strokes' \in Seq(Paints)
  <2>1. strokes \in Seq(Paints)
    BY <1>1 DEF PaintShape
  <2>2. Append(strokes, was.paint) \in Seq(Paints) /\ Append(strokes, was.paint) # << >>
    BY <1>2, <2>1, Appended
  <2>3. Tail(Append(strokes, was.paint)) \in Seq(Paints)
    BY <2>2, Taken
  <2> QED BY <1>4, <2>1, <2>2, <2>3 DEF Capped
<1>12. ~ muddled => (was.drag = c.drag <=> ~ c.new)
  <2> SUFFICES ASSUME ~ muddled PROVE was.drag = c.drag <=> ~ c.new
    OBVIOUS
  <2>1. CASE c.new
    <3>1. c.drag > paintLeft /\ (was.drag = 0 \/ was.drag > c.drag) /\ paintLeft \in Nat /\ was.drag \in Nat
      <4>1. c.drag > paintLeft
        BY <1>3 DEF PaintIInv, Numbered, CallsAreNumbered, c
      <4>2. was.drag = 0 \/ was.drag > c.drag
        BY <1>3, <2>1 DEF PaintIInv, Numbered, ToolIsNumbered, was, c
      <4>3. paintLeft \in Nat /\ was.drag \in Nat
        BY <1>1, <1>2, PaintAssumption DEF PaintShape, Sessions, PaintAssumption
      <4> QED BY <4>1, <4>2, <4>3
    <3> QED BY <3>1, <1>3, <2>1
  <2>2. CASE ~ c.new
    <3>1. c.k = "brush"
      BY <1>3, <2>2 DEF PaintIInv, Numbered, CallsAreNumbered, Strokes, c
    <3> QED BY <3>1, <1>3, <2>2 DEF PaintIInv, MovesFollow, was, c
  <2> QED BY <2>1, <2>2
<1>13. UndoIsOneDrag'
  <2>1. ~ muddled => was.undo = strokes
    BY <1>1 DEF UndoIsOneDrag, was
  <2> QED BY <2>1, <1>4, <1>8, <1>10, <1>12 DEF UndoIsOneDrag, Pushed
<1>14. r.flags = FlagsOf(support') /\ tool'[1].drag = calls[1].drag /\ r.k # "close" /\ r.k # "open"
  BY <1>8, <1>9, <1>10 DEF c, Strokes
<1>15. \E x \in Sessions : tool' = <<x>> /\ Len(x.undo) <= MaxPaintUndo
  BY <1>7, <1>10
<1> QED BY <1>9, <1>10, <1>11, <1>13, <1>14, <1>15, RunKeeps

LEMMA RunCloseKeeps ==
  ASSUME PaintIInv, calls # << >>, calls' = Tail(calls),
         UNCHANGED <<page, away, muddled, lateMiss, paintLeft>>,
         calls[1].k = "close", CloseSession
  PROVE  PaintIInv'
<1>1. PaintShape
  BY DEF PaintIInv
<1>2. /\ calls' \in Seq(Calls) /\ Len(calls) \in Nat /\ Len(calls) >= 1 /\ Len(calls') = Len(calls) - 1
      /\ DOMAIN calls = 1 .. Len(calls) /\ DOMAIN calls' = 1 .. Len(calls) - 1
      /\ \A i \in 1 .. Len(calls) - 1 : calls'[i] = calls[i + 1]
      /\ calls' # << >> => Len(calls) > 1 /\ (Len(calls) = 1 => calls' = << >>)
  BY <1>1, RanIs
<1>3. /\ tool' = << >> /\ overlay' = << {}, {} >> /\ UNCHANGED <<support, strokes, replies>>
      /\ recorded' = IF tool # << >> /\ ~ away THEN support ELSE recorded
      /\ unheard' = IF tool = << >> THEN unheard ELSE away
  BY DEF CloseSession
<1>4. PaintShape'
  <2>1. Len(replies) \in Nat
    BY <1>1, EmptySeq DEF PaintShape
  <2>2. Len(calls') + Len(replies') <= MaxCalls
    BY <1>1, <1>2, <1>3, <2>1, PaintAssumption DEF PaintShape, PaintAssumption
  <2>3. recorded' \in Paints /\ unheard' \in BOOLEAN
    BY <1>1, <1>3 DEF PaintShape
  <2> QED BY <1>1, <1>2, <1>3, <2>2, <2>3 DEF PaintShape
<1>5. OverlayIsSliced' /\ UndoIsOneDrag' /\ FlagsAreSent'
  BY <1>3 DEF OverlayIsSliced, UndoIsOneDrag, FlagsAreSent
<1>6. PaintIsRecorded'
  BY <1>3 DEF PaintIInv, PaintIsRecorded
<1>7. Numbered'
  BY <1>3, RanKeeps
<1>8. OpensAreSent'
  <2> SUFFICES ASSUME page.active PROVE OpensAreSent'
    BY DEF OpensAreSent
  <2>1. PICK i \in DOMAIN calls : calls[i].k = "open" /\ \A j \in DOMAIN calls : j > i => calls[j].k # "close"
    BY <1>2 DEF PaintIInv, OpensAreSent
  <2>2. i > 1
    BY <1>2, <2>1
  <2>3. i - 1 \in DOMAIN calls' /\ calls'[i - 1].k = "open" /\ \A j \in DOMAIN calls' : j > i - 1 => calls'[j].k # "close"
    BY <1>2, <2>1, <2>2
  <2> QED BY <2>3 DEF OpensAreSent
<1>9. ~ muddled' => (OneSample' /\ MovesFollow' /\ DragsAreHeard')
  <2> SUFFICES ASSUME ~ muddled PROVE OneSample' /\ MovesFollow' /\ DragsAreHeard'
    OBVIOUS
  <2>1. OneSample /\ MovesFollow /\ DragsAreHeard
    BY DEF PaintIInv
  <2>2. OneSample'
    BY <1>2, <1>3, <2>1 DEF OneSample
  <2>3. MovesFollow'
    BY <1>2, <2>1 DEF MovesFollow
  <2>4. DragsAreHeard'
    <3> SUFFICES ASSUME Brushing PROVE DragsAreHeard'
      BY DEF DragsAreHeard, Brushing
    <3>1. page.inflight /\ calls[Len(calls)].k = "brush" /\ calls[Len(calls)].drag = page.drag[1].id
      BY <2>1 DEF DragsAreHeard
    <3>2. Len(calls) > 1
      BY <1>2, <3>1
    <3>3. calls' # << >>
      <4>1. calls' = << >> => Len(calls') = 0
        BY EmptySeq
      <4> QED BY <1>2, <3>2, <4>1
    <3>4. calls'[Len(calls')] = calls[Len(calls)]
      BY <1>2, <3>2
    <3> QED BY <3>1, <3>3, <3>4 DEF DragsAreHeard
  <2> QED BY <2>2, <2>3, <2>4
<1> QED BY <1>4, <1>5, <1>6, <1>7, <1>8, <1>9 DEF PaintIInv

LEMMA RunCallKeeps == ASSUME PaintIInv, RunCall PROVE PaintIInv'
<1>1. calls # << >> /\ calls' = Tail(calls) /\ UNCHANGED <<page, away, muddled, lateMiss, paintLeft>>
  BY DEF RunCall
<1>2. Head(calls) = calls[1]
  BY <1>1, RanIs DEF PaintIInv
<1>3. CASE calls[1].k = "close" /\ CloseSession
  BY <1>1, <1>3, RunCloseKeeps
<1>4. CASE UNCHANGED <<recorded, unheard>> /\ calls[1].k = "open" /\ OpenSession(Head(calls))
  BY <1>1, <1>4, RunOpenKeeps
<1>5. CASE /\ UNCHANGED <<recorded, unheard>> /\ calls[1].k # "open" /\ calls[1].k # "close" /\ tool = << >>
           /\ Answer(Head(calls), FALSE, FALSE, NoFlags)
           /\ UNCHANGED <<tool, support, overlay, strokes>>
  BY <1>1, <1>5, RunUnheardKeeps
<1>6. CASE UNCHANGED <<recorded, unheard>> /\ calls[1].k = "undo" /\ tool # << >> /\ UndoStroke(Head(calls))
  BY <1>1, <1>6, RunUndoKeeps
<1>7. CASE UNCHANGED <<recorded, unheard>> /\ calls[1].k = "clear" /\ tool # << >> /\ ClearSession(Head(calls))
  BY <1>1, <1>7, RunClearKeeps
<1>8. CASE UNCHANGED <<recorded, unheard>> /\ calls[1].k \in Strokes /\ tool # << >> /\ Miss(Head(calls))
  BY <1>1, <1>8, RunMissKeeps
<1>9. CASE UNCHANGED <<recorded, unheard>> /\ calls[1].k \in Strokes /\ tool # << >>
           /\ \E f \in Facets, s \in 0 .. 2 : Paint(Head(calls), f, s)
  <2>1. PICK f \in Facets, s \in 0 .. 2 : Paint(Head(calls), f, s)
    BY <1>9
  <2> QED BY <1>1, <1>9, <2>1, RunPaintKeeps
<1> QED BY <1>2, <1>3, <1>4, <1>5, <1>6, <1>7, <1>8, <1>9 DEF RunCall, Strokes

-----------------------------------------------------------------------------
(* The answers. *)
LEMMA TakeReplyKeeps == ASSUME PaintIInv, TakeReply PROVE PaintIInv'
<1> DEFINE r == replies[1]
<1> DEFINE missed == r.ok /\ ~ r.hit /\ r.new /\ Drags(r)
<1>1. PaintShape /\ replies # << >> /\ replies \in Seq(Replies)
  BY DEF PaintIInv, TakeReply, PaintShape
<1>2. /\ Head(replies) = r /\ r \in Replies /\ replies' = Tail(replies) /\ replies' \in Seq(Replies)
      /\ Len(replies) \in Nat /\ Len(replies) >= 1 /\ Len(replies') = Len(replies) - 1
      /\ DOMAIN replies = 1 .. Len(replies) /\ DOMAIN replies' = 1 .. Len(replies) - 1
      /\ \A i \in 1 .. Len(replies) - 1 : replies'[i] = replies[i + 1]
      /\ Len(replies) = 1 => replies' = << >>
  BY <1>1, Taken DEF TakeReply
<1>3. /\ page' = [active   |-> page.active /\ (r.ok \/ r.k # "open"),
                  flags    |-> IF Notes(r) THEN r.flags ELSE page.flags,
                  drag     |-> IF missed THEN <<AfterMiss(page.drag[1])>> ELSE page.drag,
                  inflight |-> page.inflight /\ r.k # "brush"]
      /\ lateMiss' = IF ~ Notes(r) THEN lateMiss ELSE r.new /\ ~ r.hit /\ ~ Drags(r)
      /\ UNCHANGED <<tool, support, overlay, calls, away, recorded, strokes, muddled, unheard, paintLeft>>
  BY <1>2 DEF TakeReply
<1>4. /\ r.ok \in BOOLEAN /\ r.hit \in BOOLEAN /\ r.new \in BOOLEAN /\ r.flags \in Flags /\ r.k \in CallKinds
      /\ r.drag \in Nat
  BY <1>2 DEF Replies
<1> HIDE DEF r
<1>5. /\ page'.active = (page.active /\ (r.ok \/ r.k # "open"))
      /\ page'.flags = IF Notes(r) THEN r.flags ELSE page.flags
      /\ page'.drag = IF missed THEN <<AfterMiss(page.drag[1])>> ELSE page.drag
      /\ page'.inflight = (page.inflight /\ r.k # "brush")
  BY <1>3
<1>6. missed => page.drag # << >> /\ page.drag[1] \in PageDrags /\ AfterMiss(page.drag[1]) \in PageDrags /\ AfterMiss(page.drag[1]).mode = "camera"
  <2> SUFFICES ASSUME missed
               PROVE  page.drag # << >> /\ page.drag[1] \in PageDrags /\ AfterMiss(page.drag[1]) \in PageDrags /\ AfterMiss(page.drag[1]).mode = "camera"
    OBVIOUS
  <2>1. page.drag # << >>
    BY DEF Drags
  <2>2. PICK d \in PageDrags : page.drag = <<d>>
    BY <1>1, <2>1 DEF PaintShape
  <2>3. page.drag[1] = d
    BY <2>2
  <2>4. AfterMiss(d) \in PageDrags /\ AfterMiss(d).mode = "camera"
    BY DEF AfterMiss, PageDrags
  <2> QED BY <2>1, <2>3, <2>4
<1>7. PaintShape'
  <2>1. page' \in [active : BOOLEAN, flags : Flags, drag : {<< >>} \cup {<<d>> : d \in PageDrags}, inflight : BOOLEAN]
    <3>2. (page.active /\ (r.ok \/ r.k # "open")) \in BOOLEAN /\ (page.inflight /\ r.k # "brush") \in BOOLEAN
      OBVIOUS
    <3>3. (IF Notes(r) THEN r.flags ELSE page.flags) \in Flags
      BY <1>1, <1>4 DEF PaintShape
    <3>4. (IF missed THEN <<AfterMiss(page.drag[1])>> ELSE page.drag) \in {<< >>} \cup {<<d>> : d \in PageDrags}
      BY <1>1, <1>6 DEF PaintShape
    <3> QED BY <1>3, <3>2, <3>3, <3>4
  <2>2. lateMiss' \in BOOLEAN
    BY <1>1, <1>3 DEF PaintShape
  <2>3. Len(calls') + Len(replies') <= MaxCalls
    <3>1. Len(calls) \in Nat /\ MaxCalls \in Nat
      BY <1>1, PaintAssumption, EmptySeq DEF PaintShape, PaintAssumption
    <3> QED BY <1>1, <1>2, <1>3, <3>1 DEF PaintShape
  <2> QED BY <1>1, <1>2, <1>3, <2>1, <2>2, <2>3 DEF PaintShape
<1>8. OverlayIsSliced' /\ UndoIsOneDrag' /\ PaintIsRecorded'
  BY <1>3 DEF PaintIInv, OverlayIsSliced, UndoIsOneDrag, PaintIsRecorded
<1>9. Numbered'
  <2>1. CallsAreNumbered' /\ NumbersFall' /\ ToolIsNumbered'
    BY <1>3 DEF PaintIInv, Numbered, CallsAreNumbered, NumbersFall, ToolIsNumbered
  <2>2. DragIsNumbered'
    BY <1>3, <1>5, <1>6 DEF PaintIInv, Numbered, DragIsNumbered
  <2> QED BY <2>1, <2>2 DEF Numbered
<1>10. OpensAreSent'
  <2> SUFFICES ASSUME page.active, r.ok \/ r.k # "open" PROVE OpensAreSent'
    BY <1>5 DEF OpensAreSent
  <2>1. CASE \E i \in DOMAIN calls : calls[i].k = "open" /\ \A j \in DOMAIN calls : j > i => calls[j].k # "close"
    BY <1>3, <2>1 DEF OpensAreSent
  <2>2. CASE (\A j \in DOMAIN calls : calls[j].k # "close") /\ tool # << >>
    BY <1>3, <2>2 DEF OpensAreSent
  <2>3. CASE (\A j \in DOMAIN calls : calls[j].k # "close") /\ \E i \in DOMAIN replies : replies[i].k = "open" /\ ~ replies[i].ok
    <3>1. PICK i \in DOMAIN replies : replies[i].k = "open" /\ ~ replies[i].ok
      BY <2>3
    <3>2. i # 1
      BY <3>1 DEF r
    <3>3. i - 1 \in DOMAIN replies' /\ replies'[i - 1] = replies[i]
      BY <1>2, <3>1, <3>2
    <3> QED BY <1>3, <2>3, <3>1, <3>3 DEF OpensAreSent
  <2> QED BY <2>1, <2>2, <2>3 DEF PaintIInv, OpensAreSent
<1>11. FlagsAreSent'
  <2> SUFFICES ASSUME tool # << >> PROVE FlagsAreSent'
    BY <1>3 DEF FlagsAreSent
  <2>1. CASE /\ \A i \in DOMAIN replies : ~ (replies[i].ok /\ replies[i].hit)
             /\ lateMiss \/ page.flags = FlagsOf(support)
    <3>1. ~ (r.ok /\ r.hit)
      BY <1>2, <2>1 DEF r
    <3>2. \A i \in DOMAIN replies' : ~ (replies'[i].ok /\ replies'[i].hit)
      BY <1>2, <2>1
    <3>3. lateMiss' \/ page'.flags = FlagsOf(support)
      BY <1>3, <1>5, <2>1, <3>1 DEF Notes
    <3> QED BY <1>3, <3>2, <3>3 DEF FlagsAreSent
  <2>2. CASE \E i \in DOMAIN replies :
               /\ replies[i].ok /\ replies[i].hit /\ replies[i].flags = FlagsOf(support)
               /\ \A j \in DOMAIN replies : j > i => ~ (replies[j].ok /\ replies[j].hit)
    <3>1. PICK i \in DOMAIN replies :
               /\ replies[i].ok /\ replies[i].hit /\ replies[i].flags = FlagsOf(support)
               /\ \A j \in DOMAIN replies : j > i => ~ (replies[j].ok /\ replies[j].hit)
      BY <2>2
    <3>2. CASE i = 1
      <4>1. \A j \in DOMAIN replies' : ~ (replies'[j].ok /\ replies'[j].hit)
        BY <1>2, <3>1, <3>2
      <4>2. page'.flags = FlagsOf(support)
        BY <1>5, <3>1, <3>2 DEF Notes, r
      <4> QED BY <1>3, <4>1, <4>2 DEF FlagsAreSent
    <3>3. CASE i > 1
      <4>1. /\ i - 1 \in DOMAIN replies' /\ replies'[i - 1] = replies[i]
            /\ \A j \in DOMAIN replies' : j > i - 1 => ~ (replies'[j].ok /\ replies'[j].hit)
        BY <1>2, <3>1, <3>3
      <4> QED BY <1>3, <3>1, <4>1 DEF FlagsAreSent
    <3> QED BY <1>2, <3>1, <3>2, <3>3
  <2> QED BY <2>1, <2>2 DEF PaintIInv, FlagsAreSent
<1>12. ~ muddled' => (OneSample' /\ MovesFollow' /\ DragsAreHeard')
  <2> SUFFICES ASSUME ~ muddled PROVE OneSample' /\ MovesFollow' /\ DragsAreHeard'
    BY <1>3
  <2>1. OneSample /\ MovesFollow /\ DragsAreHeard
    BY DEF PaintIInv
  <2>2. OneSample'
    <3>1. r.k = "brush" => (\A i \in DOMAIN calls : calls[i].k # "brush") /\ (\A i \in DOMAIN replies : i # 1 => replies[i].k # "brush")
      BY <1>2, <2>1 DEF OneSample, r
    <3>2. \A i \in DOMAIN replies', j \in DOMAIN replies' : replies'[i].k = "brush" /\ replies'[j].k = "brush" => i = j
      BY <1>2, <2>1 DEF OneSample
    <3>3. \A i \in DOMAIN calls, j \in DOMAIN replies' : ~ (calls[i].k = "brush" /\ replies'[j].k = "brush")
      BY <1>2, <2>1 DEF OneSample
    <3>4. \A i \in DOMAIN calls : calls[i].k = "brush" => page'.inflight
      BY <1>5, <2>1, <3>1 DEF OneSample
    <3>5. \A i \in DOMAIN replies' : replies'[i].k = "brush" => page'.inflight
      <4> SUFFICES ASSUME NEW i \in DOMAIN replies', replies'[i].k = "brush" PROVE page'.inflight
        OBVIOUS
      <4>1. i + 1 \in DOMAIN replies /\ i + 1 # 1 /\ replies[i + 1].k = "brush"
        BY <1>2
      <4>2. page.inflight
        BY <2>1, <4>1 DEF OneSample
      <4> QED BY <1>5, <3>1, <4>1, <4>2
    <3>6. \A i \in DOMAIN calls, j \in DOMAIN calls : calls[i].k = "brush" /\ calls[j].k = "brush" => i = j
      BY <2>1 DEF OneSample
    <3> QED BY <1>3, <3>2, <3>3, <3>4, <3>5, <3>6 DEF OneSample
  <2>3. MovesFollow'
    BY <1>3, <2>1 DEF MovesFollow
  <2>4. DragsAreHeard'
    <3> SUFFICES ASSUME Brushing' PROVE DragsAreHeard'
      BY DEF DragsAreHeard
    <3>1. ~ missed /\ page'.drag = page.drag /\ Brushing
      BY <1>5, <1>6 DEF Brushing
    <3>2. page.inflight
      BY <1>1, <2>1, <3>1 DEF DragsAreHeard
    <3>3. CASE calls # << >>
      <4>1. calls[Len(calls)].k = "brush" /\ calls[Len(calls)].drag = page.drag[1].id
        BY <2>1, <3>1, <3>2, <3>3 DEF DragsAreHeard
      <4>2. Len(calls) \in DOMAIN calls
        BY <1>1, <3>3, EmptySeq DEF PaintShape
      <4>3. r.k # "brush"
        BY <1>2, <2>1, <4>1, <4>2 DEF OneSample, r
      <4> QED BY <1>3, <1>5, <3>1, <3>2, <3>3, <4>1, <4>3 DEF DragsAreHeard
    <3>4. CASE calls = << >>
      <4>1. Sampled(replies[Len(replies)])
        BY <2>1, <3>1, <3>2, <3>4 DEF DragsAreHeard
      <4>2. CASE Len(replies) > 1
        <5>1. replies'[Len(replies')] = replies[Len(replies)] /\ replies' # << >>
          <6>1. replies' = << >> => Len(replies') = 0
            BY EmptySeq
          <6> QED BY <1>2, <4>2, <6>1
        <5>2. r.k # "brush"
          BY <1>2, <2>1, <4>1, <4>2 DEF OneSample, Sampled, r
        <5>3. Sampled(replies[Len(replies)])'
          BY <1>3, <3>1, <4>1, <5>1 DEF Sampled
        <5> QED BY <1>3, <1>5, <3>2, <3>4, <5>1, <5>2, <5>3 DEF DragsAreHeard
      <4>3. CASE Len(replies) = 1
        <5>1. Sampled(r) /\ replies' = << >>
          BY <1>2, <4>1, <4>3 DEF r
        <5>2. ~ page'.inflight
          BY <1>5, <5>1 DEF Sampled
        <5>3. page'.active => tool # << >> /\ tool[1].drag = page.drag[1].id
          <6> SUFFICES ASSUME page'.active PROVE tool # << >> /\ tool[1].drag = page.drag[1].id
            OBVIOUS
          <6>1. CASE r.ok
            <7>1. r.hit \/ ~ r.new
              BY <1>4, <3>1, <5>1, <6>1 DEF Drags, Brushing, Sampled
            <7> QED BY <5>1, <6>1, <7>1 DEF Sampled
          <6>2. CASE ~ r.ok
            <7>1. tool = << >> /\ page.active /\ r.k = "brush"
              BY <1>5, <5>1, <6>2 DEF Sampled
            <7>2. \A i \in DOMAIN replies : replies[i].k # "open"
              BY <1>2, <4>3, <7>1 DEF r
            <7>3. DOMAIN calls = {}
              BY <3>4
            <7> QED BY <7>1, <7>2, <7>3 DEF PaintIInv, OpensAreSent
          <6> QED BY <6>1, <6>2
        <5> QED BY <1>3, <3>1, <3>4, <5>1, <5>2, <5>3 DEF DragsAreHeard
      <4> QED BY <1>2, <4>2, <4>3
    <3> QED BY <3>3, <3>4
  <2> QED BY <2>2, <2>3, <2>4
<1> QED BY <1>7, <1>8, <1>9, <1>10, <1>11, <1>12 DEF PaintIInv

LEMMA PaintStep == ASSUME PaintIInv, [PaintNext]_paintVars PROVE PaintIInv'
<1>1. CASE UNCHANGED paintVars
  <2>1. PaintShape' /\ OverlayIsSliced' /\ PaintIsRecorded' /\ UndoIsOneDrag' /\ OpensAreSent' /\ FlagsAreSent'
    BY <1>1 DEF paintVars, PaintIInv, PaintShape, OverlayIsSliced, PaintIsRecorded, UndoIsOneDrag, OpensAreSent, FlagsAreSent
  <2>2. Numbered'
    BY <1>1 DEF paintVars, PaintIInv, Numbered, CallsAreNumbered, NumbersFall, ToolIsNumbered, DragIsNumbered
  <2>3. ~ muddled' => (OneSample' /\ MovesFollow' /\ DragsAreHeard')
    BY <1>1 DEF paintVars, PaintIInv, OneSample, MovesFollow, DragsAreHeard, Brushing, Sampled
  <2> QED BY <2>1, <2>2, <2>3 DEF PaintIInv
<1>2. CASE OpenTool
  BY <1>2, OpenToolKeeps
<1>3. CASE ExitTool
  BY <1>3, ExitToolKeeps
<1>4. CASE PressPaint("brush")
  BY <1>4, PressPaintKeeps DEF Strokes
<1>5. CASE PressPaint("fill")
  BY <1>5, PressPaintKeeps DEF Strokes
<1>6. CASE MovePaint
  BY <1>6, MovePaintKeeps
<1>7. CASE ReleasePaint
  BY <1>7, ReleasePaintKeeps
<1>8. CASE UndoPaint
  BY <1>8, UndoPaintKeeps
<1>9. CASE ErasePaint
  BY <1>9, ErasePaintKeeps
<1>10. CASE ShowPlate
  BY <1>10, ShowPlateKeeps
<1>11. CASE RunCall
  BY <1>11, RunCallKeeps
<1>12. CASE TakeReply
  BY <1>12, TakeReplyKeeps
<1> QED BY <1>1, <1>2, <1>3, <1>4, <1>5, <1>6, <1>7, <1>8, <1>9, <1>10, <1>11, <1>12 DEF PaintNext

LEMMA PaintEnough == PaintIInv => PaintIsTrue
<1> SUFFICES ASSUME PaintIInv PROVE PaintIsTrue
  OBVIOUS
<1>1. PaintTypeOK
  <2>1. Len(page.drag) <= 1
    <3>1. CASE page.drag = << >>
      BY <3>1
    <3>2. CASE page.drag # << >>
      <4>1. PICK d \in PageDrags : page.drag = <<d>>
        BY <3>2 DEF PaintIInv, PaintShape
      <4> QED BY <4>1
    <3> QED BY <3>1, <3>2
  <2>2. tool # << >> => tool[1].paint \in Paints /\ Len(tool[1].undo) <= MaxPaintUndo
    BY DEF PaintIInv, PaintShape, Sessions
  <2> QED BY <2>1, <2>2 DEF PaintIInv, PaintShape, PaintTypeOK, Paints
<1>2. FlagsAreTrueUnlessLateMiss
  <2> SUFFICES ASSUME page.active, tool # << >>, calls = << >>, replies = << >>, ~ lateMiss
               PROVE  page.flags = FlagsOf(support)
    BY DEF FlagsAreTrueUnlessLateMiss
  <2>1. DOMAIN replies = {}
    OBVIOUS
  <2> QED BY <2>1 DEF PaintIInv, FlagsAreSent
<1> QED BY <1>1, <1>2 DEF PaintIInv, PaintIsTrue

(* What is seen, what is sliced, what can be undone and what the document has heard *)
(* of are the same paint, however the page's presses, moves, undos and erasures      *)
(* overtake the answers to the commands (paint_tool.rs:163 commit_live,              *)
(* usePaintSession.ts, WgpuViewport.tsx:454).                                        *)
THEOREM PaintStaysTrue == PaintSpec => []PaintIsTrue
<1>1. PaintInit => PaintIInv
  BY PaintStart, PaintAssumption
<1>2. PaintIInv /\ [PaintNext]_paintVars => PaintIInv'
  BY PaintStep
<1> QED BY <1>1, <1>2, PaintEnough, PTL DEF PaintSpec
==============================================================================
