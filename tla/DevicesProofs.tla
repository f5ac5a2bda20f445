---------------------------- MODULE DevicesProofs ----------------------------
(*****************************************************************************)
(* What talks to a printer besides its driver, one part after the other: the *)
(* spools (SlotsStayTrue), the Moonraker session (SessionsAreFaithful), the  *)
(* cameras (OneCameraAtATime), the pairing with a U1 (TokensAreApproved) and *)
(* the registry with its reconciler (RegistryHolds).  They share no state.   *)
(*****************************************************************************)
EXTENDS SpoolSync, MoonrakerSession, CameraStream, U1Pairing, PrinterInstances,
        FiniteSetTheorems, TLAPS

-----------------------------------------------------------------------------
(***************************************************************************)
(* The spools: SlotsAreTrue, for every number and size of units, every     *)
(* set of filaments, colors and extruders.  SpoolInv says three things.    *)
(* The slots keep their shape: whole units, then the direct feed           *)
(* (SpoolTypes).  A tray is consistent with the pick it holds (TraysFit).  *)
(* And a field of a tray either has been reported as it is, or is on the   *)
(* list of what the next report carries (Reported): so once nothing is on  *)
(* the list, the accumulator is the printer, and what a sync, a send or a  *)
(* calibration reads from the status is what is in the trays.  The rest is *)
(* arithmetic: slot k is place k - 1, which is unit * PerUnit + tray, for  *)
(* the report, the calibration and the names, and with one unit for the    *)
(* send, whose number is the place itself.                                 *)
(***************************************************************************)

-----------------------------------------------------------------------------
(* Arithmetic of slot numbers. *)

LEMMA DivMod ==
    ASSUME NEW p \in Nat \ {0}, NEW a \in Nat
    PROVE  /\ a \div p \in Nat /\ a % p \in 0 .. p - 1
           /\ a = (a \div p) * p + (a % p)
<1>1. a = (a \div p) * p + (a % p)
  BY SMTT(30)
<1> QED
  BY <1>1

(* u whole units are trays of the printer, and fewer units are fewer trays. *)
LEMMA Whole ==
    ASSUME NEW u \in 0 .. MaxUnits
    PROVE  /\ PerUnit * u \in Nat /\ PerUnit * MaxUnits \in Nat
           /\ PerUnit * u <= PerUnit * MaxUnits
           /\ u > 0 => PerUnit * u > 0
           /\ TraysOf(u) \subseteq Trays
           /\ TraysOf(u) = 0 .. PerUnit * u - 1 /\ Trays = 0 .. PerUnit * MaxUnits - 1
           /\ \A v \in 0 .. u : TraysOf(v) \subseteq TraysOf(u)
<1>0. PerUnit \in Nat \ {0} /\ MaxUnits \in Nat \ {0}
  BY SpoolAssumption, Zenon
<1>1. /\ PerUnit \in Nat /\ PerUnit > 0 /\ MaxUnits \in Nat /\ u \in Nat
      /\ u <= MaxUnits
  BY <1>0
<1>2. PerUnit * u \in Nat /\ PerUnit * MaxUnits \in Nat
  BY <1>1
<1>3. PerUnit * u <= PerUnit * MaxUnits
  BY <1>1
<1>4. u > 0 => PerUnit * u > 0
  BY <1>1
<1>5. \A v \in 0 .. u : PerUnit * v \in Nat /\ PerUnit * v <= PerUnit * u
  BY <1>1
<1>6. TraysOf(u) = 0 .. PerUnit * u - 1 /\ Trays = 0 .. PerUnit * MaxUnits - 1
  BY DEF TraysOf, Trays
<1>7. \A v \in 0 .. u : TraysOf(v) = 0 .. PerUnit * v - 1
  BY DEF TraysOf
<1>8. TraysOf(u) \subseteq Trays
  BY <1>2, <1>3, <1>6
<1>9. \A v \in 0 .. u : TraysOf(v) \subseteq TraysOf(u)
  BY <1>2, <1>5, <1>6, <1>7
<1> QED
  BY <1>2, <1>3, <1>4, <1>6, <1>8, <1>9

-----------------------------------------------------------------------------
(* Trays and what a report says of them. *)

Idents == DOMAIN Fragments \cup DOMAIN Customs
Known  == [TrayFields -> Words]               \* a tray, as the printer knows it
Heard  == [TrayFields -> Words \cup {Omit}]   \* as reports have told it
Spools == Known \cup {None}

(* A tray is empty or has been set to one of the filaments; it is consistent with  *)
(* a filament of the app, a custom one through its base.                           *)
Real(t) == t = EmptyTray
           \/ \E g \in DOMAIN Fragments : t.sku = Fragments[g].sku /\ t.type = Fragments[g].type
Fits(f, t) == Fragments[Base(f)].sku = t.sku /\ Fragments[Base(f)].type = t.type

LEMMA SettingType ==
    ASSUME NEW f \in DOMAIN Fragments, NEW color \in Words, NEW w \in Words
    PROVE  /\ [SettingOf(f, color) EXCEPT !.sub = w] \in Known
           /\ Fits(f, [SettingOf(f, color) EXCEPT !.sub = w])
           /\ [SettingOf(f, color) EXCEPT !.tag = w] \in Known
           /\ Fits(f, [SettingOf(f, color) EXCEPT !.tag = w])
<1>1. Fragments[f].sku \in Words /\ Fragments[f].type \in Words /\ f \in Words /\ "" \in Words
  BY DEF Words
<1> DEFINE a == [SettingOf(f, color) EXCEPT !.sub = w]
           b == [SettingOf(f, color) EXCEPT !.tag = w]
<1>2. /\ a.sku = Fragments[f].sku /\ a.type = Fragments[f].type
      /\ a.sub = w /\ a.color = color /\ a.tag = ""
      /\ b.sku = Fragments[f].sku /\ b.type = Fragments[f].type
      /\ b.sub = f /\ b.color = color /\ b.tag = w
  BY DEF SettingOf
<1>3. a = [x \in TrayFields |-> a[x]] /\ b = [x \in TrayFields |-> b[x]]
  BY DEF SettingOf, TrayFields
<1> HIDE DEF a, b
<1>4. \A x \in TrayFields : a[x] \in Words /\ b[x] \in Words
  BY <1>1, <1>2 DEF TrayFields
<1>5. a \in Known /\ b \in Known
  BY <1>3, <1>4 DEF Known
<1>6. Base(f) = f
  BY SpoolAssumption DEF Base
<1>7. Fits(f, a) /\ Fits(f, b)
  BY <1>2, <1>6 DEF Fits
<1> QED
  BY <1>5, <1>7 DEF a, b

LEMMA FitsIsReal ==
    ASSUME NEW f \in Idents, NEW t, Fits(f, t)
    PROVE  Real(t)
<1>1. Base(f) \in DOMAIN Fragments
  BY SpoolAssumption DEF Base, Idents
<1> QED
  BY <1>1 DEF Fits, Real

LEMMA IdentityType ==
    ASSUME NEW t \in Heard
    PROVE  Identity(t) \in Spools
  BY DEF Identity, Spools, Known, Heard, Given, Words

(* A tray reported in full is empty, or is shown as it is. *)
LEMMA IdentityKnown ==
    ASSUME NEW t \in Known
    PROVE  /\ Identity(t) \in Spools
           /\ Identity(t) # None => Identity(t) = t
           /\ t.type # "" \/ t.sku # "" => Identity(t) = t
           /\ Identity(EmptyTray) = None
<1>0. Omit \notin Words /\ None \notin Known
  BY WordsAssumption DEF Known
<1>1. \A f \in TrayFields : t[f] \in Words
  BY DEF Known
<1>2. [f \in TrayFields |-> IF Given(t[f]) THEN t[f] ELSE ""] = t
  BY <1>0, <1>1 DEF Known, Given
<1>3. Identity(t) \in {None, t}
  BY <1>2 DEF Identity
<1>4. t.type # "" \/ t.sku # "" => Identity(t) = t
  BY <1>0, <1>1, <1>2 DEF Identity, Given, TrayFields
<1>5. Identity(EmptyTray) = None
  BY DEF Identity, EmptyTray, Given, TrayFields
<1> QED
  BY <1>3, <1>4, <1>5 DEF Spools

LEMMA MergeType ==
    ASSUME NEW old \in Heard, NEW patch \in Heard
    PROVE  /\ TrayMerge(old, patch) \in Heard
           /\ \A f \in TrayFields :
                TrayMerge(old, patch)[f] = IF patch[f] = Omit THEN old[f] ELSE patch[f]
  BY DEF TrayMerge, Heard

-----------------------------------------------------------------------------
(* The slots of the instance. *)

Slots == [feed : {"ams", "direct"}, ident : Idents \cup {None}, color : Words, tag : Words]
Sizes == {PerUnit * u + 1 : u \in 1 .. MaxUnits}
SlotsOK(sl, n) ==
    /\ sl \in [1 .. n -> Slots] /\ sl \in Seq(Slots) /\ Len(sl) = n
    /\ \A k \in 1 .. n : sl[k].feed = IF k = n THEN "direct" ELSE "ams"

LEMMA AsSlots ==
    ASSUME NEW n \in Nat, NEW sl \in [1 .. n -> Slots],
           \A k \in 1 .. n : sl[k].feed = IF k = n THEN "direct" ELSE "ams"
    PROVE  SlotsOK(sl, n)
  BY DEF SlotsOK

LEMMA SizeType ==
    ASSUME NEW n \in Sizes
    PROVE  /\ n \in Nat /\ n >= 2
           /\ \E u \in 1 .. MaxUnits : n = PerUnit * u + 1
<1>1. PICK u \in 1 .. MaxUnits : n = PerUnit * u + 1
  BY DEF Sizes
<1>2. u \in 0 .. MaxUnits /\ u > 0
  OBVIOUS
<1>3. PerUnit * u \in Nat /\ PerUnit * u > 0
  BY <1>2, Whole
<1> QED
  BY <1>1, <1>3

(* A slot keeps its place and its binding when units come or go. *)
LEMMA RebuildKeeps ==
    ASSUME NEW n \in Sizes, NEW old, SlotsOK(old, n), NEW u \in 1 .. MaxUnits
    PROVE  /\ PerUnit * u + 1 \in Sizes
           /\ SlotsOK(Rebuild(old, u), PerUnit * u + 1)
           /\ \A k \in 1 .. PerUnit * u : k < n => Rebuild(old, u)[k] = old[k]
<1> DEFINE m == PerUnit * u + 1
           new == Rebuild(old, u)
<1>1. m \in Sizes
  BY DEF Sizes
<1>2. m \in Nat /\ n \in Nat /\ m >= 2 /\ n >= 2 /\ m - 1 = PerUnit * u
  <2>1. u \in 0 .. MaxUnits
    OBVIOUS
  <2>2. PerUnit * u \in Nat
    BY <2>1, Whole
  <2>3. m \in Nat /\ n \in Nat /\ m >= 2 /\ n >= 2
    BY <1>1, SizeType
  <2> QED
    BY <2>2, <2>3
<1>3. Slot("ams", Default) \in Slots /\ Slot("ams", Default).feed = "ams"
  BY SpoolAssumption DEF Slot, Slots, Idents, Words
<1>4. /\ old \in [1 .. n -> Slots] /\ Len(old) = n /\ old[n].feed = "direct"
      /\ \A k \in 1 .. n - 1 : old[k].feed = "ams"
  BY <1>2 DEF SlotsOK
<1>5. CASE n = m
  <2>1. new = old
    BY <1>4, <1>5 DEF Rebuild
  <2> QED
    BY <1>1, <1>5, <2>1
<1>6. CASE n # m
  <2> DEFINE put(k) == IF k = m THEN old[n] ELSE IF k < n THEN old[k] ELSE Slot("ams", Default)
  <2>1. new = [k \in 1 .. m |-> put(k)]
    BY <1>4, <1>6 DEF Rebuild
  <2>2. \A k \in 1 .. m : put(k) \in Slots /\ put(k).feed = IF k = m THEN "direct" ELSE "ams"
    BY <1>2, <1>3, <1>4
  <2>3. \A k \in 1 .. PerUnit * u : k < n => put(k) = old[k]
    BY <1>2
  <2> HIDE DEF put, m
  <2>4. new \in [1 .. m -> Slots] /\ \A k \in 1 .. m : new[k] = put(k)
    BY <2>1, <2>2
  <2>5. SlotsOK(new, m)
    BY <1>2, <2>2, <2>4, AsSlots
  <2>6. \A k \in 1 .. PerUnit * u : k < n => new[k] = old[k]
    BY <1>2, <2>3, <2>4
  <2> QED
    BY <1>1, <2>5, <2>6 DEF m
<1> QED
  BY <1>5, <1>6

(* A report of a filament's own SKU and type, or of its type alone, is bound to a  *)
(* filament of that type; a binding it is consistent with is kept.                 *)
LEMMA ResolveType ==
    ASSUME NEW bound \in Idents \cup {None}, NEW t
    PROVE  /\ Resolve(bound, t) \in Idents \cup {None}
           /\ bound # None /\ MatchKeys(bound) = <<t.sku, t.type>> => Resolve(bound, t) = bound
<1>1. CASE bound # None /\ MatchKeys(bound) = <<t.sku, t.type>>
  BY <1>1 DEF Resolve
<1>2. CASE ~(bound # None /\ MatchKeys(bound) = <<t.sku, t.type>>)
  <2>1. CASE Cardinality(OfSku(t.sku)) = 1
    <3>1. \E f : OfSku(t.sku) = {f}
      <4>1. IsFiniteSet(OfSku(t.sku))
        <5>1. IsFiniteSet(DOMAIN Fragments)
          BY SpoolAssumption, Zenon
        <5>2. OfSku(t.sku) \in SUBSET DOMAIN Fragments
          BY DEF OfSku
        <5> QED
          BY <5>1, <5>2, FS_Subset
      <4> QED
        BY <2>1, <4>1, FS_Singleton, Zenon
    <3>2. (CHOOSE f \in OfSku(t.sku) : TRUE) \in DOMAIN Fragments
      BY <3>1 DEF OfSku
    <3> QED
      BY <1>2, <2>1, <3>2 DEF Resolve, Idents
  <2>2. CASE Cardinality(OfSku(t.sku)) # 1 /\ Labelled(t) # {}
    <3>1. (CHOOSE f \in Labelled(t) : TRUE) \in DOMAIN Fragments
      BY <2>2 DEF Labelled
    <3> QED
      BY <1>2, <2>2, <3>1 DEF Resolve, Idents
  <2>3. CASE Cardinality(OfSku(t.sku)) # 1 /\ Labelled(t) = {}
    <3>1. t.type \in Types => Generic[t.type] \in DOMAIN Fragments \cup {None}
      BY SpoolAssumption, Zenon DEF Types
    <3>2. Resolve(bound, t) = IF t.type \in Types THEN Generic[t.type] ELSE None
      BY <1>2, <2>3 DEF Resolve
    <3> QED
      BY <1>2, <3>1, <3>2 DEF Idents
  <2> QED
    BY <2>1, <2>2, <2>3
<1> QED
  BY <1>1, <1>2

LEMMA ResolveIsOfType ==
    ASSUME NEW bound \in Idents \cup {None}, NEW t, NEW g \in DOMAIN Fragments,
           t.sku = Fragments[g].sku, t.type = Fragments[g].type
    PROVE  LET f == Resolve(bound, t) IN f = None \/ MatchKeys(f)[2] = t.type
<1>0. \A f \in DOMAIN Fragments : MatchKeys(f) = <<Fragments[f].sku, Fragments[f].type>>
  BY DEF MatchKeys
<1>1. CASE bound # None /\ MatchKeys(bound) = <<t.sku, t.type>>
  BY <1>1 DEF Resolve
<1>2. CASE ~(bound # None /\ MatchKeys(bound) = <<t.sku, t.type>>)
  <2>1. CASE Cardinality(OfSku(t.sku)) = 1
    <3>1. \E f : OfSku(t.sku) = {f}
      <4>1. IsFiniteSet(OfSku(t.sku))
        <5>1. IsFiniteSet(DOMAIN Fragments)
          BY SpoolAssumption, Zenon
        <5>2. OfSku(t.sku) \in SUBSET DOMAIN Fragments
          BY DEF OfSku
        <5> QED
          BY <5>1, <5>2, FS_Subset
      <4> QED
        BY <2>1, <4>1, FS_Singleton, Zenon
    <3>2. g \in OfSku(t.sku)
      BY DEF OfSku
    <3>3. (CHOOSE f \in OfSku(t.sku) : TRUE) = g
      BY <3>1, <3>2
    <3>4. Resolve(bound, t) = g
      BY <1>2, <2>1, <3>3 DEF Resolve
    <3> QED
      BY <1>0, <3>4
  <2>2. CASE Cardinality(OfSku(t.sku)) # 1 /\ Labelled(t) # {}
    <3> DEFINE f == CHOOSE f \in Labelled(t) : TRUE
    <3>1. f \in DOMAIN Fragments /\ Fragments[f].type = t.type
      BY <2>2 DEF Labelled
    <3>2. Resolve(bound, t) = f
      BY <1>2, <2>2 DEF Resolve
    <3> QED
      BY <1>0, <3>1, <3>2
  <2>3. CASE Cardinality(OfSku(t.sku)) # 1 /\ Labelled(t) = {}
    <3>1. ASSUME t.type \in Types
          PROVE  Generic[t.type] = None
                 \/ (Generic[t.type] \in DOMAIN Fragments /\ Fragments[Generic[t.type]].type = t.type)
      BY <3>1, SpoolAssumption, Zenon DEF Types
    <3>2. Resolve(bound, t) = IF t.type \in Types THEN Generic[t.type] ELSE None
      BY <1>2, <2>3 DEF Resolve
    <3> QED
      BY <1>0, <3>1, <3>2
  <2> QED
    BY <2>1, <2>2, <2>3
<1> QED
  BY <1>1, <1>2

LEMMA FilledType ==
    ASSUME NEW place \in Slots, NEW spool \in Spools
    PROVE  /\ Filled(place, spool) \in Slots /\ Filled(place, spool).feed = place.feed
           /\ [Filled(place, spool) EXCEPT !.tag = ""] \in Slots
           /\ [Filled(place, spool) EXCEPT !.tag = ""].feed = place.feed
           /\ Filled(place, spool).ident = IF spool = None THEN None ELSE Resolve(place.ident, spool)
<1>1. /\ place.ident \in Idents \cup {None} /\ place.feed \in {"ams", "direct"}
      /\ place.color \in Words /\ place.tag \in Words
  BY DEF Slots
<1>2. "" \in Words /\ None \in Words
  BY DEF Words
<1>3. CASE spool = None
  <2>1. Filled(place, spool) = [place EXCEPT !.ident = None, !.color = None, !.tag = ""]
    BY <1>3 DEF Filled
  <2> QED
    BY <1>1, <1>2, <1>3, <2>1 DEF Slots
<1>4. CASE spool # None
  <2>1. spool.color \in Words /\ spool.tag \in Words
    BY <1>4 DEF Spools, Known, TrayFields
  <2>2. Resolve(place.ident, spool) \in Idents \cup {None}
    BY <1>1, ResolveType
  <2>3. Filled(place, spool) = [place EXCEPT !.ident = Resolve(place.ident, spool),
                                           !.color = spool.color, !.tag = spool.tag]
    BY <1>4 DEF Filled
  <2> HIDE DEF Spools
  <2> QED
    BY <1>1, <1>2, <1>4, <2>1, <2>2, <2>3 DEF Slots
<1> QED
  BY <1>3, <1>4

Status == [units : 0 .. MaxUnits, spool : [Trays -> Spools], external : Spools]

(* A sync makes the slots those of the status's units and fills each from its tray. *)
LEMMA SyncedSlots ==
    ASSUME NEW n \in Sizes, NEW old, SlotsOK(old, n), NEW st \in Status
    PROVE  /\ \E m \in Sizes : SlotsOK(Synced(old, st), m)
           /\ \A t \in TraysOf(st.units) : st.units > 0 =>
                Synced(old, st)[t + 1] = Filled(Rebuild(old, st.units)[t + 1], st.spool[t])
<1> DEFINE sized == IF st.units > 0 THEN Rebuild(old, st.units) ELSE old
           direct == CHOOSE k \in 1 .. Len(sized) : sized[k].feed = "direct"
           m == IF st.units > 0 THEN PerUnit * st.units + 1 ELSE n
           put(k) == IF sized[k].feed = "ams"
                       THEN IF k - 1 \in TraysOf(st.units) THEN Filled(sized[k], st.spool[k - 1])
                                                           ELSE sized[k]
                       ELSE IF k = direct /\ st.external # None
                              THEN [Filled(sized[k], st.external) EXCEPT !.tag = ""] ELSE sized[k]
<1>1. st.units \in 0 .. MaxUnits /\ st.spool \in [Trays -> Spools] /\ st.external \in Spools
  BY DEF Status
<1>2. m \in Sizes /\ SlotsOK(sized, m)
  BY <1>1, RebuildKeeps
<1>3. m \in Nat
  BY <1>2, SizeType
<1>4. TraysOf(st.units) \subseteq Trays
  BY <1>1, Whole
<1> HIDE DEF m
<1>5. Synced(old, st) = [k \in 1 .. m |-> put(k)]
  BY <1>2 DEF Synced, SlotsOK
<1> HIDE DEF sized, direct
<1>6. \A k \in 1 .. m : sized[k] \in Slots /\ sized[k].feed = IF k = m THEN "direct" ELSE "ams"
  BY <1>2 DEF SlotsOK
<1>7. ASSUME NEW k \in 1 .. m
      PROVE  put(k) \in Slots /\ put(k).feed = sized[k].feed
  <2>1. CASE k - 1 \in TraysOf(st.units) /\ sized[k].feed = "ams"
    <3>1. st.spool[k - 1] \in Spools
      BY <1>1, <1>4, <2>1
    <3> QED
      BY <1>6, <2>1, <3>1, FilledType
  <2>2. CASE sized[k].feed # "ams" /\ k = direct /\ st.external # None
    BY <1>1, <1>6, <2>2, FilledType
  <2> QED
    BY <1>6, <2>1, <2>2
<1> HIDE DEF put
<1>8. /\ Synced(old, st) \in [1 .. m -> Slots]
      /\ \A k \in 1 .. m : Synced(old, st)[k] = put(k)
  BY <1>5, <1>7
<1>9. SlotsOK(Synced(old, st), m)
  BY <1>3, <1>6, <1>7, <1>8, AsSlots
<1>10. ASSUME NEW t \in TraysOf(st.units), st.units > 0
       PROVE  Synced(old, st)[t + 1] = Filled(Rebuild(old, st.units)[t + 1], st.spool[t])
  <2>1. TraysOf(st.units) = 0 .. PerUnit * st.units - 1 /\ PerUnit * st.units \in Nat
    BY <1>1, Whole
  <2>2. m = PerUnit * st.units + 1 /\ sized = Rebuild(old, st.units)
    BY <1>10 DEF m, sized
  <2>3. PICK k \in 1 .. m : k = t + 1 /\ k # m /\ k - 1 = t
    BY <2>1, <2>2
  <2>4. sized[k].feed = "ams"
    BY <1>6, <2>3
  <2>5. put(k) = Filled(sized[k], st.spool[t])
    BY <2>3, <2>4 DEF put
  <2> QED
    BY <1>8, <2>2, <2>3, <2>5
<1> QED
  BY <1>2, <1>9, <1>10

-----------------------------------------------------------------------------
(* The invariant. *)

Accumulated == [units : 0 .. MaxUnits, tray : [Trays -> Heard], ext : Heard, engaged : BOOLEAN]
Picks == [slot : Nat \cup {None}, ident : Idents \cup {None}, color : Words,
          step : {"idle", "color", "push"}]

SpoolTypes ==
    /\ units \in 1 .. MaxUnits /\ engaged \in BOOLEAN
    /\ tray \in [Trays -> Known] /\ ext \in Known
    /\ acc \in Accumulated /\ amsStatus \in Status
    /\ \E n \in Sizes : SlotsOK(slots, n)
    /\ pick \in Picks
    /\ pick.step # "idle" => pick.slot \in Nat \ {0} /\ pick.ident \in Idents
    /\ held \in [Trays -> Idents \cup {None}]

(* What a tray says is of one filament, and of the one pushed for a pick, if any. *)
TraysFit ==
    \A t \in Trays : Real(tray[t]) /\ (held[t] # None => Fits(held[t], tray[t]))

(* Once there was a full report, whatever a report has yet to say is in unsent. *)
Reported ==
    acc.units > 0 =>
        \A t \in TraysOf(units), f \in TrayFields :
            <<t, f>> \in unsent \/ (t \in TraysOf(acc.units) /\ acc.tray[t][f] = tray[t][f])

SpoolInv == SpoolTypes /\ TraysFit /\ Reported

LEMMA SpoolStart == SpoolInit => SpoolInv
<1> SUFFICES ASSUME SpoolInit PROVE SpoolInv
  OBVIOUS
<1>0. MaxUnits \in Nat \ {0} /\ Default \in DOMAIN Fragments
  BY SpoolAssumption, Zenon
<1>1. EmptyTray \in Known /\ NoTray \in Heard
  BY DEF EmptyTray, NoTray, Known, Heard, Words
<1>2. units = 1 /\ 1 \in 1 .. MaxUnits /\ 0 \in 0 .. MaxUnits
  BY <1>0 DEF SpoolInit
<1>3. tray \in [Trays -> Known] /\ ext \in Known /\ \A t \in Trays : tray[t] = EmptyTray
  BY <1>1 DEF SpoolInit
<1>4. acc \in Accumulated /\ acc.units = 0
  BY <1>1, <1>2 DEF SpoolInit, Accumulated
<1>5. amsStatus \in Status
  BY <1>2 DEF SpoolInit, Status, Spools
<1>6. \E n \in Sizes : SlotsOK(slots, n)
  <2>1. /\ Slot("direct", Default) \in Slots /\ Slot("direct", Default).feed = "direct"
        /\ Slot("ams", Default) \in Slots /\ Slot("ams", Default).feed = "ams"
    BY <1>0 DEF Slot, Slots, Idents, Words
  <2> DEFINE old == <<Slot("direct", Default)>>
             n == PerUnit * 1 + 1
             put(k) == IF k = n THEN old[1] ELSE Slot("ams", Default)
  <2>2. n \in Sizes
    BY <1>2 DEF Sizes
  <2>3. n \in Nat /\ n >= 2
    BY <2>2, SizeType
  <2>4. Len(old) = 1 /\ old[1] = Slot("direct", Default)
    OBVIOUS
  <2>5. slots = Rebuild(old, 1)
    BY DEF SpoolInit
  <2> HIDE DEF old
  <2>6. slots = [k \in 1 .. n |-> IF k = n THEN old[1] ELSE IF k < 1 THEN old[k] ELSE Slot("ams", Default)]
    BY <2>3, <2>4, <2>5 DEF Rebuild
  <2> HIDE DEF n
  <2>7. slots = [k \in 1 .. n |-> put(k)]
    BY <2>6
  <2>8. \A k \in 1 .. n : put(k) \in Slots /\ put(k).feed = IF k = n THEN "direct" ELSE "ams"
    BY <2>1, <2>4
  <2> HIDE DEF put
  <2>9. slots \in [1 .. n -> Slots] /\ \A k \in 1 .. n : slots[k] = put(k)
    BY <2>7, <2>8
  <2>10. SlotsOK(slots, n)
    BY <2>3, <2>8, <2>9, AsSlots
  <2> QED
    BY <2>2, <2>10
<1>7. pick = NoPick /\ pick \in Picks /\ pick.step = "idle"
  BY DEF SpoolInit, NoPick, Picks, Words
<1>8. held \in [Trays -> Idents \cup {None}] /\ \A t \in Trays : held[t] = None
  BY DEF SpoolInit
<1>9. engaged \in BOOLEAN
  BY DEF SpoolInit
<1>10. SpoolTypes
  BY <1>2, <1>3, <1>4, <1>5, <1>6, <1>7, <1>8, <1>9 DEF SpoolTypes
<1>11. TraysFit
  BY <1>3, <1>8 DEF TraysFit, Real
<1>12. Reported
  BY <1>4 DEF Reported
<1> QED
  BY <1>10, <1>11, <1>12 DEF SpoolInv

(* One tray is set, to nothing or to a filament; held follows. *)
LEMMA SetKeeps ==
    ASSUME SpoolInv, NEW t \in Trays, NEW r \in Known, Real(r), SetTray(t, r),
           units' = units, acc' = acc,
           NEW h \in Idents \cup {None}, held' = [held EXCEPT ![t] = h],
           h # None => Fits(h, r)
    PROVE  /\ tray' \in [Trays -> Known] /\ held' \in [Trays -> Idents \cup {None}]
           /\ TraysFit' /\ Reported'
<1>1. /\ tray \in [Trays -> Known] /\ held \in [Trays -> Idents \cup {None}]
      /\ units \in 0 .. MaxUnits
  BY DEF SpoolInv, SpoolTypes
<1>2. /\ tray' = [tray EXCEPT ![t] = r]
      /\ unsent' = unsent \cup {<<t, f>> : f \in {g \in TrayFields : tray[t][g] # r[g]}}
  BY DEF SetTray
<1>3. /\ tray' \in [Trays -> Known] /\ held' \in [Trays -> Idents \cup {None}]
      /\ tray'[t] = r /\ held'[t] = h
      /\ \A x \in Trays \ {t} : tray'[x] = tray[x] /\ held'[x] = held[x]
  BY <1>1, <1>2
<1>4. TraysFit'
  <2>1. \A x \in Trays : Real(tray'[x]) /\ (held'[x] # None => Fits(held'[x], tray'[x]))
    BY <1>3 DEF SpoolInv, TraysFit
  <2> QED
    BY <2>1 DEF TraysFit
<1>5. Reported'
  <2> SUFFICES ASSUME acc.units > 0, NEW x \in TraysOf(units), NEW f \in TrayFields,
                      <<x, f>> \notin unsent'
               PROVE  x \in TraysOf(acc.units) /\ acc.tray[x][f] = tray'[x][f]
    BY DEF Reported, TraysOf
  <2>1. x \in TraysOf(acc.units) /\ acc.tray[x][f] = tray[x][f]
    BY <1>2 DEF SpoolInv, Reported
  <2>2. x \in Trays
    BY <1>1, Whole
  <2>3. tray'[x][f] = tray[x][f]
    <3>1. CASE x = t
      BY <1>2, <1>3, <3>1
    <3>2. CASE x # t
      BY <1>3, <2>2, <3>2
    <3> QED
      BY <3>1, <3>2
  <2> QED
    BY <2>1, <2>3
<1> QED
  BY <1>3, <1>4, <1>5

(* What the types say of the variables that stay the same carries over. *)
LEMMA SetStays ==
    ASSUME SpoolInv, UNCHANGED <<units, ext, engaged, acc, amsStatus, slots>>,
           pick' \in Picks, pick'.step = "idle" \/ pick' = pick,
           tray' \in [Trays -> Known], held' \in [Trays -> Idents \cup {None}],
           TraysFit', Reported'
    PROVE  SpoolInv'
<1>1. /\ units' \in 1 .. MaxUnits /\ ext' \in Known /\ acc' \in Accumulated
      /\ amsStatus' \in Status
  BY DEF SpoolInv, SpoolTypes
<1>2. engaged' \in BOOLEAN
  BY DEF SpoolInv, SpoolTypes
<1>3. \E n \in Sizes : SlotsOK(slots', n)
  BY DEF SpoolInv, SpoolTypes
<1>4. pick'.step # "idle" => pick'.slot \in Nat \ {0} /\ pick'.ident \in Idents
  BY DEF SpoolInv, SpoolTypes
<1>5. SpoolTypes'
  BY <1>1, <1>2, <1>3, <1>4 DEF SpoolTypes
<1> QED
  BY <1>5 DEF SpoolInv

LEMMA TrayActs ==
    ASSUME SpoolInv, NEW t \in Trays, NEW f \in DOMAIN Fragments,
           Unload(t) \/ LoadTagged(t, f) \/ SetOnPrinter(t, f)
    PROVE  SpoolInv'
<1>1. tray[t] \in Known /\ "" \in Words /\ "red" \in Words /\ "tag" \in Words
  BY DEF SpoolInv, SpoolTypes, Words
<1>2. \E r \in Known : Real(r) /\ SetTray(t, r)
  <2>1. CASE Unload(t)
    <3>1. EmptyTray \in Known
      BY <1>1 DEF EmptyTray, Known
    <3> QED
      BY <2>1, <3>1 DEF Unload, Real
  <2>2. CASE LoadTagged(t, f)
    <3> DEFINE r == [SettingOf(f, "red") EXCEPT !.tag = "tag"]
    <3>1. r \in Known /\ Fits(f, r)
      BY <1>1, SettingType
    <3>2. SetTray(t, r)
      BY <2>2 DEF LoadTagged
    <3> HIDE DEF r
    <3>3. Real(r)
      BY <3>1, FitsIsReal DEF Idents
    <3> QED
      BY <3>1, <3>2, <3>3
  <2>3. CASE SetOnPrinter(t, f)
    <3>1. PICK sub \in {"", tray[t].sub} : SetTray(t, [SettingOf(f, "red") EXCEPT !.sub = sub])
      BY <2>3 DEF SetOnPrinter
    <3>2. sub \in Words
      BY <1>1 DEF Known, TrayFields
    <3> DEFINE r == [SettingOf(f, "red") EXCEPT !.sub = sub]
    <3>3. r \in Known /\ Fits(f, r)
      BY <1>1, <3>2, SettingType
    <3>4. SetTray(t, r)
      BY <3>1
    <3> HIDE DEF r
    <3>5. Real(r)
      BY <3>3, FitsIsReal DEF Idents
    <3> QED
      BY <3>3, <3>4, <3>5
  <2> QED
    BY <2>1, <2>2, <2>3
<1>3. PICK r \in Known : Real(r) /\ SetTray(t, r)
  BY <1>2
<1>4. /\ held' = [held EXCEPT ![t] = None]
      /\ UNCHANGED <<units, ext, engaged, acc, amsStatus, slots, pick>>
  BY DEF Unload, LoadTagged, SetOnPrinter
<1>5. /\ tray' \in [Trays -> Known] /\ held' \in [Trays -> Idents \cup {None}]
      /\ TraysFit' /\ Reported'
  BY <1>3, <1>4, SetKeeps
<1>6. pick' \in Picks
  BY <1>4 DEF SpoolInv, SpoolTypes
<1> QED
  BY <1>4, <1>5, <1>6, SetStays

(* The printer's own acts that set no tray. *)
LEMMA ExternalActs ==
    ASSUME SpoolInv, (\E f \in DOMAIN Fragments : UseExternal(f)) \/ ReleaseExternal
    PROVE  SpoolInv'
<1>1. UNCHANGED <<units, tray, acc, amsStatus, slots, pick, held>>
  BY DEF UseExternal, ReleaseExternal
<1>2. ext' \in Known
  <2>1. CASE \E f \in DOMAIN Fragments : UseExternal(f)
    <3>1. PICK f \in DOMAIN Fragments : ext' = [SettingOf(f, "red") EXCEPT !.sub = ""]
      BY <2>1 DEF UseExternal
    <3>2. "" \in Words /\ "red" \in Words
      BY DEF Words
    <3> QED
      BY <3>1, <3>2, SettingType
  <2>2. CASE ReleaseExternal
    BY <2>2 DEF ReleaseExternal, SpoolInv, SpoolTypes
  <2> QED
    BY <2>1, <2>2
<1>3. engaged' \in BOOLEAN
  BY DEF UseExternal, ReleaseExternal
<1>4. \A x \in unsent : x \in unsent'
  BY DEF UseExternal, ReleaseExternal
<1>5. SpoolTypes'
  <2>1. /\ units' \in 1 .. MaxUnits /\ tray' \in [Trays -> Known] /\ acc' \in Accumulated
        /\ amsStatus' \in Status /\ held' \in [Trays -> Idents \cup {None}] /\ pick' \in Picks
        /\ pick'.step # "idle" => pick'.slot \in Nat \ {0} /\ pick'.ident \in Idents
    BY <1>1 DEF SpoolInv, SpoolTypes
  <2>2. \E n \in Sizes : SlotsOK(slots', n)
    BY <1>1 DEF SpoolInv, SpoolTypes
  <2> QED
    BY <1>2, <1>3, <2>1, <2>2 DEF SpoolTypes
<1>6. TraysFit'
  BY <1>1 DEF SpoolInv, TraysFit
<1>7. Reported'
  BY <1>1, <1>4 DEF SpoolInv, Reported
<1> QED
  BY <1>5, <1>6, <1>7 DEF SpoolInv

LEMMA AttachKeeps ==
    ASSUME SpoolInv, AttachUnit
    PROVE  SpoolInv'
<1>1. /\ units < MaxUnits /\ units' = units + 1
      /\ UNCHANGED <<tray, ext, engaged, acc, amsStatus, slots, pick, held>>
      /\ unsent' = unsent \cup {<<t, f>> : t \in TraysOf(units + 1) \ TraysOf(units), f \in TrayFields}
  BY DEF AttachUnit
<1>2. SpoolTypes'
  <2>1. units' \in 1 .. MaxUnits
    <3>1. units \in 1 .. MaxUnits
      BY DEF SpoolInv, SpoolTypes
    <3>2. MaxUnits \in Nat \ {0}
      BY SpoolAssumption, Zenon
    <3> QED
      BY <1>1, <3>1, <3>2
  <2>2. /\ ext' \in Known /\ tray' \in [Trays -> Known] /\ acc' \in Accumulated
        /\ amsStatus' \in Status /\ held' \in [Trays -> Idents \cup {None}] /\ pick' \in Picks
        /\ pick'.step # "idle" => pick'.slot \in Nat \ {0} /\ pick'.ident \in Idents
    BY <1>1 DEF SpoolInv, SpoolTypes
  <2>3. \E n \in Sizes : SlotsOK(slots', n)
    BY <1>1 DEF SpoolInv, SpoolTypes
  <2>4. engaged' \in BOOLEAN
    BY <1>1 DEF SpoolInv, SpoolTypes
  <2> QED
    BY <2>1, <2>2, <2>3, <2>4 DEF SpoolTypes
<1>3. TraysFit'
  BY <1>1 DEF SpoolInv, TraysFit
<1>4. Reported'
  <2> SUFFICES ASSUME acc.units > 0, NEW t \in TraysOf(units'), NEW f \in TrayFields,
                      <<t, f>> \notin unsent'
               PROVE  t \in TraysOf(acc.units) /\ acc.tray[t][f] = tray[t][f]
    BY <1>1 DEF Reported, TraysOf
  <2>1. t \in TraysOf(units) /\ <<t, f>> \notin unsent
    BY <1>1
  <2> QED
    BY <2>1 DEF SpoolInv, Reported
<1> QED
  BY <1>2, <1>3, <1>4 DEF SpoolInv

(* A full report or an incremental one; either leaves nothing unsaid. *)
LEMMA PushKeeps ==
    ASSUME SpoolInv, NEW patch \in [Trays -> Heard], NEW vt \in Heard, Push(patch, vt),
           \A t \in TraysOf(units), f \in TrayFields :
              \/ patch[t][f] = tray[t][f]
              \/ patch[t][f] = Omit /\ t \in TraysOf(acc.units) /\ acc.tray[t][f] = tray[t][f]
    PROVE  SpoolInv'
<1>1. UNCHANGED <<units, tray, ext, engaged, amsStatus, slots, pick, held>>
  BY DEF Push, printerVars
<1>2. /\ units \in 1 .. MaxUnits /\ acc \in Accumulated /\ tray \in [Trays -> Known]
      /\ engaged \in BOOLEAN
  BY DEF SpoolInv, SpoolTypes
<1>3. TraysOf(units) \subseteq Trays
  BY <1>2, Whole
<1> DEFINE more == IF units > acc.units THEN units ELSE acc.units
           put(t) == IF t \in TraysOf(units) THEN TrayMerge(acc.tray[t], patch[t]) ELSE acc.tray[t]
<1>4. /\ acc.units \in 0 .. MaxUnits /\ acc.tray \in [Trays -> Heard] /\ acc.ext \in Heard
  BY <1>2 DEF Accumulated
<1>5. acc' = [[acc EXCEPT !.units = more, !.engaged = engaged, !.tray = [t \in Trays |-> put(t)]]
               EXCEPT !.ext = TrayMerge(acc.ext, vt)]
  BY DEF Push, AmsMerge
<1>6. \A t \in Trays : put(t) \in Heard
  BY <1>4, MergeType
<1>7. TrayMerge(acc.ext, vt) \in Heard
  BY <1>4, MergeType
<1>8. more \in 0 .. MaxUnits /\ more >= units
  BY <1>2, <1>4
<1> HIDE DEF put, more
<1>9. [t \in Trays |-> put(t)] \in [Trays -> Heard]
  BY <1>6
<1>10. acc' \in Accumulated
  BY <1>2, <1>5, <1>7, <1>8, <1>9 DEF Accumulated
<1>11. acc'.units = more /\ \A t \in Trays : acc'.tray[t] = put(t)
  BY <1>2, <1>5 DEF Accumulated
<1>12. SpoolTypes'
  <2>1. /\ units' \in 1 .. MaxUnits /\ ext' \in Known /\ tray' \in [Trays -> Known]
        /\ amsStatus' \in Status /\ held' \in [Trays -> Idents \cup {None}] /\ pick' \in Picks
        /\ pick'.step # "idle" => pick'.slot \in Nat \ {0} /\ pick'.ident \in Idents
    BY <1>1 DEF SpoolInv, SpoolTypes
  <2>2. \E n \in Sizes : SlotsOK(slots', n)
    BY <1>1 DEF SpoolInv, SpoolTypes
  <2>3. engaged' \in BOOLEAN
    BY <1>1, <1>2
  <2> QED
    BY <1>10, <2>1, <2>2, <2>3 DEF SpoolTypes
<1>13. TraysFit'
  BY <1>1 DEF SpoolInv, TraysFit
<1>14. Reported'
  <2>1. TraysOf(units) \subseteq TraysOf(more)
    BY <1>2, <1>8, Whole
  <2>2. ASSUME NEW t \in TraysOf(units), NEW f \in TrayFields
        PROVE  t \in TraysOf(more) /\ acc'.tray[t][f] = tray[t][f]
    <3>1. t \in Trays /\ acc.tray[t] \in Heard /\ patch[t] \in Heard
      BY <1>3, <1>4
    <3>2. acc'.tray[t] = TrayMerge(acc.tray[t], patch[t])
      BY <1>11, <3>1 DEF put
    <3>3. TrayMerge(acc.tray[t], patch[t])[f]
            = IF patch[t][f] = Omit THEN acc.tray[t][f] ELSE patch[t][f]
      BY <3>1, MergeType
    <3>4. tray[t][f] # Omit
      BY <1>2, <3>1, WordsAssumption DEF Known
    <3> QED
      BY <2>1, <3>2, <3>3, <3>4
  <2> QED
    BY <1>1, <1>11, <2>2 DEF Reported, TraysOf
<1> QED
  BY <1>12, <1>13, <1>14 DEF SpoolInv

LEMMA ReportActs ==
    ASSUME SpoolInv, PushFull \/ PushDelta
    PROVE  SpoolInv'
<1>1. /\ units \in 1 .. MaxUnits /\ tray \in [Trays -> Known] /\ ext \in Known
      /\ Known \subseteq Heard
  BY DEF SpoolInv, SpoolTypes, Known, Heard
<1>2. TraysOf(units) \subseteq Trays
  BY <1>1, Whole
<1>3. CASE PushFull
  <2>1. tray \in [Trays -> Heard] /\ ext \in Heard /\ Push(tray, ext)
    BY <1>1, <1>3 DEF PushFull
  <2> QED
    BY <2>1, PushKeeps
<1>4. CASE PushDelta
  <2> DEFINE one(t) == [f \in TrayFields |-> IF <<t, f>> \in unsent THEN tray[t][f] ELSE Omit]
             patch == [t \in Trays |-> one(t)]
             vt == [f \in TrayFields |-> IF <<External, f>> \in unsent THEN ext[f] ELSE Omit]
  <2>1. acc.units > 0 /\ Push(patch, vt)
    BY <1>4 DEF PushDelta
  <2>2. vt \in Heard /\ \A t \in Trays : one(t) \in Heard
    BY <1>1 DEF Known, Heard
  <2>3. \A t \in Trays, f \in TrayFields :
          patch[t][f] = IF <<t, f>> \in unsent THEN tray[t][f] ELSE Omit
    OBVIOUS
  <2>4. patch \in [Trays -> Heard]
    BY <2>2
  <2> HIDE DEF patch, vt, one
  <2>5. \A t \in TraysOf(units), f \in TrayFields :
          \/ patch[t][f] = tray[t][f]
          \/ patch[t][f] = Omit /\ t \in TraysOf(acc.units) /\ acc.tray[t][f] = tray[t][f]
    BY <1>2, <2>1, <2>3 DEF SpoolInv, Reported
  <2> QED
    BY <2>1, <2>2, <2>4, <2>5, PushKeeps
<1> QED
  BY <1>3, <1>4

LEMMA FlushKeeps ==
    ASSUME SpoolInv, Flush
    PROVE  SpoolInv'
<1>1. amsStatus' = Lower(acc) /\ UNCHANGED <<units, tray, ext, engaged, unsent, acc, slots, pick, held>>
  BY DEF Flush, printerVars
<1>2. acc.units \in 0 .. MaxUnits /\ acc.tray \in [Trays -> Heard] /\ acc.ext \in Heard
  BY DEF SpoolInv, SpoolTypes, Accumulated
<1>3. Lower(acc) \in Status
  <2> DEFINE said(t) == IF t \in TraysOf(acc.units) THEN Identity(acc.tray[t]) ELSE None
             outside == IF acc.engaged THEN Identity(acc.ext) ELSE None
  <2>1. \A t \in Trays : said(t) \in Spools
    BY <1>2, IdentityType DEF Spools
  <2>2. outside \in Spools
    BY <1>2, IdentityType DEF Spools
  <2>3. Lower(acc) = [units |-> acc.units, external |-> outside, spool |-> [t \in Trays |-> said(t)]]
    BY DEF Lower
  <2> HIDE DEF said, outside
  <2> QED
    BY <1>2, <2>1, <2>2, <2>3 DEF Status
<1>4. SpoolTypes'
  <2>1. /\ units' \in 1 .. MaxUnits /\ ext' \in Known /\ tray' \in [Trays -> Known]
        /\ acc' \in Accumulated /\ held' \in [Trays -> Idents \cup {None}] /\ pick' \in Picks
        /\ pick'.step # "idle" => pick'.slot \in Nat \ {0} /\ pick'.ident \in Idents
    BY <1>1 DEF SpoolInv, SpoolTypes
  <2>2. \E n \in Sizes : SlotsOK(slots', n)
    BY <1>1 DEF SpoolInv, SpoolTypes
  <2>3. engaged' \in BOOLEAN
    BY <1>1 DEF SpoolInv, SpoolTypes
  <2> QED
    BY <1>1, <1>3, <2>1, <2>2, <2>3 DEF SpoolTypes
<1>5. TraysFit'
  BY <1>1 DEF SpoolInv, TraysFit
<1>6. Reported'
  BY <1>1 DEF SpoolInv, Reported
<1> QED
  BY <1>4, <1>5, <1>6 DEF SpoolInv

(* The slots change, what the printer has and what was heard of it do not. *)
LEMMA SlotsChange ==
    ASSUME SpoolInv, UNCHANGED <<units, tray, ext, engaged, unsent, acc, amsStatus, held>>,
           \E n \in Sizes : SlotsOK(slots', n), pick' \in Picks,
           pick'.step # "idle" => pick'.slot \in Nat \ {0} /\ pick'.ident \in Idents
    PROVE  SpoolInv'
<1>1. /\ units' \in 1 .. MaxUnits /\ ext' \in Known /\ tray' \in [Trays -> Known]
      /\ acc' \in Accumulated /\ amsStatus' \in Status /\ held' \in [Trays -> Idents \cup {None}]
  BY DEF SpoolInv, SpoolTypes
<1>2. engaged' \in BOOLEAN
  BY DEF SpoolInv, SpoolTypes
<1>3. SpoolTypes'
  BY <1>1, <1>2 DEF SpoolTypes
<1>4. TraysFit'
  BY DEF SpoolInv, TraysFit
<1>5. Reported'
  BY DEF SpoolInv, Reported
<1> QED
  BY <1>3, <1>4, <1>5 DEF SpoolInv

LEMMA ResizeActs ==
    ASSUME SpoolInv, Sync \/ \E u \in 1 .. MaxUnits : ResizeByHand(u)
    PROVE  SpoolInv'
<1>1. PICK n \in Sizes : SlotsOK(slots, n)
  BY DEF SpoolInv, SpoolTypes
<1>2. \E m \in Sizes : SlotsOK(slots', m)
  <2>1. CASE Sync
    <3>1. amsStatus \in Status /\ slots' = Synced(slots, amsStatus)
      BY <2>1 DEF Sync, SpoolInv, SpoolTypes
    <3> QED
      BY <1>1, <3>1, SyncedSlots
  <2>2. CASE \E u \in 1 .. MaxUnits : ResizeByHand(u)
    <3>1. PICK u \in 1 .. MaxUnits : slots' = Rebuild(slots, u)
      BY <2>2 DEF ResizeByHand
    <3> QED
      BY <1>1, <3>1, RebuildKeeps
  <2> QED
    BY <2>1, <2>2
<1>3. UNCHANGED <<units, tray, ext, engaged, unsent, acc, amsStatus, held, pick>>
  BY DEF Sync, ResizeByHand, printerVars
<1>4. /\ pick' \in Picks
      /\ pick'.step # "idle" => pick'.slot \in Nat \ {0} /\ pick'.ident \in Idents
  BY <1>3 DEF SpoolInv, SpoolTypes
<1> QED
  BY <1>2, <1>3, <1>4, SlotsChange

(* One slot gets another filament or color. *)
LEMMA SlotSet ==
    ASSUME NEW n \in Sizes, NEW sl, SlotsOK(sl, n), NEW k \in 1 .. n, NEW s \in Slots,
           s.feed = sl[k].feed
    PROVE  SlotsOK([sl EXCEPT ![k] = s], n)
<1>1. n \in Nat
  BY SizeType
<1>2. sl \in [1 .. n -> Slots] /\ \A j \in 1 .. n : sl[j].feed = IF j = n THEN "direct" ELSE "ams"
  BY DEF SlotsOK
<1> DEFINE new == [sl EXCEPT ![k] = s]
<1>3. new \in [1 .. n -> Slots]
  BY <1>2
<1>4. \A j \in 1 .. n : new[j].feed = IF j = n THEN "direct" ELSE "ams"
  BY <1>2
<1> HIDE DEF new
<1>5. SlotsOK(new, n)
  BY <1>1, <1>3, <1>4, AsSlots
<1> QED
  BY <1>5 DEF new

LEMMA PickActs ==
    ASSUME SpoolInv,
           PickColor \/ \E k \in 1 .. PerUnit * MaxUnits + 1, c \in Colors, f \in Idents : StartPick(k, f, c)
    PROVE  SpoolInv'
<1>1. PICK n \in Sizes : SlotsOK(slots, n)
  BY DEF SpoolInv, SpoolTypes
<1>2. n \in Nat /\ slots \in [1 .. n -> Slots] /\ Len(slots) = n
  BY <1>1, SizeType DEF SlotsOK
<1>3. CASE PickColor
  <2>1. /\ pick.step = "color" /\ pick \in Picks /\ pick.slot \in Nat \ {0} /\ pick.ident \in Idents
        /\ pick.color \in Words
    BY <1>3 DEF PickColor, SpoolInv, SpoolTypes, Picks
  <2>2. pick' = [pick EXCEPT !.step = "push"]
        /\ UNCHANGED <<units, tray, ext, engaged, unsent, acc, amsStatus, held>>
    BY <1>3 DEF PickColor, printerVars
  <2>3. pick' \in Picks /\ pick'.slot \in Nat \ {0} /\ pick'.ident \in Idents
    BY <2>1, <2>2 DEF Picks
  <2>4. \E m \in Sizes : SlotsOK(slots', m)
    <3>1. CASE pick.slot <= Len(slots)
      <4>1. slots' = [slots EXCEPT ![pick.slot].color = pick.color]
        BY <1>3, <3>1 DEF PickColor
      <4>2. pick.slot \in 1 .. n
        BY <1>2, <2>1, <3>1
      <4> DEFINE s == [slots[pick.slot] EXCEPT !.color = pick.color]
      <4>3. s \in Slots /\ s.feed = slots[pick.slot].feed
        BY <1>2, <2>1, <4>2 DEF Slots
      <4>4. slots' = [slots EXCEPT ![pick.slot] = s]
        BY <4>1
      <4> HIDE DEF s
      <4> QED
        BY <1>1, <4>2, <4>3, <4>4, SlotSet
    <3>2. CASE ~(pick.slot <= Len(slots))
      BY <1>1, <1>3, <3>2 DEF PickColor
    <3> QED
      BY <3>1, <3>2
  <2> QED
    BY <2>2, <2>3, <2>4, SlotsChange
<1>4. ASSUME NEW k \in 1 .. PerUnit * MaxUnits + 1, NEW c \in Colors, NEW f \in Idents,
             StartPick(k, f, c)
      PROVE  SpoolInv'
  <2>1. /\ k \in 1 .. n /\ slots' = [slots EXCEPT ![k].ident = f]
        /\ pick' = [slot |-> k, ident |-> f, color |-> c, step |-> "color"]
        /\ UNCHANGED <<units, tray, ext, engaged, unsent, acc, amsStatus, held>>
    BY <1>2, <1>4 DEF StartPick, printerVars
  <2>2. k \in Nat \ {0} /\ k \in 1 .. n
    BY <1>2, <2>1
  <2>3. c \in Words /\ k \in Nat \cup {None} /\ f \in Idents \cup {None}
    BY <2>2 DEF Words
  <2>4. pick' \in Picks /\ pick'.slot = k /\ pick'.ident = f
    BY <2>1, <2>3 DEF Picks
  <2>5. \E m \in Sizes : SlotsOK(slots', m)
    <3> DEFINE s == [slots[k] EXCEPT !.ident = f]
    <3>1. s \in Slots /\ s.feed = slots[k].feed
      BY <1>2, <2>2 DEF Slots
    <3>2. slots' = [slots EXCEPT ![k] = s]
      BY <2>1
    <3> HIDE DEF s
    <3>3. SlotsOK(slots', n)
      BY <1>1, <2>2, <3>1, <3>2, SlotSet
    <3> QED
      BY <3>3
  <2>6. pick'.slot \in Nat \ {0} /\ pick'.ident \in Idents
    BY <2>2, <2>4
  <2> QED
    BY <2>1, <2>4, <2>5, <2>6, SlotsChange
<1> QED
  BY <1>3, <1>4

LEMMA PushPickKeeps ==
    ASSUME SpoolInv, PushPick
    PROVE  SpoolInv'
<1>1. PICK n \in Sizes : SlotsOK(slots, n)
  BY DEF SpoolInv, SpoolTypes
<1>2. n \in Nat /\ slots \in [1 .. n -> Slots] /\ Len(slots) = n
  BY <1>1, SizeType DEF SlotsOK
<1>3. /\ pick.step = "push" /\ pick' = NoPick
      /\ UNCHANGED <<units, ext, engaged, acc, amsStatus, slots>>
  BY DEF PushPick
<1>4. pick' \in Picks /\ pick'.step = "idle"
  BY <1>3 DEF NoPick, Picks, Words
<1>5. /\ units \in 1 .. MaxUnits /\ tray \in [Trays -> Known] /\ pick.slot \in Nat \ {0}
      /\ pick.ident \in Idents /\ held \in [Trays -> Idents \cup {None}]
  BY <1>3 DEF SpoolInv, SpoolTypes
<1> DEFINE k == pick.slot
           t == k - 1
<1>6. CASE /\ Pushable(k)
           /\ SetTray(t, [SettingOf(slots[k].ident, slots[k].color) EXCEPT !.tag = tray[t].tag])
           /\ held' = [held EXCEPT ![t] = IF pick.ident = slots[k].ident THEN pick.ident ELSE None]
  <2>1. /\ k \in 1 .. n /\ slots[k].ident \in DOMAIN Fragments /\ t \in TraysOf(units)
    <3>1. k <= Len(slots) /\ slots[k].ident \in DOMAIN Fragments /\ k - 1 \in TraysOf(units)
      BY <1>6 DEF Pushable
    <3> HIDE DEF k
    <3>2. k \in Nat \ {0}
      BY <1>5 DEF k
    <3> QED
      BY <1>2, <3>1, <3>2
  <2>2. t \in Trays
    BY <1>5, <2>1, Whole
  <2>3. slots[k].color \in Words /\ tray[t].tag \in Words
    BY <1>2, <1>5, <2>1, <2>2 DEF Slots, Known, TrayFields
  <2> DEFINE r == [SettingOf(slots[k].ident, slots[k].color) EXCEPT !.tag = tray[t].tag]
             h == IF pick.ident = slots[k].ident THEN pick.ident ELSE None
  <2>4. r \in Known /\ Fits(slots[k].ident, r)
    BY <2>1, <2>3, SettingType
  <2>5. SetTray(t, r) /\ held' = [held EXCEPT ![t] = h]
    BY <1>6
  <2>6. h \in Idents \cup {None} /\ (h # None => h = slots[k].ident)
    BY <1>5
  <2> HIDE DEF r, h, k, t
  <2>7. Real(r)
    BY <2>1, <2>4, FitsIsReal DEF Idents
  <2>8. h # None => Fits(h, r)
    BY <2>4, <2>6
  <2>9. /\ tray' \in [Trays -> Known] /\ held' \in [Trays -> Idents \cup {None}]
        /\ TraysFit' /\ Reported'
    BY <1>3, <2>2, <2>4, <2>5, <2>6, <2>7, <2>8, SetKeeps
  <2> QED
    BY <1>3, <1>4, <2>9, SetStays
<1>7. CASE /\ UNCHANGED <<tray, unsent>>
           /\ held' = IF t \notin Trays THEN held
                      ELSE [held EXCEPT ![t] =
                             IF /\ k <= Len(slots) /\ slots[k].ident = pick.ident
                                /\ Fragments[Base(pick.ident)].sku = tray[t].sku
                                /\ Fragments[Base(pick.ident)].type = tray[t].type
                               THEN pick.ident ELSE None]
  <2> HIDE DEF k, t
  <2>1. /\ held' \in [Trays -> Idents \cup {None}]
        /\ \A x \in Trays : held'[x] # None => held'[x] = held[x] \/ Fits(held'[x], tray[x])
    <3>1. CASE t \notin Trays
      BY <1>5, <1>7, <3>1
    <3>2. CASE t \in Trays
      <4> DEFINE h == IF k <= Len(slots) /\ slots[k].ident = pick.ident /\ Fits(pick.ident, tray[t])
                        THEN pick.ident ELSE None
      <4>1. held' = [held EXCEPT ![t] = h]
        BY <1>7, <3>2 DEF Fits
      <4>2. h \in Idents \cup {None} /\ (h # None => Fits(h, tray[t]))
        BY <1>5
      <4> HIDE DEF h
      <4> QED
        BY <1>5, <3>2, <4>1, <4>2
    <3> QED
      BY <3>1, <3>2
  <2>2. tray' = tray /\ unsent' = unsent
    BY <1>7
  <2>3. TraysFit'
    BY <2>1, <2>2 DEF SpoolInv, TraysFit
  <2>4. Reported'
    BY <1>3, <2>2 DEF SpoolInv, Reported
  <2>5. tray' \in [Trays -> Known]
    BY <1>5, <2>2
  <2> QED
    BY <1>3, <1>4, <2>1, <2>3, <2>4, <2>5, SetStays
<1> QED
  BY <1>6, <1>7 DEF PushPick

LEMMA SpoolStep ==
    ASSUME SpoolInv, [SpoolUserActs \/ SpoolSteps]_spoolVars
    PROVE  SpoolInv'
<1>1. CASE UNCHANGED spoolVars
  <2>1. /\ UNCHANGED <<units, tray, ext, engaged, unsent, acc, amsStatus, held>>
        /\ slots' = slots /\ pick' = pick
    BY <1>1 DEF spoolVars
  <2>2. /\ \E n \in Sizes : SlotsOK(slots', n)
        /\ pick' \in Picks
        /\ pick'.step # "idle" => pick'.slot \in Nat \ {0} /\ pick'.ident \in Idents
    BY <2>1 DEF SpoolInv, SpoolTypes
  <2> QED
    BY <2>1, <2>2, SlotsChange
<1>2. CASE SpoolUserActs
  <2>1. Default \in DOMAIN Fragments /\ Tagged \subseteq DOMAIN Fragments
    BY SpoolAssumption, Zenon
  <2>2. ASSUME NEW t \in Trays, Unload(t) PROVE SpoolInv'
    BY <2>1, <2>2, TrayActs
  <2>3. ASSUME NEW t \in Trays, NEW f \in DOMAIN Fragments, LoadTagged(t, f) \/ SetOnPrinter(t, f)
        PROVE  SpoolInv'
    BY <2>3, TrayActs
  <2>4. ASSUME NEW k \in 1 .. PerUnit * MaxUnits + 1, NEW c \in Colors,
               NEW f \in DOMAIN Fragments \cup DOMAIN Customs, StartPick(k, f, c)
        PROVE  SpoolInv'
    BY <2>4, PickActs DEF Idents
  <2> QED
    BY <1>2, <2>1, <2>2, <2>3, <2>4, ExternalActs, AttachKeeps, ResizeActs DEF SpoolUserActs
<1>3. CASE SpoolSteps
  BY <1>3, ReportActs, FlushKeeps, ResizeActs, PickActs, PushPickKeeps DEF SpoolSteps
<1> QED
  BY <1>1, <1>2, <1>3

-----------------------------------------------------------------------------
(* What follows from the invariant. *)

LEMMA SpoolsTyped == ASSUME SpoolInv PROVE SpoolTypeOK
<1>1. /\ units \in 1 .. MaxUnits /\ acc \in Accumulated /\ tray \in [Trays -> Known]
      /\ pick \in Picks
  BY DEF SpoolInv, SpoolTypes
<1>2. engaged \in BOOLEAN
  BY DEF SpoolInv, SpoolTypes
<1>3. acc.units \in 0 .. MaxUnits /\ pick.step \in {"idle", "color", "push"}
  BY <1>1 DEF Accumulated, Picks
<1>4. \A t \in Trays : DOMAIN acc.tray[t] = TrayFields /\ DOMAIN tray[t] = TrayFields
  BY <1>1 DEF Accumulated, Known, Heard
<1>5. PICK n \in Sizes : SlotsOK(slots, n)
  BY DEF SpoolInv, SpoolTypes
<1>6. Len(slots) \in Sizes /\ \A k \in 1 .. Len(slots) :
        slots[k].feed = (IF k = Len(slots) THEN "direct" ELSE "ams")
  BY <1>5 DEF SlotsOK
<1> QED
  BY <1>1, <1>2, <1>3, <1>4, <1>6 DEF SpoolTypeOK, Sizes

LEMMA StatusIsTrue ==
    ASSUME SpoolInv, UpToDate
    PROVE  /\ amsStatus \in Status /\ amsStatus.units > 0 /\ amsStatus.units \in 1 .. MaxUnits
           /\ TraysOf(units) \subseteq TraysOf(amsStatus.units) /\ TraysOf(units) \subseteq Trays
           /\ \A t \in TraysOf(units) : amsStatus.spool[t] = Identity(tray[t]) /\ tray[t] \in Known
<1>1. /\ units \in 1 .. MaxUnits /\ acc \in Accumulated /\ tray \in [Trays -> Known]
      /\ amsStatus \in Status
  BY DEF SpoolInv, SpoolTypes
<1>2. unsent = {} /\ amsStatus.units >= units /\ amsStatus = Lower(acc)
  BY DEF UpToDate
<1>3. amsStatus.units = acc.units /\ acc.units \in 0 .. MaxUnits
  BY <1>1, <1>2 DEF Lower, Accumulated
<1>4. acc.units \in 1 .. MaxUnits
  BY <1>1, <1>2, <1>3
<1>5. TraysOf(units) \subseteq TraysOf(acc.units) /\ TraysOf(units) \subseteq Trays
  BY <1>1, <1>2, <1>3, Whole
<1>6. ASSUME NEW t \in TraysOf(units)
      PROVE  amsStatus.spool[t] = Identity(tray[t]) /\ tray[t] \in Known
  <2>1. t \in Trays /\ t \in TraysOf(acc.units)
    BY <1>5
  <2>2. amsStatus.spool[t] = Identity(acc.tray[t])
    BY <1>2, <2>1 DEF Lower
  <2>3. \A f \in TrayFields : acc.tray[t][f] = tray[t][f]
    BY <1>2, <1>4 DEF SpoolInv, Reported
  <2>4. acc.tray[t] \in Heard /\ tray[t] \in Known
    BY <1>1, <2>1 DEF Accumulated
  <2>5. acc.tray[t] = tray[t]
    BY <2>3, <2>4 DEF Heard, Known
  <2> QED
    BY <2>2, <2>4, <2>5
<1> QED
  BY <1>1, <1>3, <1>4, <1>5, <1>6

LEMMA SyncIsTrue ==
    ASSUME SpoolInv, UpToDate
    PROVE  SyncAgrees /\ PickSurvivesSync
<1> DEFINE after == Synced(slots, amsStatus)
           sized == Rebuild(slots, amsStatus.units)
<1>1. /\ amsStatus \in Status /\ amsStatus.units > 0 /\ amsStatus.units \in 1 .. MaxUnits
      /\ TraysOf(units) \subseteq TraysOf(amsStatus.units) /\ TraysOf(units) \subseteq Trays
  BY StatusIsTrue
<1>2. PICK n \in Sizes : SlotsOK(slots, n)
  BY DEF SpoolInv, SpoolTypes
<1>3. /\ SlotsOK(sized, PerUnit * amsStatus.units + 1)
      /\ \A k \in 1 .. PerUnit * amsStatus.units : k < n => sized[k] = slots[k]
  BY <1>1, <1>2, RebuildKeeps
<1>4. \A t \in TraysOf(amsStatus.units) : after[t + 1] = Filled(sized[t + 1], amsStatus.spool[t])
  BY <1>1, <1>2, SyncedSlots
<1>5. /\ TraysOf(amsStatus.units) = 0 .. PerUnit * amsStatus.units - 1
      /\ PerUnit * amsStatus.units \in Nat
  BY <1>1, Whole
<1> HIDE DEF after, sized
<1>6. ASSUME NEW t \in TraysOf(units)
      PROVE  /\ sized[t + 1] \in Slots
             /\ t + 1 < n => sized[t + 1] = slots[t + 1]
             /\ after[t + 1].ident = IF Identity(tray[t]) = None THEN None
                                     ELSE Resolve(sized[t + 1].ident, tray[t])
             /\ Real(tray[t]) /\ (held[t] # None => Fits(held[t], tray[t]))
             /\ held[t] \in Idents \cup {None}
  <2>1. PICK k \in 1 .. PerUnit * amsStatus.units : k = t + 1
    BY <1>1, <1>5
  <2>2. sized[k] \in Slots
    BY <1>3, <1>5, <2>1 DEF SlotsOK
  <2>3. amsStatus.spool[t] = Identity(tray[t]) /\ tray[t] \in Known
    BY StatusIsTrue
  <2>4. Identity(tray[t]) \in Spools /\ (Identity(tray[t]) # None => Identity(tray[t]) = tray[t])
    BY <2>3, IdentityKnown
  <2>5. after[k] = Filled(sized[k], Identity(tray[t]))
    BY <1>1, <1>4, <2>1, <2>3
  <2>6. after[k].ident = IF Identity(tray[t]) = None THEN None
                         ELSE Resolve(sized[k].ident, Identity(tray[t]))
    BY <2>2, <2>4, <2>5, FilledType
  <2>7. /\ Real(tray[t]) /\ (held[t] # None => Fits(held[t], tray[t]))
        /\ held[t] \in Idents \cup {None}
    BY <1>1 DEF SpoolInv, TraysFit, SpoolTypes
  <2> QED
    BY <1>3, <2>1, <2>2, <2>4, <2>6, <2>7
<1>7. SyncAgrees
  <2> SUFFICES ASSUME NEW t \in TraysOf(units)
               PROVE  IF Identity(tray[t]) = None THEN after[t + 1].ident = None
                      ELSE after[t + 1].ident = None
                           \/ MatchKeys(after[t + 1].ident)[2] = tray[t].type
    BY DEF SyncAgrees, after
  <2>1. CASE Identity(tray[t]) = None
    BY <1>6, <2>1
  <2>2. CASE Identity(tray[t]) # None
    <3>1. tray[t] # EmptyTray
      BY <2>2, <1>6, StatusIsTrue, IdentityKnown
    <3>2. PICK g \in DOMAIN Fragments : tray[t].sku = Fragments[g].sku /\ tray[t].type = Fragments[g].type
      BY <1>6, <3>1 DEF Real
    <3>3. sized[t + 1].ident \in Idents \cup {None}
      BY <1>6 DEF Slots
    <3>4. after[t + 1].ident = Resolve(sized[t + 1].ident, tray[t])
      BY <1>6, <2>2
    <3> QED
      BY <2>2, <3>2, <3>3, <3>4, ResolveIsOfType
  <2> QED
    BY <2>1, <2>2
<1>8. PickSurvivesSync
  <2> SUFFICES ASSUME NEW t \in TraysOf(units), held[t] # None, t + 1 < n,
                      slots[t + 1].ident = held[t]
               PROVE  after[t + 1].ident = held[t]
    BY <1>2 DEF PickSurvivesSync, after, SlotsOK
  <2>1. Fits(held[t], tray[t]) /\ held[t] \in Idents /\ sized[t + 1].ident = held[t]
    BY <1>6
  <2>2. Base(held[t]) \in DOMAIN Fragments
    BY <2>1, SpoolAssumption DEF Base, Idents
  <2>3. MatchKeys(held[t]) = <<tray[t].sku, tray[t].type>>
    BY <2>1, SpoolAssumption DEF MatchKeys, Fits, Base, Idents
  <2>4. tray[t].type # ""
    <3>1. \A f \in DOMAIN Fragments : Fragments[f].type # ""
      BY SpoolAssumption, Zenon
    <3> QED
      BY <2>1, <2>2, <3>1 DEF Fits
  <2>5. Identity(tray[t]) = tray[t] /\ tray[t] # None
    BY <2>4, StatusIsTrue, IdentityKnown, WordsAssumption DEF Known
  <2>6. after[t + 1].ident = Resolve(held[t], tray[t])
    BY <1>6, <2>1, <2>5
  <2> QED
    BY <2>1, <2>3, <2>6, ResolveType
<1> QED
  BY <1>7, <1>8

(* There are n numbers up to n. *)
LEMMA UpToHasSize ==
    ASSUME NEW n \in Nat
    PROVE  IsFiniteSet(1 .. n) /\ Cardinality(1 .. n) = n
<1>1. 1 \in Int /\ n \in Int
  OBVIOUS
<1>2. IsFiniteSet(1 .. n) /\ Cardinality(1 .. n) = IF 1 > n THEN 0 ELSE n - 1 + 1
  BY ONLY <1>1, FS_Interval
<1>3. (IF 1 > n THEN 0 ELSE n - 1 + 1) = n
  OBVIOUS
<1> QED
  BY ONLY <1>2, <1>3

(* The AMS feeds come first, so the number of a slot counts those before it. *)
LEMMA Counted ==
    ASSUME NEW n \in Sizes, NEW sl, SlotsOK(sl, n)
    PROVE  /\ n \in Nat /\ n >= 2 /\ Len(sl) = n /\ DOMAIN sl = 1 .. n
           /\ \A k \in 1 .. n : AmsBefore(sl, k) = k - 1
           /\ AmsCount(sl) = n - 1
           /\ \A k \in Int : IsAms(sl, k) <=> k \in 1 .. n - 1
<1>1. /\ n \in Nat /\ n >= 2 /\ Len(sl) = n /\ DOMAIN sl = 1 .. n
      /\ \A k \in 1 .. n : sl[k].feed = IF k = n THEN "direct" ELSE "ams"
  BY SizeType DEF SlotsOK
<1>2. ASSUME NEW k \in 1 .. n PROVE AmsBefore(sl, k) = k - 1
  <2>1. {j \in 1 .. k - 1 : sl[j].feed = "ams"} = 1 .. k - 1
    BY <1>1
  <2>2. Cardinality(1 .. k - 1) = k - 1
    <3>1. k - 1 \in Nat
      BY <1>1
    <3> QED
      BY ONLY <3>1, UpToHasSize
  <2> QED
    BY <2>1, <2>2 DEF AmsBefore
<1>3. AmsCount(sl) = n - 1
  <2>1. {k \in DOMAIN sl : sl[k].feed = "ams"} = 1 .. n - 1
    BY <1>1
  <2>2. Cardinality(1 .. n - 1) = n - 1
    <3>1. n - 1 \in Nat
      BY <1>1
    <3> QED
      BY ONLY <3>1, UpToHasSize
  <2> QED
    BY <2>1, <2>2 DEF AmsCount
<1>4. \A k \in Int : IsAms(sl, k) <=> k \in 1 .. n - 1
  BY <1>1 DEF IsAms
<1> QED
  BY <1>1, <1>2, <1>3, <1>4

(* The address of a slot tells its number. *)
LEMMA Addressed ==
    ASSUME NEW k \in Nat \ {0}
    PROVE  /\ TrayAt(k)[1] \in Nat /\ TrayAt(k)[2] \in 0 .. PerUnit - 1
           /\ TrayAt(k)[1] * PerUnit + TrayAt(k)[2] = k - 1
<1>0. PerUnit \in Nat \ {0}
  BY SpoolAssumption, Zenon
<1>1. k - 1 \in Nat
  OBVIOUS
<1>2. TrayAt(k)[1] = (k - 1) \div PerUnit /\ TrayAt(k)[2] = (k - 1) % PerUnit
  BY DEF TrayAt
<1> QED
  BY <1>0, <1>1, <1>2, DivMod

LEMMA SameAddress ==
    ASSUME NEW k \in Nat \ {0}, NEW j \in Nat \ {0}, TrayAt(k) = TrayAt(j)
    PROVE  k = j
<1>1. TrayAt(k)[1] * PerUnit + TrayAt(k)[2] = k - 1 /\ TrayAt(j)[1] * PerUnit + TrayAt(j)[2] = j - 1
  BY Addressed
<1> QED
  BY <1>1

LEMMA RoutesTrue == ASSUME SpoolInv PROVE RoutesAgree
<1>1. PICK n \in Sizes : SlotsOK(slots, n)
  BY DEF SpoolInv, SpoolTypes
<1>2. /\ n \in Nat /\ Len(slots) = n /\ \A k \in 1 .. n : AmsBefore(slots, k) = k - 1
      /\ \A k \in Int : IsAms(slots, k) <=> k \in 1 .. n - 1
      /\ AmsCount(slots) = n - 1
  BY <1>1, Counted
<1> SUFFICES ASSUME NEW bound \in Plates, NEW m \in 1 .. 2
             PROVE  LET one == Mapping(slots, bound)
                        two == Mapping2(slots, bound)
                        ams == Bindings(slots, bound)
                    IN IF IsAms(slots, bound[m])
                         THEN /\ [material |-> m, ams_slot |-> one[m] + 1] \in ams
                              /\ AmsCount(slots) <= PerUnit =>
                                   one[m] = bound[m] - 1 /\ two[m] = TrayAt(bound[m])
                              /\ \A o \in 1..2 :
                                   bound[o] # bound[m] => one[o] # one[m] /\ two[o] # two[m]
                         ELSE /\ one[m] = -1 /\ two[m][1] = 255
                              /\ \A b \in ams : b.material # m
  BY DEF RoutesAgree
<1>3. DOMAIN bound = 1 .. 2 /\ \A o \in 1 .. 2 : bound[o] \in 0 .. n
  BY <1>2 DEF Plates
<1>4. ASSUME NEW o \in 1 .. 2, IsAms(slots, bound[o])
      PROVE  /\ bound[o] \in 1 .. n - 1
             /\ Mapping(slots, bound)[o] = bound[o] - 1
             /\ Mapping2(slots, bound)[o] = <<0, bound[o] - 1>>
  <2>1. bound[o] \in 1 .. n - 1 /\ AmsBefore(slots, bound[o]) = bound[o] - 1
    BY <1>2, <1>3, <1>4
  <2>2. Mapping(slots, bound)[o] = AmsBefore(slots, bound[o])
    BY <1>3, <1>4 DEF Mapping
  <2>3. Mapping2(slots, bound)[o] = <<0, AmsBefore(slots, bound[o])>>
    BY <1>3, <1>4 DEF Mapping2
  <2> QED
    BY <2>1, <2>2, <2>3
<1>5. ASSUME NEW o \in 1 .. 2, ~IsAms(slots, bound[o])
      PROVE  Mapping(slots, bound)[o] = -1 /\ Mapping2(slots, bound)[o] \in {<<255, 0>>, <<255, 255>>}
  <2>1. Mapping(slots, bound)[o] = -1
    BY <1>3, <1>5 DEF Mapping
  <2>2. Mapping2(slots, bound)[o] \in {<<255, 0>>, <<255, 255>>}
    BY <1>3, <1>5 DEF Mapping2
  <2> QED
    BY <2>1, <2>2
<1>6. CASE IsAms(slots, bound[m])
  <2>1. /\ bound[m] \in 1 .. n - 1 /\ Mapping(slots, bound)[m] = bound[m] - 1
        /\ Mapping2(slots, bound)[m] = <<0, bound[m] - 1>>
    BY <1>4, <1>6
  <2>2. [material |-> m, ams_slot |-> Mapping(slots, bound)[m] + 1] \in Bindings(slots, bound)
    <3>1. AmsBefore(slots, bound[m]) = bound[m] - 1
      BY <1>2, <2>1
    <3>2. [material |-> m, ams_slot |-> AmsBefore(slots, bound[m]) + 1] \in Bindings(slots, bound)
      BY <1>3, <1>6 DEF Bindings
    <3> QED
      BY <2>1, <3>1, <3>2
  <2>3. AmsCount(slots) <= PerUnit =>
          Mapping(slots, bound)[m] = bound[m] - 1 /\ Mapping2(slots, bound)[m] = TrayAt(bound[m])
    <3> SUFFICES ASSUME AmsCount(slots) <= PerUnit
                 PROVE  Mapping2(slots, bound)[m] = TrayAt(bound[m])
      BY <2>1
    <3>1. PerUnit \in Nat \ {0} /\ bound[m] - 1 \in 0 .. PerUnit - 1
      <4>1. PerUnit \in Nat \ {0}
        BY SpoolAssumption, Zenon
      <4>2. AmsCount(slots) <= PerUnit
        OBVIOUS
      <4> QED
        BY <1>2, <2>1, <4>1, <4>2
    <3>2. (bound[m] - 1) \div PerUnit = 0 /\ (bound[m] - 1) % PerUnit = bound[m] - 1
      BY <3>1, SMTT(30)
    <3> QED
      BY <2>1, <3>2 DEF TrayAt
  <2>4. ASSUME NEW o \in 1 .. 2, bound[o] # bound[m]
        PROVE  Mapping(slots, bound)[o] # Mapping(slots, bound)[m]
               /\ Mapping2(slots, bound)[o] # Mapping2(slots, bound)[m]
    <3>1. CASE IsAms(slots, bound[o])
      <4>1. /\ bound[o] \in 1 .. n - 1 /\ Mapping(slots, bound)[o] = bound[o] - 1
            /\ Mapping2(slots, bound)[o] = <<0, bound[o] - 1>>
        BY <1>4, <3>1
      <4>2. bound[o] - 1 # bound[m] - 1
        BY <1>2, <2>1, <2>4, <4>1
      <4> QED
        BY <2>1, <4>1, <4>2
    <3>2. CASE ~IsAms(slots, bound[o])
      <4>1. /\ Mapping(slots, bound)[o] = -1
            /\ Mapping2(slots, bound)[o] \in {<<255, 0>>, <<255, 255>>}
        BY <1>5, <3>2
      <4> QED
        BY <1>2, <2>1, <4>1
    <3> QED
      BY <3>1, <3>2
  <2> QED
    BY <1>6, <2>2, <2>3, <2>4
<1>7. CASE ~IsAms(slots, bound[m])
  <2>1. Mapping(slots, bound)[m] = -1 /\ Mapping2(slots, bound)[m][1] = 255
    BY <1>5, <1>7
  <2>2. \A b \in Bindings(slots, bound) : b.material # m
    BY <1>7 DEF Bindings
  <2> QED
    BY <1>7, <2>1, <2>2
<1> QED
  BY <1>6, <1>7

LEMMA OneKTrue == ASSUME SpoolInv PROVE OneKPerTray
<1>1. PICK n \in Sizes : SlotsOK(slots, n)
  BY DEF SpoolInv, SpoolTypes
<1>2. n \in Nat /\ Len(slots) = n /\ \A k \in Int : IsAms(slots, k) <=> k \in 1 .. n - 1
  BY <1>1, Counted
<1> DEFINE K == [f \in DOMAIN Fragments |-> f]
<1> SUFFICES ASSUME NEW bound \in [1 .. 2 -> 0 .. n], NEW a \in CaliTrays(slots, bound, K),
                    NEW b \in CaliTrays(slots, bound, K), a.address = b.address
             PROVE  a = b
  BY <1>2 DEF OneKPerTray, Plates
<1>3. \A e \in CaliTrays(slots, bound, K) : \E s \in 1 .. n :
        e = [address |-> TrayAt(s), k |-> K[slots[s].ident]]
  BY <1>2 DEF CaliTrays
<1> HIDE DEF K
<1>4. PICK s \in 1 .. n : a = [address |-> TrayAt(s), k |-> K[slots[s].ident]]
  BY <1>3
<1>5. PICK r \in 1 .. n : b = [address |-> TrayAt(r), k |-> K[slots[r].ident]]
  BY <1>3
<1>6. TrayAt(s) = TrayAt(r)
  BY <1>4, <1>5
<1>7. s = r
  BY <1>2, <1>6, SameAddress
<1> QED
  BY <1>4, <1>5, <1>7

LEMMA CaliTrue == ASSUME SpoolInv PROVE CaliIsOfTheSpool
<1>1. PICK n \in Sizes : SlotsOK(slots, n)
  BY DEF SpoolInv, SpoolTypes
<1>2. n \in Nat /\ Len(slots) = n
  BY <1>1, Counted
<1> SUFFICES ASSUME UpToDate, NEW chosen \in SUBSET {k \in 1 .. n - 1 : k - 1 \in TraysOf(units)}
             PROVE  LET targets == CaliTargets(slots, amsStatus, chosen)
                        results == {[address |-> g.address, k |-> g.slot, sure |-> TRUE] : g \in targets}
                    IN /\ \A g \in targets :
                            LET loaded == tray[g.address[1] * PerUnit + g.address[2]].sku
                            IN loaded # "" => g.sku = loaded
                       /\ \A w \in CaliStored(slots, targets, results) : w.ident = slots[w.k].ident
  BY <1>2 DEF CaliIsOfTheSpool
<1> DEFINE targets == CaliTargets(slots, amsStatus, chosen)
           results == {[address |-> g.address, k |-> g.slot, sure |-> TRUE] : g \in targets}
<1>3. ASSUME NEW g \in targets
      PROVE  /\ g.slot \in chosen /\ g.slot \in Nat \ {0} /\ g.address = TrayAt(g.slot)
             /\ g.sku = SkuFor(slots, amsStatus, g.slot)
  BY <1>2 DEF CaliTargets
<1> HIDE DEF targets
<1>4. ASSUME NEW g \in targets, tray[g.address[1] * PerUnit + g.address[2]].sku # ""
      PROVE  g.sku = tray[g.address[1] * PerUnit + g.address[2]].sku
  <2> DEFINE t == g.slot - 1
  <2>1. g.address[1] * PerUnit + g.address[2] = t /\ t \in TraysOf(units)
    BY <1>3, Addressed
  <2>2. tray[t] \in Known /\ amsStatus.spool[t] = Identity(tray[t]) /\ t \in Trays
    BY <2>1, StatusIsTrue
  <2>3. tray[t].sku # ""
    BY <1>4, <2>1
  <2>4. amsStatus.spool[t] = tray[t] /\ tray[t] # None
    BY <2>2, <2>3, IdentityKnown, WordsAssumption DEF Known
  <2>5. t \in DOMAIN Loaded(amsStatus) /\ Loaded(amsStatus)[t] = tray[t].sku
    BY <2>2, <2>3, <2>4 DEF Loaded
  <2>6. SkuFor(slots, amsStatus, g.slot) = tray[t].sku
    BY <2>5 DEF SkuFor
  <2> QED
    BY <1>3, <2>1, <2>6
<1>5. ASSUME NEW w \in CaliStored(slots, targets, results)
      PROVE  w.ident = slots[w.k].ident
  <2>1. PICK g \in targets, r \in results : r.address = g.address /\ w = [ident |-> slots[g.slot].ident, k |-> r.k]
    BY DEF CaliStored
  <2>2. PICK h \in targets : r = [address |-> h.address, k |-> h.slot, sure |-> TRUE]
    OBVIOUS
  <2>3. TrayAt(g.slot) = TrayAt(h.slot) /\ w.k = h.slot /\ w.ident = slots[g.slot].ident
    BY <1>3, <2>1, <2>2
  <2>4. g.slot = h.slot
    BY <1>3, <2>3, SameAddress
  <2> QED
    BY <2>3, <2>4
<1> QED
  BY <1>4, <1>5 DEF targets

LEMMA SameCount ==
    ASSUME NEW S, IsFiniteSet(S), NEW T, NEW f \in [S -> T],
           \A a, b \in S : f[a] = f[b] => a = b, \A t \in T : \E a \in S : f[a] = t
    PROVE  Cardinality(T) = Cardinality(S)
<1>1. f \in Bijection(S, T)
  BY DEF Bijection, Injection, Surjection, IsInjective
<1>2. ExistsBijection(S, T)
  BY <1>1 DEF ExistsBijection
<1> QED
  BY <1>2, FS_Bijection

LEMMA PlaceShape ==
    ASSUME NEW n \in Sizes, NEW sl, SlotsOK(sl, n), NEW k \in 1 .. n - 1
    PROVE  \E q \in Nat, r \in 0 .. PerUnit - 1 :
              /\ k - 1 = q * PerUnit + r
              /\ AmsPosition(k, sl).unit = q /\ AmsPosition(k, sl).index = r + 1
              /\ TrayAt(k) = <<q, r>>
              /\ Place(k, sl) = IF n - 1 > PerUnit THEN <<q, r + 1>> ELSE <<r + 1>>
<1>0. PerUnit \in Nat \ {0}
  BY SpoolAssumption, Zenon
<1>1. n \in Nat /\ AmsBefore(sl, k) = k - 1 /\ AmsCount(sl) = n - 1
  BY Counted
<1>2. k - 1 \in Nat
  BY <1>1
<1>3. PICK q \in Nat : q = (k - 1) \div PerUnit
  BY <1>0, <1>2, DivMod
<1>4. PICK r \in 0 .. PerUnit - 1 : r = (k - 1) % PerUnit
  BY <1>0, <1>2, DivMod
<1>5. k - 1 = q * PerUnit + r
  BY <1>0, <1>2, <1>3, <1>4, DivMod
<1>6. AmsPosition(k, sl).unit = q /\ AmsPosition(k, sl).index = r + 1
  BY <1>1, <1>3, <1>4 DEF AmsPosition
<1>7. Place(k, sl) = IF n - 1 > PerUnit THEN <<q, r + 1>> ELSE <<r + 1>>
  BY <1>1, <1>6 DEF Place
<1>8. TrayAt(k) = <<q, r>>
  BY <1>3, <1>4 DEF TrayAt
<1> QED
  BY <1>5, <1>6, <1>7, <1>8

LEMMA PlaceIsOne ==
    ASSUME NEW n \in Sizes, NEW sl, SlotsOK(sl, n), NEW k \in 1 .. n - 1, NEW j \in 1 .. n - 1,
           Place(k, sl) = Place(j, sl)
    PROVE  k = j
<1>0. PerUnit \in Nat \ {0}
  BY SpoolAssumption, Zenon
<1>1. n \in Nat
  BY Counted
<1>2. PICK q \in Nat, r \in 0 .. PerUnit - 1 :
        /\ k - 1 = q * PerUnit + r
        /\ Place(k, sl) = IF n - 1 > PerUnit THEN <<q, r + 1>> ELSE <<r + 1>>
  BY PlaceShape
<1>3. PICK u \in Nat, i \in 0 .. PerUnit - 1 :
        /\ j - 1 = u * PerUnit + i
        /\ Place(j, sl) = IF n - 1 > PerUnit THEN <<u, i + 1>> ELSE <<i + 1>>
  BY PlaceShape
<1>4. CASE n - 1 > PerUnit
  <2>1. <<q, r + 1>> = <<u, i + 1>>
    BY <1>2, <1>3, <1>4
  <2>2. q = u /\ r = i
    BY <1>0, <2>1
  <2>3. k - 1 = j - 1
    BY <1>2, <1>3, <2>2
  <2> QED
    BY <1>1, <2>3
<1>5. CASE ~(n - 1 > PerUnit)
  <2>1. <<r + 1>> = <<i + 1>>
    BY <1>2, <1>3, <1>5
  <2>2. r = i
    BY <1>0, <2>1
  <2>3. k - 1 < PerUnit /\ j - 1 < PerUnit
    BY <1>0, <1>1, <1>5
  <2>4. q = 0
    BY <1>0, <1>2, <2>3
  <2>5. u = 0
    BY <1>0, <1>3, <2>3
  <2>6. k - 1 = j - 1
    BY <1>0, <1>2, <1>3, <2>2, <2>4, <2>5
  <2> QED
    BY <1>1, <2>6
<1> QED
  BY <1>4, <1>5

(* Of the slots of one extruder with an AMS no two have the same name. *)
LEMMA LabelIsOne ==
    ASSUME NEW n \in Sizes, NEW sl, SlotsOK(sl, n), NEW k \in 1 .. n, NEW j \in 1 .. n,
           NEW tools \in Nat,
           SlotLabel(k, sl, tools) = SlotLabel(j, sl, tools)
           \/ ShortLabel(k, sl, tools) = ShortLabel(j, sl, tools)
    PROVE  k = j
<1>1. n \in Nat /\ n >= 2 /\ Len(sl) = n
  BY Counted
<1>2. ASSUME NEW x \in 1 .. n
      PROVE  /\ x # n => /\ SlotLabel(x, sl, tools) = <<"AMS", Place(x, sl)>>
                         /\ ShortLabel(x, sl, tools) = <<"", Place(x, sl)>>
             /\ x = n => /\ SlotLabel(x, sl, tools) = <<"Ext">>
                         /\ ShortLabel(x, sl, tools) = <<"Ext">>
  <2>1. Len(sl) # 1
    BY <1>1
  <2>2. IsAmsFeed(x, sl) <=> x # n
    BY DEF SlotsOK, IsAmsFeed
  <2> QED
    BY <2>1, <2>2 DEF SlotLabel, ShortLabel
<1>3. \A a : <<"Ext">> # <<"AMS", a>> /\ <<"Ext">> # <<"", a>>
  <2>1. \A a : <<"Ext">>[1] = "Ext" /\ <<"AMS", a>>[1] = "AMS" /\ <<"", a>>[1] = ""
    OBVIOUS
  <2> QED
    BY <2>1
<1>4. CASE k # n /\ j # n
  <2>1. \/ <<"AMS", Place(k, sl)>> = <<"AMS", Place(j, sl)>>
        \/ <<"", Place(k, sl)>> = <<"", Place(j, sl)>>
    BY <1>2, <1>4
  <2>2. Place(k, sl) = Place(j, sl)
    BY <2>1
  <2>3. k \in 1 .. n - 1 /\ j \in 1 .. n - 1
    BY <1>1, <1>4
  <2> QED
    BY <2>2, <2>3, PlaceIsOne
<1>5. CASE k = n /\ j # n
  <2>1. \/ <<"Ext">> = <<"AMS", Place(j, sl)>> \/ <<"Ext">> = <<"", Place(j, sl)>>
    BY <1>2, <1>5
  <2> QED
    BY <1>3, <2>1
<1>6. CASE k # n /\ j = n
  <2>1. \/ <<"AMS", Place(k, sl)>> = <<"Ext">> \/ <<"", Place(k, sl)>> = <<"Ext">>
    BY <1>2, <1>6
  <2> QED
    BY <1>3, <2>1
<1> QED
  BY <1>4, <1>5, <1>6

LEMMA ExtrudersAre ==
    ASSUME NEW tools \in Nat, tools >= 1
    PROVE  /\ Len(ExtrudersOf(tools)) = tools /\ ExtrudersOf(tools) # <<>>
           /\ ExtrudersOf(tools)[1] = slots
           /\ \A e \in 1 .. tools : e # 1 => ExtrudersOf(tools)[e] = Direct
           /\ Len(Direct) = 1 /\ Direct[1].feed = "direct"
<1>1. Len(Direct) = 1 /\ Direct[1].feed = "direct"
  BY DEF Direct
<1>2. /\ Len(ExtrudersOf(tools)) = tools /\ ExtrudersOf(tools)[1] = slots
      /\ \A e \in 1 .. tools : e # 1 => ExtrudersOf(tools)[e] = Direct
  BY DEF ExtrudersOf
<1> QED
  BY <1>1, <1>2

LEMMA ViewIs ==
    ASSUME NEW ex, NEW v \in FlattenSlots(ex)
    PROVE  \E e \in 1 .. Len(ex) : \E k \in 1 .. Len(ex[e]) :
              v = [ref |-> <<e, k>>, ams |-> IsAmsFeed(k, ex[e]),
                   label |-> <<ExtruderLabel(e, Len(ex)), SlotLabel(k, ex[e], Len(ex))>>,
                   short |-> <<ExtruderLabel(e, Len(ex)), ShortLabel(k, ex[e], Len(ex))>>]
  BY DEF FlattenSlots

(* The extruders of a printer are named apart, and the slots of each. *)
LEMMA NameIsOne ==
    ASSUME NEW n \in Sizes, SlotsOK(slots, n), NEW tools \in Nat, tools >= 1,
           NEW v \in FlattenSlots(ExtrudersOf(tools)), NEW w \in FlattenSlots(ExtrudersOf(tools)),
           v.label = w.label \/ v.short = w.short
    PROVE  v = w
<1> DEFINE ex == ExtrudersOf(tools)
<1>1. /\ Len(ex) = tools /\ ex[1] = slots /\ Len(Direct) = 1
      /\ \A e \in 1 .. tools : e # 1 => ex[e] = Direct
  BY ExtrudersAre
<1>2. PICK e \in 1 .. tools : \E k \in 1 .. Len(ex[e]) :
              v = [ref |-> <<e, k>>, ams |-> IsAmsFeed(k, ex[e]),
                   label |-> <<ExtruderLabel(e, tools), SlotLabel(k, ex[e], tools)>>,
                   short |-> <<ExtruderLabel(e, tools), ShortLabel(k, ex[e], tools)>>]
  BY <1>1, ViewIs
<1>3. PICK k \in 1 .. Len(ex[e]) :
              v = [ref |-> <<e, k>>, ams |-> IsAmsFeed(k, ex[e]),
                   label |-> <<ExtruderLabel(e, tools), SlotLabel(k, ex[e], tools)>>,
                   short |-> <<ExtruderLabel(e, tools), ShortLabel(k, ex[e], tools)>>]
  BY <1>2
<1>4. PICK f \in 1 .. tools : \E j \in 1 .. Len(ex[f]) :
              w = [ref |-> <<f, j>>, ams |-> IsAmsFeed(j, ex[f]),
                   label |-> <<ExtruderLabel(f, tools), SlotLabel(j, ex[f], tools)>>,
                   short |-> <<ExtruderLabel(f, tools), ShortLabel(j, ex[f], tools)>>]
  BY <1>1, ViewIs
<1>5. PICK j \in 1 .. Len(ex[f]) :
              w = [ref |-> <<f, j>>, ams |-> IsAmsFeed(j, ex[f]),
                   label |-> <<ExtruderLabel(f, tools), SlotLabel(j, ex[f], tools)>>,
                   short |-> <<ExtruderLabel(f, tools), ShortLabel(j, ex[f], tools)>>]
  BY <1>4
<1> HIDE DEF ex
<1>6. \/ <<ExtruderLabel(e, tools), SlotLabel(k, ex[e], tools)>>
           = <<ExtruderLabel(f, tools), SlotLabel(j, ex[f], tools)>>
      \/ <<ExtruderLabel(e, tools), ShortLabel(k, ex[e], tools)>>
           = <<ExtruderLabel(f, tools), ShortLabel(j, ex[f], tools)>>
  BY <1>3, <1>5
<1>7. /\ ExtruderLabel(e, tools) = ExtruderLabel(f, tools)
      /\ \/ SlotLabel(k, ex[e], tools) = SlotLabel(j, ex[f], tools)
         \/ ShortLabel(k, ex[e], tools) = ShortLabel(j, ex[f], tools)
  BY <1>6
<1>8. e = f
  <2>1. CASE tools <= 1
    BY <2>1
  <2>2. CASE tools > 1
    <3>1. <<"T", e>> = <<"T", f>>
      BY <1>7, <2>2 DEF ExtruderLabel
    <3> QED
      BY <3>1
  <2> QED
    BY <2>1, <2>2
<1>9. k = j
  <2>1. CASE e = 1
    <3>1. Len(slots) = n
      BY DEF SlotsOK
    <3>2. k \in 1 .. n /\ j \in 1 .. n
      BY <1>1, <1>8, <2>1, <3>1
    <3>3. \/ SlotLabel(k, slots, tools) = SlotLabel(j, slots, tools)
          \/ ShortLabel(k, slots, tools) = ShortLabel(j, slots, tools)
      BY <1>1, <1>7, <1>8, <2>1
    <3> QED
      BY <3>2, <3>3, LabelIsOne
  <2>2. CASE e # 1
    <3>1. ex[e] = Direct /\ ex[f] = Direct
      BY <1>1, <1>8, <2>2
    <3>2. k \in 1 .. 1 /\ j \in 1 .. 1
      BY <1>1, <3>1
    <3> QED
      BY <3>2
  <2> QED
    BY <2>1, <2>2
<1> QED
  BY <1>3, <1>5, <1>8, <1>9

LEMMA ViewsFinite ==
    ASSUME NEW n \in Sizes, SlotsOK(slots, n), NEW tools \in Nat, tools >= 1
    PROVE  IsFiniteSet(FlattenSlots(ExtrudersOf(tools)))
<1> DEFINE ex == ExtrudersOf(tools)
           views == FlattenSlots(ex)
           f == [v \in views |-> v.ref]
           refs == (1 .. tools) \X (1 .. n)
<1>1. n \in Nat /\ n >= 2 /\ Len(slots) = n
  BY Counted
<1>2. IsFiniteSet(refs)
  <2>1. IsFiniteSet(1 .. tools) /\ IsFiniteSet(1 .. n)
    <3>1. tools \in Nat /\ n \in Nat
      BY <1>1
    <3> QED
      BY ONLY <3>1, UpToHasSize
  <2> QED
    BY <2>1, FS_Product
<1>3. /\ Len(ex) = tools /\ ex[1] = slots /\ Len(Direct) = 1
      /\ \A e \in 1 .. tools : e # 1 => ex[e] = Direct
  BY ExtrudersAre
<1>4. ASSUME NEW v \in views
      PROVE  \E e \in 1 .. tools, k \in 1 .. n :
               v = [ref |-> <<e, k>>, ams |-> IsAmsFeed(k, ex[e]),
                    label |-> <<ExtruderLabel(e, tools), SlotLabel(k, ex[e], tools)>>,
                    short |-> <<ExtruderLabel(e, tools), ShortLabel(k, ex[e], tools)>>]
  <2>1. PICK e \in 1 .. tools : \E k \in 1 .. Len(ex[e]) :
               v = [ref |-> <<e, k>>, ams |-> IsAmsFeed(k, ex[e]),
                    label |-> <<ExtruderLabel(e, tools), SlotLabel(k, ex[e], tools)>>,
                    short |-> <<ExtruderLabel(e, tools), ShortLabel(k, ex[e], tools)>>]
    BY <1>3, ViewIs
  <2> HIDE DEF ex
  <2>2. Len(ex[e]) = n \/ Len(ex[e]) = 1
    <3>1. CASE e = 1
      <4>1. ex[e] = slots
        BY <1>3, <3>1
      <4> QED
        BY <1>1, <4>1
    <3>2. CASE e # 1
      <4>1. ex[e] = Direct
        BY <1>3, <3>2
      <4> QED
        BY <1>3, <4>1
    <3> QED
      BY <3>1, <3>2
  <2>3. PICK m \in 1 .. n : Len(ex[e]) = m
    <3>1. n \in 1 .. n /\ 1 \in 1 .. n
      BY <1>1
    <3> QED
      BY <2>2, <3>1, Zenon
  <2>4. PICK k \in 1 .. Len(ex[e]) :
               v = [ref |-> <<e, k>>, ams |-> IsAmsFeed(k, ex[e]),
                    label |-> <<ExtruderLabel(e, tools), SlotLabel(k, ex[e], tools)>>,
                    short |-> <<ExtruderLabel(e, tools), ShortLabel(k, ex[e], tools)>>]
    BY <2>1
  <2>5. k \in 1 .. m
    BY <2>3, Zenon
  <2>6. k \in 1 .. n
    BY <1>1, <2>5
  <2> QED
    BY <2>4, <2>6
<1> HIDE DEF ex
<1>5. f \in [views -> refs]
  <2>1. ASSUME NEW v \in views PROVE v.ref \in refs
    BY <1>4
  <2> QED
    BY <2>1
<1>6. ASSUME NEW v \in views, NEW w \in views, f[v] = f[w] PROVE v = w
  <2>1. v.ref = w.ref
    BY <1>6
  <2>2. PICK e \in 1 .. tools, k \in 1 .. n :
               v = [ref |-> <<e, k>>, ams |-> IsAmsFeed(k, ex[e]),
                    label |-> <<ExtruderLabel(e, tools), SlotLabel(k, ex[e], tools)>>,
                    short |-> <<ExtruderLabel(e, tools), ShortLabel(k, ex[e], tools)>>]
    BY <1>4
  <2>3. PICK i \in 1 .. tools, j \in 1 .. n :
               w = [ref |-> <<i, j>>, ams |-> IsAmsFeed(j, ex[i]),
                    label |-> <<ExtruderLabel(i, tools), SlotLabel(j, ex[i], tools)>>,
                    short |-> <<ExtruderLabel(i, tools), ShortLabel(j, ex[i], tools)>>]
    BY <1>4
  <2>4. e = i /\ k = j
    BY <2>1, <2>2, <2>3
  <2> QED
    BY <2>2, <2>3, <2>4
<1> HIDE DEF f, refs, views
<1>7. f \in Injection(views, refs)
  BY <1>5, <1>6 DEF Injection, IsInjective
<1>8. IsFiniteSet(views)
  BY <1>2, <1>7, FS_Injection
<1> QED
  BY <1>8 DEF views, ex

(* The unit and the place that name an AMS slot are its tray's and the number sent. *)
LEMMA PlaceIsTheTray ==
    ASSUME NEW n \in Sizes, SlotsOK(slots, n), NEW k \in 1 .. n - 1
    PROVE  LET at == AmsPosition(k, slots)
           IN /\ TrayAt(k) = <<at.unit, at.index - 1>>
              /\ Mapping(slots, [m \in {1} |-> k])[1] = at.unit * PerUnit + at.index - 1
<1>0. PerUnit \in Nat \ {0}
  BY SpoolAssumption, Zenon
<1>1. PICK q \in Nat, r \in 0 .. PerUnit - 1 :
        /\ k - 1 = q * PerUnit + r
        /\ AmsPosition(k, slots).unit = q /\ AmsPosition(k, slots).index = r + 1
        /\ TrayAt(k) = <<q, r>>
  BY PlaceShape
<1>2. r + 1 - 1 = r /\ q * PerUnit + (r + 1) - 1 = q * PerUnit + r
  BY <1>0
<1>3. TrayAt(k) = <<AmsPosition(k, slots).unit, AmsPosition(k, slots).index - 1>>
  BY <1>1, <1>2
<1>4. IsAms(slots, k) /\ AmsBefore(slots, k) = k - 1
  BY Counted
<1>5. Mapping(slots, [m \in {1} |-> k])[1] = k - 1
  BY <1>4 DEF Mapping
<1>6. Mapping(slots, [m \in {1} |-> k])[1]
        = AmsPosition(k, slots).unit * PerUnit + AmsPosition(k, slots).index - 1
  BY <1>1, <1>2, <1>5
<1> QED
  BY <1>3, <1>6

LEMMA UnitsAre ==
    ASSUME NEW n \in Sizes, SlotsOK(slots, n), NEW tools \in Nat, tools >= 1
    PROVE  Rebuild(slots, AmsUnitsOf(ExtrudersOf(tools))) = slots
<1>0. PerUnit \in Nat \ {0}
  BY SpoolAssumption, Zenon
<1>1. PICK u \in 1 .. MaxUnits : n = PerUnit * u + 1
  BY SizeType
<1>2. AmsCount(slots) = n - 1 /\ Len(slots) = n
  BY Counted
<1>3. u \in 0 .. MaxUnits /\ u \in Nat
  OBVIOUS
<1>4. PerUnit * u \in Nat
  BY <1>3, Whole
<1>5. AmsCount(slots) = PerUnit * u
  BY <1>1, <1>2, <1>4
<1>6. (PerUnit * u) \div PerUnit = u
  BY <1>0, <1>3, SMTT(30)
<1>7. AmsUnitsOf(ExtrudersOf(tools)) = AmsCount(slots) \div PerUnit
  BY ExtrudersAre DEF AmsUnitsOf
<1>8. AmsUnitsOf(ExtrudersOf(tools)) = u
  BY <1>5, <1>6, <1>7
<1> QED
  BY <1>1, <1>2, <1>8 DEF Rebuild

LEMMA NamesTrue == ASSUME SpoolInv PROVE NamesAreTrue
<1>1. PICK n \in Sizes : SlotsOK(slots, n)
  BY DEF SpoolInv, SpoolTypes
<1> SUFFICES ASSUME NEW tools \in 1 .. MaxTools
             PROVE  LET extruders == ExtrudersOf(tools)
                        views == FlattenSlots(extruders)
                    IN /\ Cardinality({v.label : v \in views}) = Cardinality(views)
                       /\ Cardinality({v.short : v \in views}) = Cardinality(views)
                       /\ \A v \in {v \in views : v.ams} :
                            LET at == AmsPosition(v.ref[2], extruders[v.ref[1]])
                                sent == Mapping(slots, [m \in {1} |-> v.ref[2]])[1]
                            IN /\ TrayAt(v.ref[2]) = <<at.unit, at.index - 1>>
                               /\ AmsCount(slots) <= PerUnit =>
                                    at.unit = 0 /\ sent = at.index - 1
                       /\ Rebuild(slots, AmsUnitsOf(extruders)) = slots
  BY DEF NamesAreTrue
<1>2. tools \in Nat /\ tools >= 1
  <2>1. MaxTools \in Nat
    BY SpoolAssumption, Zenon
  <2> QED
    BY <2>1
<1> DEFINE ex == ExtrudersOf(tools)
           views == FlattenSlots(ex)
<1>3. IsFiniteSet(views)
  BY <1>1, <1>2, ViewsFinite
<1>4. ASSUME NEW v \in views, NEW w \in views, v.label = w.label \/ v.short = w.short
      PROVE  v = w
  BY <1>1, <1>2, <1>4, NameIsOne
<1>5. Cardinality({v.label : v \in views}) = Cardinality(views)
  <2> HIDE DEF views
  <2> DEFINE f == [v \in views |-> v.label]
             T == {v.label : v \in views}
  <2>1. f \in [views -> T] /\ \A t \in T : \E a \in views : f[a] = t
    OBVIOUS
  <2>2. \A a, b \in views : f[a] = f[b] => a = b
    BY <1>4
  <2> HIDE DEF f, T
  <2>3. Cardinality(T) = Cardinality(views)
    BY <1>3, <2>1, <2>2, SameCount
  <2> QED
    BY <2>3 DEF T
<1>6. Cardinality({v.short : v \in views}) = Cardinality(views)
  <2> HIDE DEF views
  <2> DEFINE f == [v \in views |-> v.short]
             T == {v.short : v \in views}
  <2>1. f \in [views -> T] /\ \A t \in T : \E a \in views : f[a] = t
    OBVIOUS
  <2>2. \A a, b \in views : f[a] = f[b] => a = b
    BY <1>4
  <2> HIDE DEF f, T
  <2>3. Cardinality(T) = Cardinality(views)
    BY <1>3, <2>1, <2>2, SameCount
  <2> QED
    BY <2>3 DEF T
<1>7. ASSUME NEW v \in views, v.ams
      PROVE  /\ TrayAt(v.ref[2]) = <<AmsPosition(v.ref[2], ex[v.ref[1]]).unit,
                                     AmsPosition(v.ref[2], ex[v.ref[1]]).index - 1>>
             /\ AmsCount(slots) <= PerUnit =>
                  /\ AmsPosition(v.ref[2], ex[v.ref[1]]).unit = 0
                  /\ Mapping(slots, [m \in {1} |-> v.ref[2]])[1]
                       = AmsPosition(v.ref[2], ex[v.ref[1]]).index - 1
  <2>1. /\ Len(ex) = tools /\ ex[1] = slots /\ Len(Direct) = 1 /\ Direct[1].feed = "direct"
        /\ \A e \in 1 .. tools : e # 1 => ex[e] = Direct
    BY <1>2, ExtrudersAre
  <2>2. \E e \in 1 .. tools : \E k \in 1 .. Len(ex[e]) :
          v.ref = <<e, k>> /\ v.ams = IsAmsFeed(k, ex[e])
    <3>1. \E e \in 1 .. Len(ex) : \E k \in 1 .. Len(ex[e]) :
              v = [ref |-> <<e, k>>, ams |-> IsAmsFeed(k, ex[e]),
                   label |-> <<ExtruderLabel(e, Len(ex)), SlotLabel(k, ex[e], Len(ex))>>,
                   short |-> <<ExtruderLabel(e, Len(ex)), ShortLabel(k, ex[e], Len(ex))>>]
      BY ViewIs
    <3> HIDE DEF ex
    <3> QED
      BY <2>1, <3>1
  <2>3. PICK e \in 1 .. tools : \E k \in 1 .. Len(ex[e]) :
          v.ref = <<e, k>> /\ v.ams = IsAmsFeed(k, ex[e])
    BY <2>2
  <2>4. PICK k \in 1 .. Len(ex[e]) : v.ref = <<e, k>> /\ v.ams = IsAmsFeed(k, ex[e])
    BY <2>3
  <2> HIDE DEF ex
  <2>5. IsAmsFeed(k, ex[e])
    BY <1>7, <2>4
  <2>6. e = 1
    <3> SUFFICES ASSUME e # 1 PROVE FALSE
      OBVIOUS
    <3>1. ex[e] = Direct
      BY <2>1
    <3>2. k = 1
      <4>1. k \in 1 .. 1
        BY <2>1, <3>1
      <4> QED
        BY <4>1
    <3>3. Direct[1].feed = "ams"
      BY <2>5, <3>1, <3>2 DEF IsAmsFeed
    <3> QED
      BY <2>1, <3>3
  <2>7. ex[e] = slots /\ v.ref[1] = 1 /\ v.ref[2] = k /\ ex[v.ref[1]] = slots
    BY <2>1, <2>4, <2>6
  <2>8. k \in 1 .. n - 1
    <3>1. n \in Nat /\ Len(slots) = n
      BY <1>1, Counted
    <3>2. k \in 1 .. n /\ slots[k].feed = "ams"
      BY <2>5, <2>7, <3>1 DEF IsAmsFeed
    <3>3. k # n
      BY <1>1, <3>2 DEF SlotsOK
    <3> QED
      BY <3>1, <3>2, <3>3
  <2>9. /\ TrayAt(k) = <<AmsPosition(k, slots).unit, AmsPosition(k, slots).index - 1>>
        /\ Mapping(slots, [m \in {1} |-> k])[1]
             = AmsPosition(k, slots).unit * PerUnit + AmsPosition(k, slots).index - 1
    BY <1>1, <2>8, PlaceIsTheTray
  <2>10. ASSUME AmsCount(slots) <= PerUnit
         PROVE  /\ AmsPosition(k, slots).unit = 0
                /\ Mapping(slots, [m \in {1} |-> k])[1] = AmsPosition(k, slots).index - 1
    <3>1. PerUnit \in Nat \ {0} /\ k - 1 \in 0 .. PerUnit - 1
      <4>1. n \in Nat /\ AmsCount(slots) = n - 1
        BY <1>1, Counted
      <4>2. PerUnit \in Nat \ {0}
        BY SpoolAssumption, Zenon
      <4> QED
        BY <2>8, <2>10, <4>1, <4>2
    <3>2. (k - 1) \div PerUnit = 0 /\ (k - 1) % PerUnit = k - 1
      BY <3>1, SMTT(30)
    <3>3. AmsBefore(slots, k) = k - 1
      BY <1>1, <2>8, Counted
    <3>4. AmsPosition(k, slots) = [unit |-> 0, index |-> k - 1 + 1]
      BY <3>2, <3>3 DEF AmsPosition
    <3>5. AmsPosition(k, slots).unit = 0 /\ AmsPosition(k, slots).index = k - 1 + 1
      BY <3>4
    <3>6. Mapping(slots, [m \in {1} |-> k])[1] = AmsBefore(slots, k)
      <4>1. IsAms(slots, k)
        BY <1>1, <2>8, Counted
      <4> QED
        BY <4>1 DEF Mapping
    <3> QED
      BY <3>1, <3>3, <3>5, <3>6
  <2> QED
    BY <2>7, <2>9, <2>10
<1>8. Rebuild(slots, AmsUnitsOf(ex)) = slots
  BY <1>1, <1>2, UnitsAre
<1> HIDE DEF views, ex
<1>9. /\ Cardinality({v.label : v \in views}) = Cardinality(views)
      /\ Cardinality({v.short : v \in views}) = Cardinality(views)
      /\ \A v \in {v \in views : v.ams} :
           LET at == AmsPosition(v.ref[2], ex[v.ref[1]])
               sent == Mapping(slots, [m \in {1} |-> v.ref[2]])[1]
           IN /\ TrayAt(v.ref[2]) = <<at.unit, at.index - 1>>
              /\ AmsCount(slots) <= PerUnit => at.unit = 0 /\ sent = at.index - 1
      /\ Rebuild(slots, AmsUnitsOf(ex)) = slots
  BY <1>5, <1>6, <1>7, <1>8
<1> QED
  BY <1>9 DEF views, ex

(* What the app knows and says of the spools is what the printer has, in every *)
(* behaviour of the printer, its reports, the syncs and the user's picks, for  *)
(* every number and size of units, every set of filaments and every label; the *)
(* tray a print is sent to is claimed for a printer of one unit only.          *)
THEOREM SlotsStayTrue == SpoolSpec => []SlotsAreTrue
<1>1. SpoolInit => SpoolInv
  BY SpoolStart
<1>2. SpoolInv /\ [SpoolUserActs \/ SpoolSteps]_spoolVars => SpoolInv'
  BY SpoolStep
<1>3. SpoolInv => SlotsAreTrue
  <2> SUFFICES ASSUME SpoolInv PROVE SlotsAreTrue
    OBVIOUS
  <2>1. StatusTracksPrinter
    BY StatusIsTrue DEF StatusTracksPrinter
  <2>2. SyncAgrees /\ PickSurvivesSync
    <3>1. CASE UpToDate
      BY <3>1, SyncIsTrue
    <3>2. CASE ~UpToDate
      BY <3>2 DEF SyncAgrees, PickSurvivesSync
    <3> QED
      BY <3>1, <3>2
  <2>3. SpoolTypeOK /\ RoutesAgree /\ OneKPerTray /\ CaliIsOfTheSpool
    BY SpoolsTyped, RoutesTrue, OneKTrue, CaliTrue
  <2>4. NamesAreTrue
    BY NamesTrue
  <2> QED
    BY <2>1, <2>2, <2>3, <2>4 DEF SlotsAreTrue, SpoolsAreTrue
<1> QED
  BY <1>1, <1>2, <1>3, PTL DEF SpoolSpec

-----------------------------------------------------------------------------
(*****************************************************************************)
(* The Moonraker session, for any number of toolheads and of changes,        *)
(* however the reports are cut into patches and wherever the link is lost.   *)
(* Of every field, what the session has been told last, or is still to read, *)
(* is what the printer is at (Current); and a map has nothing else in it     *)
(* (MapOK), so what is not a toolhead of this printer is not shown as one.   *)
(*****************************************************************************)

(* What a map says of a field of the printer. *)
Says(map, f) == f[1] \in DOMAIN map /\ f[2] \in DOMAIN map[f[1]]
Value(map, f) == map[f[1]][f[2]]

(* A map of what was subscribed to. *)
MapOK(map) ==
    /\ DOMAIN map \subseteq Objects
    /\ \A o \in DOMAIN map : DOMAIN map[o] \subseteq FieldsOf(o)

MessageOK(m) ==
    /\ m.kind \in {"notify", "reply"} /\ MapOK(m.map)
    /\ m.kind = "reply" => \A f \in Fields : Says(m.map, f)

(* At most one message answers the subscription. *)
WireOK(w) ==
    /\ w \in Seq({w[i] : i \in 1 .. Len(w)})
    /\ \A i \in 1 .. Len(w) : MessageOK(w[i])
    /\ \A i, j \in 1 .. Len(w) : w[i].kind = "reply" /\ w[j].kind = "reply" => i = j

Answered(w) == \E i \in 1 .. Len(w) : w[i].kind = "reply"

(* The last that is said of the field is what the printer is at. *)
Arriving(w, p, f) ==
    \E i \in 1 .. Len(w) :
        /\ Says(w[i].map, f) /\ Value(w[i].map, f) = p[f]
        /\ \A j \in (i + 1) .. Len(w) : ~Says(w[j].map, f)
Landed(w, m, p, f) ==
    /\ \A j \in 1 .. Len(w) : ~Says(w[j].map, f)
    /\ Says(m, f) /\ Value(m, f) = p[f]
Current(w, m, p) == \A f \in Fields : Arriving(w, p, f) \/ Landed(w, m, p, f)

Followed ==
    /\ phase = "live" => ~Answered(wire)
    /\ phase = "live" \/ (phase = "subscribing" /\ Answered(wire)) => Current(wire, status, printer)

ShownOK ==
    /\ shown = [job |-> shown.job, nozzles |-> shown.nozzles,
                filaments |-> shown.filaments, connection |-> shown.connection]
    /\ phase = "live" => /\ shown.job = JobOf(status) /\ shown.nozzles = Nozzles(status)
                         /\ shown.filaments = Get(status, "print_task_config", "filament_type", <<>>)

SessionInv ==
    /\ SessionTypeOK /\ WireOK(wire) /\ MapOK(status)
    /\ printer = [f \in Fields |-> printer[f]]
    /\ Followed /\ ShownOK

-----------------------------------------------------------------------------
LEMMA FieldIs ==
    /\ \A f \in Fields : f = <<f[1], f[2]>> /\ f[1] \in Objects /\ f[2] \in FieldsOf(f[1])
    /\ \A n \in 1 .. MaxToolheads, k \in 1 .. MaxToolheads : Extruder(n) = Extruder(k) => n = k
    /\ \A n \in 1 .. MaxToolheads : Extruder(n) \notin {"print_stats", "print_task_config"}
<1>1. Toolheads \in 1 .. MaxToolheads /\ MaxToolheads \in 1 .. 4
  BY ToolheadsAssumption, Zenon
<1>2. \A n \in 1 .. 4 : n = 1 \/ n = 2 \/ n = 3 \/ n = 4
  OBVIOUS
<1>3. /\ Extruder(1) = "extruder" /\ Extruder(2) = "extruder1"
      /\ Extruder(3) = "extruder2" /\ Extruder(4) = "extruder3"
  BY DEF Extruder
<1>4. \A n \in 1 .. 4, k \in 1 .. 4 : Extruder(n) = Extruder(k) => n = k
  BY <1>2, <1>3
<1>5. \A n \in 1 .. 4 : Extruder(n) \notin {"print_stats", "print_task_config"}
  BY <1>2, <1>3
<1>6. 1 .. MaxToolheads \subseteq 1 .. 4 /\ 1 .. Toolheads \subseteq 1 .. MaxToolheads
  BY <1>1
<1>7. ASSUME NEW f \in Fields PROVE f = <<f[1], f[2]>> /\ f[1] \in Objects
  <2>1. CASE f \in {<<"print_stats", "state">>, <<"print_task_config", "filament_type">>}
    BY <2>1 DEF Objects
  <2>2. CASE f \in {<<Extruder(n), x>> : n \in 1 .. Toolheads, x \in {"temperature", "target"}}
    <3>1. PICK n \in 1 .. Toolheads, x \in {"temperature", "target"} : f = <<Extruder(n), x>>
      BY <2>2
    <3> QED
      BY <3>1, <1>6 DEF Objects
  <2> QED
    BY <2>1, <2>2, <1>7 DEF Fields
<1>8. ASSUME NEW f \in Fields PROVE f[2] \in FieldsOf(f[1])
  BY <1>7, <1>8, Zenon DEF FieldsOf
<1> QED
  BY <1>4, <1>5, <1>6, <1>7, <1>8

LEMMA MergeSays ==
    ASSUME NEW m, NEW u
    PROVE  /\ MapOK(m) /\ MapOK(u) => MapOK(MergeStatus(m, u))
           /\ \A f : /\ Says(MergeStatus(m, u), f) <=> (Says(m, f) \/ Says(u, f))
                     /\ Says(u, f) => Value(MergeStatus(m, u), f) = Value(u, f)
                     /\ Says(m, f) /\ ~Says(u, f) => Value(MergeStatus(m, u), f) = Value(m, f)
<1> DEFINE r == MergeStatus(m, u)
<1>1. DOMAIN r = DOMAIN m \cup DOMAIN u
  BY DEF MergeStatus
<1>2. ASSUME NEW o \in DOMAIN m, o \in DOMAIN u
      PROVE /\ DOMAIN r[o] = DOMAIN m[o] \cup DOMAIN u[o]
            /\ \A x \in DOMAIN u[o] : r[o][x] = u[o][x]
            /\ \A x \in DOMAIN m[o] \ DOMAIN u[o] : r[o][x] = m[o][x]
  <2>1. r[o] = Overlay(u[o], m[o])
    BY <1>2 DEF MergeStatus
  <2> QED
    BY <2>1 DEF Overlay
<1>3. \A o \in DOMAIN m \ DOMAIN u : r[o] = m[o]
  BY DEF MergeStatus
<1>4. \A o \in DOMAIN u \ DOMAIN m : r[o] = u[o]
  BY DEF MergeStatus
<1> HIDE DEF r
<1>5. ASSUME MapOK(m), MapOK(u) PROVE MapOK(r)
  BY <1>1, <1>2, <1>3, <1>4, <1>5 DEF MapOK
<1>6. ASSUME NEW f
      PROVE /\ Says(r, f) <=> (Says(m, f) \/ Says(u, f))
            /\ Says(u, f) => Value(r, f) = Value(u, f)
            /\ Says(m, f) /\ ~Says(u, f) => Value(r, f) = Value(m, f)
  <2>1. CASE f[1] \in DOMAIN m /\ f[1] \in DOMAIN u
    BY <2>1, <1>1, <1>2 DEF Says, Value
  <2>2. CASE f[1] \in DOMAIN m \ DOMAIN u
    BY <2>2, <1>1, <1>3 DEF Says, Value
  <2>3. CASE f[1] \in DOMAIN u \ DOMAIN m
    BY <2>3, <1>1, <1>4 DEF Says, Value
  <2>4. CASE f[1] \notin DOMAIN u /\ f[1] \notin DOMAIN m
    BY <2>4, <1>1 DEF Says, Value
  <2> QED
    BY <2>1, <2>2, <2>3, <2>4
<1> QED
  BY <1>5, <1>6 DEF r

LEMMA PatchSays ==
    ASSUME NEW f \in Fields, NEW v
    PROVE  /\ MapOK(Patch(f, v))
           /\ \A g \in Fields : Says(Patch(f, v), g) <=> g = f
           /\ Value(Patch(f, v), f) = v
<1>1. f = <<f[1], f[2]>> /\ f[1] \in Objects /\ f[2] \in FieldsOf(f[1])
  BY FieldIs
<1>2. /\ DOMAIN Patch(f, v) = {f[1]} /\ DOMAIN Patch(f, v)[f[1]] = {f[2]}
      /\ Patch(f, v)[f[1]][f[2]] = v
  BY DEF Patch
<1>3. ASSUME NEW g \in Fields PROVE Says(Patch(f, v), g) <=> g = f
  <2>1. g = <<g[1], g[2]>>
    BY FieldIs
  <2>2. Says(Patch(f, v), g) <=> g[1] = f[1] /\ g[2] = f[2]
    BY <1>2 DEF Says
  <2> QED
    BY <1>1, <2>1, <2>2
<1> QED
  BY <1>1, <1>2, <1>3 DEF MapOK, Value

LEMMA SnapshotSays ==
    /\ MapOK(Snapshot)
    /\ \A f \in Fields : Says(Snapshot, f) /\ Value(Snapshot, f) = printer[f]
<1>1. DOMAIN Snapshot = Objects
  BY DEF Snapshot
<1>2. \A o \in Objects : DOMAIN Snapshot[o] = FieldsOf(o)
  BY DEF Snapshot
<1>3. \A o \in Objects : \A x \in FieldsOf(o) : Snapshot[o][x] = printer[<<o, x>>]
  BY DEF Snapshot
<1> QED
  BY <1>1, <1>2, <1>3, FieldIs DEF MapOK, Says, Value

LEMMA OwnRange ==
    ASSUME NEW S, NEW w \in Seq(S)
    PROVE  w \in Seq({w[i] : i \in 1 .. Len(w)})
<1> DEFINE R == {w[i] : i \in 1 .. Len(w)}
<1>1. Len(w) \in Nat /\ w \in [1 .. Len(w) -> S]
  OBVIOUS
<1>2. w \in [1 .. Len(w) -> R]
  BY <1>1
<1> HIDE DEF R
<1>3. w \in Seq(R)
  BY <1>1, <1>2
<1> QED
  BY <1>3 DEF R

LEMMA TailOK ==
    ASSUME NEW w, WireOK(w), w # << >>
    PROVE  /\ Len(w) \in Nat \ {0} /\ Head(w) = w[1] /\ MessageOK(Head(w))
           /\ Len(Tail(w)) = Len(w) - 1
           /\ \A i \in 1 .. Len(w) - 1 : Tail(w)[i] = w[i + 1]
           /\ WireOK(Tail(w))
           /\ Head(w).kind = "reply" => ~Answered(Tail(w))
           /\ Answered(w) /\ Head(w).kind # "reply" => Answered(Tail(w))
           /\ ~Answered(w) => Head(w).kind # "reply" /\ ~Answered(Tail(w))
<1> DEFINE R == {w[i] : i \in 1 .. Len(w)}
<1>1. w \in Seq(R)
  BY DEF WireOK
<1> HIDE DEF R
<1>2. /\ Len(w) \in Nat \ {0} /\ Head(w) = w[1] /\ Tail(w) \in Seq(R)
      /\ Len(Tail(w)) = Len(w) - 1
      /\ \A i \in 1 .. Len(w) - 1 : Tail(w)[i] = w[i + 1]
  BY <1>1
<1>3. Tail(w) \in Seq({Tail(w)[i] : i \in 1 .. Len(Tail(w))})
  <2>1. Tail(w) \in Seq(R)
    BY <1>2, Zenon
  <2> QED
    BY <2>1, OwnRange, Zenon
<1>4. /\ \A i \in 1 .. Len(w) : MessageOK(w[i])
      /\ \A i, j \in 1 .. Len(w) : w[i].kind = "reply" /\ w[j].kind = "reply" => i = j
  BY DEF WireOK
<1>5. \A i \in 1 .. Len(Tail(w)) : i + 1 \in 1 .. Len(w) /\ Tail(w)[i] = w[i + 1]
  BY <1>2
<1>6. \A i \in 1 .. Len(Tail(w)) : MessageOK(Tail(w)[i])
  BY <1>4, <1>5
<1>7. \A i, j \in 1 .. Len(Tail(w)) :
         Tail(w)[i].kind = "reply" /\ Tail(w)[j].kind = "reply" => i = j
  <2> SUFFICES ASSUME NEW i \in 1 .. Len(Tail(w)), NEW j \in 1 .. Len(Tail(w)),
                      Tail(w)[i].kind = "reply", Tail(w)[j].kind = "reply"
               PROVE  i = j
    OBVIOUS
  <2>1. i + 1 = j + 1
    BY <1>4, <1>5
  <2> QED
    BY <2>1, <1>2
<1>8. WireOK(Tail(w))
  BY <1>3, <1>6, <1>7, Zenon DEF WireOK
<1>9. 1 \in 1 .. Len(w) /\ MessageOK(Head(w))
  BY <1>2, <1>4
<1>10. ASSUME Head(w).kind = "reply" PROVE ~Answered(Tail(w))
  <2> SUFFICES ASSUME NEW i \in 1 .. Len(Tail(w)), Tail(w)[i].kind = "reply" PROVE FALSE
    BY DEF Answered
  <2>1. i + 1 = 1
    BY <1>2, <1>4, <1>5, <1>9, <1>10
  <2> QED
    BY <2>1, <1>2
<1>11. ASSUME Answered(w), Head(w).kind # "reply" PROVE Answered(Tail(w))
  <2>1. PICK i \in 1 .. Len(w) : w[i].kind = "reply"
    BY <1>11 DEF Answered
  <2>2. i # 1
    BY <2>1, <1>11, <1>2
  <2>3. i - 1 \in 1 .. Len(Tail(w)) /\ (i - 1) + 1 = i
    BY <2>1, <2>2, <1>2
  <2>4. Tail(w)[i - 1].kind = "reply"
    BY <2>1, <2>3, <1>5
  <2> QED
    BY <2>3, <2>4 DEF Answered
<1>12. ASSUME ~Answered(w) PROVE Head(w).kind # "reply" /\ ~Answered(Tail(w))
  BY <1>12, <1>2, <1>5, <1>9 DEF Answered
<1> QED
  BY <1>2, <1>8, <1>9, <1>10, <1>11, <1>12

LEMMA AppendOK ==
    ASSUME NEW w, WireOK(w), NEW m, MessageOK(m), m.kind = "reply" => ~Answered(w)
    PROVE  /\ WireOK(Append(w, m)) /\ Len(w) \in Nat
           /\ Len(Append(w, m)) = Len(w) + 1 /\ Append(w, m)[Len(w) + 1] = m
           /\ \A i \in 1 .. Len(w) : Append(w, m)[i] = w[i]
           /\ Answered(Append(w, m)) <=> Answered(w) \/ m.kind = "reply"
<1> DEFINE R == {w[i] : i \in 1 .. Len(w)}
           a == Append(w, m)
<1>1. w \in Seq(R)
  BY DEF WireOK
<1> HIDE DEF R
<1>2. w \in Seq(R \cup {m}) /\ Len(w) \in Nat
  BY <1>1
<1>3. /\ a \in Seq(R \cup {m}) /\ Len(a) = Len(w) + 1 /\ a[Len(w) + 1] = m
      /\ \A i \in 1 .. Len(w) : a[i] = w[i]
  BY <1>2
<1>4. a \in Seq({a[i] : i \in 1 .. Len(a)})
  BY <1>3, OwnRange
<1> HIDE DEF a
<1>5. /\ \A i \in 1 .. Len(w) : MessageOK(w[i])
      /\ \A i, j \in 1 .. Len(w) : w[i].kind = "reply" /\ w[j].kind = "reply" => i = j
  BY DEF WireOK
<1>6. \A i \in 1 .. Len(a) : (i \in 1 .. Len(w) /\ a[i] = w[i]) \/ (i = Len(w) + 1 /\ a[i] = m)
  BY <1>2, <1>3
<1>7. \A i \in 1 .. Len(a) : MessageOK(a[i])
  BY <1>5, <1>6
<1>8. \A i, j \in 1 .. Len(a) : a[i].kind = "reply" /\ a[j].kind = "reply" => i = j
  BY <1>5, <1>6 DEF Answered
<1>9. WireOK(a)
  BY <1>4, <1>7, <1>8, Zenon DEF WireOK
<1>10. Len(w) + 1 \in 1 .. Len(a) /\ 1 .. Len(w) \subseteq 1 .. Len(a)
  BY <1>2, <1>3
<1>11. Answered(a) <=> Answered(w) \/ m.kind = "reply"
  BY <1>3, <1>6, <1>10 DEF Answered
<1> QED
  BY <1>2, <1>3, <1>9, <1>11 DEF a

(* Reading a message keeps what is said last ... *)
LEMMA ReadKeeps ==
    ASSUME NEW w, WireOK(w), w # << >>, NEW m, NEW p, Current(w, m, p)
    PROVE  Current(Tail(w), MergeStatus(m, Head(w).map), p)
<1> DEFINE r == MergeStatus(m, Head(w).map)
<1> SUFFICES ASSUME NEW f \in Fields
             PROVE  Arriving(Tail(w), p, f) \/ Landed(Tail(w), r, p, f)
  BY DEF Current
<1>1. /\ Len(w) \in Nat \ {0} /\ Head(w) = w[1] /\ Len(Tail(w)) = Len(w) - 1
      /\ \A i \in 1 .. Len(w) - 1 : Tail(w)[i] = w[i + 1]
  BY TailOK
<1>2. /\ Says(w[1].map, f) => Says(r, f) /\ Value(r, f) = Value(w[1].map, f)
      /\ Says(m, f) /\ ~Says(w[1].map, f) => Says(r, f) /\ Value(r, f) = Value(m, f)
  BY <1>1, MergeSays
<1> HIDE DEF r
<1>3. CASE Arriving(w, p, f)
  <2>1. PICK i \in 1 .. Len(w) : /\ Says(w[i].map, f) /\ Value(w[i].map, f) = p[f]
                                 /\ \A j \in (i + 1) .. Len(w) : ~Says(w[j].map, f)
    BY <1>3 DEF Arriving
  <2>2. CASE i = 1
    <3>1. \A j \in 1 .. Len(Tail(w)) : ~Says(Tail(w)[j].map, f)
      BY <1>1, <2>1, <2>2
    <3> QED
      BY <3>1, <1>2, <2>1, <2>2 DEF Landed
  <2>3. CASE i # 1
    <3>1. i - 1 \in 1 .. Len(Tail(w)) /\ Tail(w)[i - 1] = w[i]
      BY <1>1, <2>1, <2>3
    <3>2. \A j \in ((i - 1) + 1) .. Len(Tail(w)) : ~Says(Tail(w)[j].map, f)
      BY <1>1, <2>1
    <3> QED
      BY <3>1, <3>2, <2>1 DEF Arriving
  <2> QED
    BY <2>2, <2>3
<1>4. CASE Landed(w, m, p, f)
  <2>1. \A j \in 1 .. Len(w) : ~Says(w[j].map, f)
    BY <1>4 DEF Landed
  <2>2. \A j \in 1 .. Len(Tail(w)) : ~Says(Tail(w)[j].map, f)
    BY <1>1, <2>1
  <2>3. ~Says(w[1].map, f)
    BY <1>1, <2>1
  <2> QED
    BY <2>2, <2>3, <1>2, <1>4 DEF Landed
<1> QED
  BY <1>3, <1>4 DEF Current

(* ... and so does skipping one, when the answer that says everything is behind it. *)
LEMMA SkipKeeps ==
    ASSUME NEW w, WireOK(w), w # << >>, NEW m, NEW n, NEW p, Current(w, m, p),
           Answered(Tail(w))
    PROVE  Current(Tail(w), n, p)
<1> SUFFICES ASSUME NEW f \in Fields PROVE Arriving(Tail(w), p, f)
  BY DEF Current
<1>1. /\ Len(w) \in Nat \ {0} /\ Len(Tail(w)) = Len(w) - 1
      /\ \A i \in 1 .. Len(w) - 1 : Tail(w)[i] = w[i + 1]
      /\ WireOK(Tail(w))
  BY TailOK
<1>2. PICK a \in 1 .. Len(Tail(w)) : Tail(w)[a].kind = "reply"
  BY DEF Answered
<1>3. Says(Tail(w)[a].map, f)
  BY <1>1, <1>2 DEF WireOK, MessageOK
<1>4. a + 1 \in 1 .. Len(w) /\ Says(w[a + 1].map, f)
  BY <1>1, <1>2, <1>3
<1>5. PICK i \in 1 .. Len(w) : /\ Says(w[i].map, f) /\ Value(w[i].map, f) = p[f]
                               /\ \A j \in (i + 1) .. Len(w) : ~Says(w[j].map, f)
  BY <1>4 DEF Current, Arriving, Landed
<1>6. i # 1
  BY <1>1, <1>2, <1>4, <1>5
<1>7. i - 1 \in 1 .. Len(Tail(w)) /\ Tail(w)[i - 1] = w[i]
  BY <1>1, <1>5, <1>6
<1>8. \A j \in ((i - 1) + 1) .. Len(Tail(w)) : ~Says(Tail(w)[j].map, f)
  BY <1>1, <1>5
<1> QED
  BY <1>5, <1>7, <1>8 DEF Arriving

(* What the printer sends is what it is at: all of it when it answers, one      *)
(* field when it changes.                                                       *)
LEMMA AnswerKeeps ==
    ASSUME NEW w, WireOK(w), NEW m, ~Answered(w)
    PROVE  Current(Append(w, [kind |-> "reply", map |-> Snapshot]), m, printer)
<1> DEFINE a == [kind |-> "reply", map |-> Snapshot]
<1>1. MessageOK(a) /\ a.map = Snapshot
  BY SnapshotSays DEF MessageOK
<1> HIDE DEF a
<1>2. Len(w) \in Nat /\ Len(Append(w, a)) = Len(w) + 1 /\ Append(w, a)[Len(w) + 1] = a
  BY <1>1, AppendOK
<1>3. \A f \in Fields : Arriving(Append(w, a), printer, f)
  BY <1>1, <1>2, SnapshotSays DEF Arriving
<1> QED
  BY <1>3 DEF Current, a

LEMMA ChangeKeeps ==
    ASSUME NEW w, WireOK(w), NEW m, NEW p, p = [f \in Fields |-> p[f]], Current(w, m, p),
           NEW g \in Fields, NEW v
    PROVE  Current(Append(w, [kind |-> "notify", map |-> Patch(g, v)]), m, [p EXCEPT ![g] = v])
<1> DEFINE a == [kind |-> "notify", map |-> Patch(g, v)]
           q == [p EXCEPT ![g] = v]
<1>1. MessageOK(a) /\ a.kind = "notify" /\ a.map = Patch(g, v)
  BY PatchSays DEF MessageOK
<1>2. q[g] = v /\ \A f \in Fields \ {g} : q[f] = p[f]
  OBVIOUS
<1> HIDE DEF a, q
<1>3. /\ Len(w) \in Nat /\ Len(Append(w, a)) = Len(w) + 1 /\ Append(w, a)[Len(w) + 1] = a
      /\ \A i \in 1 .. Len(w) : Append(w, a)[i] = w[i]
  BY <1>1, AppendOK
<1>4. ASSUME NEW f \in Fields PROVE Arriving(Append(w, a), q, f) \/ Landed(Append(w, a), m, q, f)
  <2>1. CASE f = g
    BY <2>1, <1>1, <1>2, <1>3, PatchSays DEF Arriving
  <2>2. CASE f # g
    <3>1. ~Says(a.map, f) /\ q[f] = p[f]
      BY <2>2, <1>1, <1>2, PatchSays
    <3>2. ASSUME NEW i \in 1 .. Len(w), \A j \in (i + 1) .. Len(w) : ~Says(w[j].map, f)
          PROVE  \A j \in (i + 1) .. Len(Append(w, a)) : ~Says(Append(w, a)[j].map, f)
      BY <3>1, <3>2, <1>3
    <3>3. ASSUME \A j \in 1 .. Len(w) : ~Says(w[j].map, f)
          PROVE  \A j \in 1 .. Len(Append(w, a)) : ~Says(Append(w, a)[j].map, f)
      BY <3>1, <3>3, <1>3
    <3>4. CASE Arriving(w, p, f)
      <4>1. PICK i \in 1 .. Len(w) : /\ Says(w[i].map, f) /\ Value(w[i].map, f) = p[f]
                                     /\ \A j \in (i + 1) .. Len(w) : ~Says(w[j].map, f)
        BY <3>4 DEF Arriving
      <4>2. i \in 1 .. Len(Append(w, a)) /\ Append(w, a)[i] = w[i]
        BY <1>3
      <4> QED
        BY <4>1, <4>2, <3>1, <3>2 DEF Arriving
    <3>5. CASE Landed(w, m, p, f)
      BY <3>1, <3>3, <3>5 DEF Landed
    <3> QED
      BY <3>4, <3>5 DEF Current
  <2> QED
    BY <2>1, <2>2
<1> QED
  BY <1>4 DEF Current, a, q

-----------------------------------------------------------------------------
LEMMA EmptyWire == WireOK(<<>>) /\ ~Answered(<<>>)
BY DEF WireOK, Answered

LEMMA SessionStart == SessionInit => SessionInv
<1> SUFFICES ASSUME SessionInit PROVE SessionInv
  OBVIOUS
<1> USE DEF SessionInit
<1>1. DOMAIN Nothing = {} /\ MapOK(Nothing)
  BY DEF Nothing, MapOK
<1>2. SessionTypeOK
  BY <1>1 DEF SessionTypeOK, Decode
<1>3. WireOK(wire)
  BY EmptyWire
<1>4. printer = [f \in Fields |-> printer[f]]
  OBVIOUS
<1>5. ShownOK
  BY DEF ShownOK, Decode
<1>6. Followed
  BY DEF Followed
<1> QED
  BY <1>1, <1>2, <1>3, <1>4, <1>5, <1>6 DEF SessionInv

(* Only the connection of what is shown changes. *)
LEMMA KeepIs ==
    ASSUME ShownOK, NEW c, Keep(c)
    PROVE  /\ shown'.job = shown.job /\ shown'.nozzles = shown.nozzles
           /\ shown'.filaments = shown.filaments /\ shown'.connection = c
           /\ shown' = [job |-> shown'.job, nozzles |-> shown'.nozzles,
                        filaments |-> shown'.filaments, connection |-> shown'.connection]
<1>1. shown = [job |-> shown.job, nozzles |-> shown.nozzles,
               filaments |-> shown.filaments, connection |-> shown.connection]
  BY DEF ShownOK
<1>2. shown' = [shown EXCEPT !.connection = c]
  BY DEF Keep
<1>3. shown' = [job |-> shown.job, nozzles |-> shown.nozzles,
                filaments |-> shown.filaments, connection |-> c]
  BY <1>1, <1>2
<1> QED
  BY <1>3

LEMMA PublishIs ==
    ASSUME NEW c, NEW m, shown' = Decode(m, c)
    PROVE  /\ shown'.job = JobOf(m) /\ shown'.nozzles = Nozzles(m)
           /\ shown'.filaments = Get(m, "print_task_config", "filament_type", <<>>)
           /\ shown'.connection = c
           /\ shown' = [job |-> shown'.job, nozzles |-> shown'.nozzles,
                        filaments |-> shown'.filaments, connection |-> shown'.connection]
<1> DEFINE j == JobOf(m)
           z == Nozzles(m)
           t == Get(m, "print_task_config", "filament_type", <<>>)
<1>1. shown' = [job |-> j, nozzles |-> z, filaments |-> t, connection |-> c]
  BY DEF Decode
<1> HIDE DEF j, z, t
<1>2. /\ shown'.job = j /\ shown'.nozzles = z /\ shown'.filaments = t /\ shown'.connection = c
      /\ shown' = [job |-> shown'.job, nozzles |-> shown'.nozzles,
                   filaments |-> shown'.filaments, connection |-> shown'.connection]
  BY <1>1
<1> QED
  BY <1>2 DEF j, z, t

(* The steps of a worker at its session. *)
LEMMA SessionSteps ==
    ASSUME SessionInv, ~aborted, UNCHANGED aborted,
           Dial \/ Retry \/ Early \/ Subscribed \/ NextStatus \/ LinkLost
    PROVE  SessionInv'
<1>0. /\ SessionTypeOK /\ WireOK(wire) /\ MapOK(status)
      /\ printer = [f \in Fields |-> printer[f]] /\ Followed /\ ShownOK
  BY DEF SessionInv
<1>1. CASE Dial
  <2>1. DOMAIN Nothing = {} /\ MapOK(Nothing)
    BY DEF Nothing, MapOK
  <2>2. /\ phase' = "subscribing" /\ wire' = <<>> /\ status' = Nothing
        /\ UNCHANGED <<printer, slot, shown, aborted>> /\ phase = "dialing"
    BY <1>1 DEF Dial
  <2>3. SessionTypeOK'
    BY <1>0, <2>1, <2>2 DEF SessionTypeOK
  <2>4. WireOK(<<>>) /\ ~Answered(<<>>)
    BY EmptyWire
  <2>5. Followed'
    BY <2>2, <2>4 DEF Followed
  <2>6. ShownOK'
    BY <1>0, <2>2 DEF ShownOK
  <2>7. WireOK(wire') /\ MapOK(status') /\ printer' = [f \in Fields |-> printer'[f]]
    BY <1>0, <2>1, <2>2, <2>4
  <2> QED
    BY <2>3, <2>5, <2>6, <2>7 DEF SessionInv
<1>2. CASE Retry
  <2>1. /\ phase' = "dialing" /\ Keep("connecting") /\ phase = "waiting"
        /\ UNCHANGED <<printer, wire, status, slot, aborted>>
    BY <1>2 DEF Retry
  <2>2. /\ shown'.connection = "connecting"
        /\ shown' = [job |-> shown'.job, nozzles |-> shown'.nozzles,
                     filaments |-> shown'.filaments, connection |-> shown'.connection]
    BY <1>0, <2>1, KeepIs
  <2>3. SessionTypeOK'
    BY <1>0, <2>1, <2>2 DEF SessionTypeOK
  <2>4. Followed' /\ ShownOK'
    BY <2>1, <2>2 DEF Followed, ShownOK
  <2> QED
    BY <1>0, <2>1, <2>3, <2>4 DEF SessionInv
<1>3. CASE LinkLost
  <2>1. /\ phase' = "waiting" /\ Keep("reconnecting") /\ wire' = <<>> /\ slot' = FALSE
        /\ UNCHANGED <<printer, status, aborted>>
    BY <1>3 DEF LinkLost, End
  <2>2. /\ shown'.connection = "reconnecting"
        /\ shown' = [job |-> shown'.job, nozzles |-> shown'.nozzles,
                     filaments |-> shown'.filaments, connection |-> shown'.connection]
    BY <1>0, <2>1, KeepIs
  <2>3. SessionTypeOK'
    BY <1>0, <2>1, <2>2 DEF SessionTypeOK
  <2>4. Followed' /\ ShownOK'
    BY <2>1, <2>2 DEF Followed, ShownOK
  <2>5. WireOK(<<>>)
    BY EmptyWire
  <2> QED
    BY <1>0, <2>1, <2>3, <2>4, <2>5 DEF SessionInv
<1>4. ASSUME Early \/ Subscribed \/ NextStatus PROVE SessionInv'
  <2> DEFINE h == Head(wire)
             r == MergeStatus(status, h.map)
  <2>1. /\ wire # <<>> /\ wire' = Tail(wire)
        /\ UNCHANGED printer
    BY <1>4 DEF Early, Subscribed, NextStatus
  <2>2. /\ WireOK(Tail(wire)) /\ MessageOK(h)
        /\ h.kind = "reply" => ~Answered(Tail(wire))
        /\ Answered(wire) /\ h.kind # "reply" => Answered(Tail(wire))
        /\ ~Answered(wire) => h.kind # "reply" /\ ~Answered(Tail(wire))
    BY <1>0, <2>1, TailOK
  <2>3. MapOK(r)
    BY <1>0, <2>2, MergeSays DEF MessageOK
  <2>4. Current(wire, status, printer) => Current(Tail(wire), r, printer)
    BY <1>0, <2>1, ReadKeeps
  <2>5. Answered(Tail(wire)) /\ Current(wire, status, printer)
          => Current(Tail(wire), status, printer)
    BY <1>0, <2>1, SkipKeeps
  <2>6. 1 \in 1 .. Len(wire) /\ h = wire[1]
    BY <1>0, <2>1, TailOK
  <2>7. h.kind = "reply" => Answered(wire)
    BY <2>6 DEF Answered
  <2>8. DOMAIN r \subseteq Objects
    BY <2>3 DEF MapOK
  <2> HIDE DEF h, r
  <2>9. CASE Early
    <3>1. /\ h.kind = "notify" /\ phase = "subscribing" /\ UNCHANGED <<phase, slot, shown>>
          /\ status' = r \/ status' = status
      BY <2>9 DEF Early, h, r
    <3>2. SessionTypeOK'
      BY <1>0, <3>1, <2>8 DEF SessionTypeOK
    <3>3. Answered(Tail(wire)) => Answered(wire)
      BY <2>2
    <3>4. Followed'
      BY <1>0, <2>1, <2>4, <2>5, <3>1, <3>3 DEF Followed
    <3>5. ShownOK'
      BY <1>0, <3>1 DEF ShownOK
    <3>6. MapOK(status') /\ WireOK(wire')
      BY <1>0, <2>1, <2>2, <2>3, <3>1
    <3> QED
      BY <1>0, <2>1, <3>2, <3>4, <3>5, <3>6 DEF SessionInv
  <2>10. CASE Subscribed \/ NextStatus
    <3>1. /\ phase' = "live" /\ status' = r /\ shown' = Decode(status', "connected")
          /\ \/ phase = "subscribing" /\ h.kind = "reply" /\ slot' = TRUE
             \/ phase = "live" /\ slot' = slot
      <4>1. CASE Subscribed
        BY <4>1 DEF Subscribed, Publish, h, r
      <4>2. CASE NextStatus
        BY <4>2 DEF NextStatus, Publish, h, r
      <4> QED
        BY <2>10, <4>1, <4>2
    <3>2. /\ shown'.job = JobOf(status') /\ shown'.nozzles = Nozzles(status')
          /\ shown'.filaments = Get(status', "print_task_config", "filament_type", <<>>)
          /\ shown'.connection = "connected"
          /\ shown' = [job |-> shown'.job, nozzles |-> shown'.nozzles,
                       filaments |-> shown'.filaments, connection |-> shown'.connection]
      BY <3>1, PublishIs
    <3>3. SessionTypeOK'
      BY <1>0, <3>1, <3>2, <2>8 DEF SessionTypeOK
    <3>4. Current(wire, status, printer) /\ ~Answered(Tail(wire))
      BY <1>0, <2>2, <2>7, <3>1 DEF Followed
    <3>5. Followed'
      BY <2>1, <2>4, <3>1, <3>4 DEF Followed
    <3>6. ShownOK'
      BY <3>2 DEF ShownOK
    <3>7. MapOK(status') /\ WireOK(wire')
      BY <2>1, <2>2, <2>3, <3>1
    <3> QED
      BY <1>0, <2>1, <3>3, <3>5, <3>6, <3>7 DEF SessionInv
  <2> QED
    BY <1>4, <2>9, <2>10
<1> QED
  BY <1>1, <1>2, <1>3, <1>4

(* The user, the last step of an aborted worker, and the printer. *)
LEMMA CommandedSteps ==
    ASSUME SessionInv, SessionConnect \/ SessionDisconnect \/ Aborted
    PROVE  SessionInv'
<1>0. /\ SessionTypeOK /\ WireOK(wire) /\ MapOK(status)
      /\ printer = [f \in Fields |-> printer[f]] /\ Followed /\ ShownOK
  BY DEF SessionInv
<1>1. UNCHANGED <<printer, wire, status>>
  BY DEF SessionConnect, SessionDisconnect, Aborted
<1>2. PICK c \in {"disconnected", "connecting", "connected", "reconnecting"} :
         Keep(c) \/ UNCHANGED shown \/ (\E m : shown' = Decode(m, c))
  BY DEF SessionConnect, SessionDisconnect, Aborted, Publish
<1>3. shown' = [job |-> shown'.job, nozzles |-> shown'.nozzles,
                filaments |-> shown'.filaments, connection |-> shown'.connection]
  <2>1. CASE Keep(c)
    BY <1>0, <2>1, KeepIs
  <2>2. CASE UNCHANGED shown
    BY <1>0, <2>2 DEF ShownOK
  <2>3. CASE \E m : shown' = Decode(m, c)
    BY <2>3, PublishIs
  <2> QED
    BY <1>2, <2>1, <2>2, <2>3
<1>4. WireOK(wire') /\ MapOK(status') /\ printer' = [f \in Fields |-> printer'[f]]
  BY <1>0, <1>1
<1>5. CASE SessionConnect
  <2>1. /\ Keep("connecting") /\ UNCHANGED <<aborted, slot, status>>
        /\ phase = "off" /\ phase' \in {"off", "dialing"}
    BY <1>5 DEF SessionConnect
  <2>2. shown'.connection = "connecting"
    BY <1>0, <2>1, KeepIs
  <2>3. SessionTypeOK'
    BY <1>0, <2>1, <2>2 DEF SessionTypeOK
  <2>4. Followed' /\ ShownOK'
    BY <1>3, <2>1 DEF Followed, ShownOK
  <2> QED
    BY <1>4, <2>3, <2>4 DEF SessionInv
<1>6. CASE SessionDisconnect
  <2>1. /\ Keep("disconnected") /\ slot' = FALSE /\ UNCHANGED <<printer, wire, status>>
        /\ \/ aborted' = FALSE /\ phase' = "off"
           \/ phase # "off" /\ aborted' = TRUE /\ UNCHANGED phase
    BY <1>6 DEF SessionDisconnect
  <2>2. /\ shown'.connection = "disconnected"
        /\ shown'.job = shown.job /\ shown'.nozzles = shown.nozzles
        /\ shown'.filaments = shown.filaments
    BY <1>0, <2>1, KeepIs
  <2>3. SessionTypeOK'
    BY <1>0, <2>1, <2>2 DEF SessionTypeOK
  <2>4. Followed'
    BY <1>0, <2>1 DEF Followed
  <2>5. ShownOK'
    BY <1>0, <1>3, <2>1, <2>2 DEF ShownOK
  <2> QED
    BY <1>4, <2>3, <2>4, <2>5 DEF SessionInv
<1>7. CASE Aborted
  <2>1. /\ aborted' = FALSE /\ phase' = "off" /\ UNCHANGED status
        /\ slot' \in BOOLEAN \/ UNCHANGED slot
    BY <1>7 DEF Aborted, Opening
  <2>2. shown'.connection \in {"disconnected", "connecting", "connected", "reconnecting"}
    <3>1. CASE Keep(c)
      BY <1>0, <3>1, KeepIs
    <3>2. CASE UNCHANGED shown
      BY <1>0, <3>2 DEF SessionTypeOK
    <3>3. CASE \E m : shown' = Decode(m, c)
      BY <3>3, PublishIs
    <3> QED
      BY <1>2, <3>1, <3>2, <3>3
  <2>3. SessionTypeOK'
    BY <1>0, <2>1, <2>2 DEF SessionTypeOK
  <2>4. Followed' /\ ShownOK'
    BY <1>3, <2>1 DEF Followed, ShownOK
  <2> QED
    BY <1>4, <2>3, <2>4 DEF SessionInv
<1> QED
  BY <1>5, <1>6, <1>7

LEMMA PrinterSteps ==
    ASSUME SessionInv, Reply \/ (\E f \in Fields : PrinterChanges(f)) \/ PowerChanges
    PROVE  SessionInv'
<1>0. /\ SessionTypeOK /\ WireOK(wire) /\ MapOK(status)
      /\ printer = [f \in Fields |-> printer[f]] /\ Followed /\ ShownOK
  BY DEF SessionInv
<1>1. UNCHANGED <<phase, aborted, status, slot, shown>>
  BY DEF Reply, PrinterChanges, PowerChanges
<1>2. SessionTypeOK' /\ ShownOK' /\ MapOK(status')
  BY <1>0, <1>1 DEF SessionTypeOK, ShownOK
<1>3. CASE Reply
  <2> DEFINE a == [kind |-> "reply", map |-> Snapshot]
  <2>1. /\ phase = "subscribing" /\ wire' = Append(wire, a) /\ UNCHANGED printer
        /\ \A i \in DOMAIN wire : wire[i].kind # "reply"
    BY <1>3 DEF Reply
  <2>2. DOMAIN wire = 1 .. Len(wire)
    BY <1>0 DEF WireOK
  <2>3. ~Answered(wire)
    BY <2>1, <2>2 DEF Answered
  <2>4. MessageOK(a)
    BY SnapshotSays DEF MessageOK
  <2>5. WireOK(Append(wire, a))
    BY <1>0, <2>3, <2>4, AppendOK
  <2>6. Current(Append(wire, a), status, printer)
    BY <1>0, <2>3, AnswerKeeps
  <2> HIDE DEF a
  <2>7. Followed'
    BY <1>1, <2>1, <2>6 DEF Followed
  <2> QED
    BY <1>0, <1>2, <2>1, <2>5, <2>7 DEF SessionInv
<1>4. CASE \E f \in Fields : PrinterChanges(f)
  <2>1. PICK f \in Fields : PrinterChanges(f)
    BY <1>4
  <2>2. PICK v : /\ printer' = [printer EXCEPT ![f] = v]
                 /\ wire' = IF Listening
                            THEN Append(wire, [kind |-> "notify", map |-> Patch(f, v)])
                            ELSE wire
    BY <2>1 DEF PrinterChanges
  <2> DEFINE a == [kind |-> "notify", map |-> Patch(f, v)]
  <2>3. MessageOK(a) /\ a.kind = "notify"
    BY PatchSays DEF MessageOK
  <2>4. WireOK(Append(wire, a)) /\ (Answered(Append(wire, a)) <=> Answered(wire))
    BY <1>0, <2>3, AppendOK
  <2>5. Current(wire, status, printer) => Current(Append(wire, a), status, printer')
    BY <1>0, <2>2, ChangeKeeps
  <2>6. printer' = [g \in Fields |-> printer'[g]]
    BY <1>0, <2>2
  <2>7. (Listening /\ wire' = Append(wire, a)) \/ (~Listening /\ wire' = wire)
    BY <2>2
  <2> HIDE DEF a
  <2>8. Followed'
    BY <1>0, <1>1, <2>4, <2>5, <2>7 DEF Followed, Listening
  <2>9. WireOK(wire')
    BY <1>0, <2>4, <2>7
  <2> QED
    BY <1>2, <2>6, <2>8, <2>9 DEF SessionInv
<1>5. CASE PowerChanges
  <2>1. UNCHANGED <<printer, wire>>
    BY <1>5 DEF PowerChanges
  <2> QED
    BY <1>0, <1>1, <1>2, <2>1 DEF SessionInv, Followed
<1> QED
  BY <1>3, <1>4, <1>5

LEMMA SessionStep == SessionInv /\ [SessionNext]_sessionVars => SessionInv'
<1> SUFFICES ASSUME SessionInv, [SessionNext]_sessionVars PROVE SessionInv'
  OBVIOUS
<1>1. CASE Worker
  BY <1>1, SessionSteps, CommandedSteps DEF Worker
<1>2. CASE SessionConnect \/ SessionDisconnect
  BY <1>2, CommandedSteps
<1>3. CASE Reply \/ (\E f \in Fields : PrinterChanges(f)) \/ PowerChanges
  BY <1>3, PrinterSteps
<1>4. CASE UNCHANGED sessionVars
  BY <1>4 DEF sessionVars, SessionInv, SessionTypeOK, Followed, ShownOK
<1> QED
  BY <1>1, <1>2, <1>3, <1>4 DEF SessionNext

(* What is known of every field is the snapshot: the same toolheads, in the same *)
(* order, the same job.                                                          *)
LEMMA SessionTells == ASSUME SessionInv PROVE StatusIsFaithful
<1> SUFFICES ASSUME phase = "live", wire = <<>>
             PROVE  /\ shown.job = JobOf(Snapshot)
                    /\ shown.filaments = printer[<<"print_task_config", "filament_type">>]
                    /\ shown.nozzles = [n \in 1 .. Toolheads |->
                                          <<printer[<<Extruder(n), "temperature">>],
                                            printer[<<Extruder(n), "target">>]>>]
  BY DEF StatusIsFaithful
<1>1. \A f \in Fields : Says(status, f) /\ Value(status, f) = printer[f]
  <2>1. Len(wire) = 0
    OBVIOUS
  <2>2. Current(wire, status, printer)
    BY DEF SessionInv, Followed
  <2> QED
    BY <2>1, <2>2 DEF Current, Arriving, Landed
<1>2. ASSUME NEW o, NEW x, NEW none, <<o, x>> \in Fields
      PROVE  Get(status, o, x, none) = printer[<<o, x>>] /\ Get(Snapshot, o, x, none) = printer[<<o, x>>]
  BY <1>1, <1>2, SnapshotSays DEF Get, Says, Value
<1>3. <<"print_stats", "state">> \in Fields /\ <<"print_task_config", "filament_type">> \in Fields
  BY DEF Fields
<1>4. ASSUME NEW n \in 1 .. Toolheads
      PROVE  <<Extruder(n), "temperature">> \in Fields /\ <<Extruder(n), "target">> \in Fields
  BY DEF Fields
<1>5. JobOf(status) = JobOf(Snapshot)
  <2>1. Get(status, "print_stats", "state", "") = Get(Snapshot, "print_stats", "state", "")
    BY <1>2, <1>3
  <2> QED
    BY <2>1, Zenon DEF JobOf
<1>6. Toolheads \in 1 .. MaxToolheads /\ MaxToolheads \in 1 .. 4
  BY ToolheadsAssumption, Zenon
<1>7. Extruders(status) = 1 .. Toolheads
  <2>1. ASSUME NEW n \in 1 .. Toolheads PROVE n \in Extruders(status)
    <3>1. Says(status, <<Extruder(n), "temperature">>)
      BY <1>1, <1>4
    <3>2. n \in 1 .. MaxToolheads
      BY <1>6
    <3> QED
      BY <3>1, <3>2 DEF Extruders, Says
  <2>2. ASSUME NEW n \in Extruders(status) PROVE n \in 1 .. Toolheads
    <3>1. /\ n \in 1 .. MaxToolheads /\ Extruder(n) \in DOMAIN status
          /\ "temperature" \in DOMAIN status[Extruder(n)]
      BY <2>2 DEF Extruders
    <3>2. "temperature" \in FieldsOf(Extruder(n))
      BY <3>1 DEF SessionInv, MapOK
    <3>3. PICK f \in Fields : f[1] = Extruder(n)
      BY <3>2 DEF FieldsOf
    <3>4. f \in {<<Extruder(k), x>> : k \in 1 .. Toolheads, x \in {"temperature", "target"}}
      BY <3>1, <3>3, FieldIs DEF Fields
    <3>5. PICK k \in 1 .. Toolheads : f[1] = Extruder(k)
      BY <3>4
    <3>6. k \in 1 .. MaxToolheads
      BY <1>6
    <3>7. n = k
      BY <3>1, <3>3, <3>5, <3>6, FieldIs
    <3> QED
      BY <3>7
  <2> QED
    BY <2>1, <2>2
<1>8. ASSUME NEW n \in 1 .. Toolheads
      PROVE  Cardinality({k \in 1 .. Toolheads : k <= n}) = n
  <2>1. {k \in 1 .. Toolheads : k <= n} = 1 .. n
    BY <1>6
  <2>2. Cardinality(1 .. n) = n
    <3>1. n \in Nat
      BY <1>6
    <3> QED
      BY ONLY <3>1, UpToHasSize
  <2> QED
    BY <2>1, <2>2
<1>9. Cardinality(1 .. Toolheads) = Toolheads
  BY <1>6, UpToHasSize
<1>10. ASSUME NEW k \in 1 .. Toolheads
       PROVE  (CHOOSE n \in Extruders(status) :
                 Cardinality({m \in Extruders(status) : m <= n}) = k) = k
  BY <1>7, <1>8
<1>11. Nozzles(status) = [k \in 1 .. Toolheads |->
                            <<Get(status, Extruder(k), "temperature", 0),
                              Get(status, Extruder(k), "target", 0)>>]
  <2>1. Cardinality(Extruders(status)) = Toolheads
    BY <1>7, <1>9
  <2> DEFINE nth(k) == CHOOSE n \in Extruders(status) :
                         Cardinality({m \in Extruders(status) : m <= n}) = k
  <2>2. Nozzles(status) = [k \in 1 .. Cardinality(Extruders(status)) |->
                             <<Get(status, Extruder(nth(k)), "temperature", 0),
                               Get(status, Extruder(nth(k)), "target", 0)>>]
    BY Zenon DEF Nozzles
  <2>3. /\ DOMAIN Nozzles(status) = 1 .. Toolheads
        /\ Nozzles(status) = [k \in DOMAIN Nozzles(status) |-> Nozzles(status)[k]]
    BY <2>1, <2>2
  <2>4. ASSUME NEW k \in 1 .. Toolheads
        PROVE  Nozzles(status)[k] = <<Get(status, Extruder(k), "temperature", 0),
                                      Get(status, Extruder(k), "target", 0)>>
    <3>1. nth(k) = k
      BY <1>10
    <3>2. Nozzles(status)[k] = <<Get(status, Extruder(nth(k)), "temperature", 0),
                                 Get(status, Extruder(nth(k)), "target", 0)>>
      BY <2>1, <2>2
    <3> QED
      BY <3>1, <3>2, Zenon
  <2> QED
    BY <2>3, <2>4
<1>12. \A k \in 1 .. Toolheads :
          /\ Get(status, Extruder(k), "temperature", 0) = printer[<<Extruder(k), "temperature">>]
          /\ Get(status, Extruder(k), "target", 0) = printer[<<Extruder(k), "target">>]
  BY <1>2, <1>4
<1>13. Nozzles(status) = [n \in 1 .. Toolheads |-> <<printer[<<Extruder(n), "temperature">>],
                                                     printer[<<Extruder(n), "target">>]>>]
  BY <1>11, <1>12
<1>14. /\ shown.job = JobOf(status) /\ shown.nozzles = Nozzles(status)
       /\ shown.filaments = Get(status, "print_task_config", "filament_type", <<>>)
  BY DEF SessionInv, ShownOK
<1> QED
  BY <1>2, <1>3, <1>5, <1>13, <1>14

LEMMA SyncFollows == SlotsFollowToolheads
<1> SUFFICES ASSUME NEW filament, NEW own
             PROVE  LET slotAfter == ResolveU1(<<"own", own>>, filament)
                    IN /\ slotAfter[2] = filament
                       /\ (own = filament /\ own # "") => slotAfter[1] = "own"
  BY Zenon DEF SlotsFollowToolheads
<1> QED
  BY DEF ResolveU1

THEOREM SessionsAreFaithful ==
    SessionSpec => [](SessionTypeOK /\ StatusIsFaithful /\ SlotsFollowToolheads)
<1>1. SessionInv => SessionTypeOK /\ StatusIsFaithful /\ SlotsFollowToolheads
  BY SessionTells, SyncFollows DEF SessionInv
<1> QED
  BY SessionStart, SessionStep, <1>1, PTL DEF SessionSpec

-----------------------------------------------------------------------------
(*****************************************************************************)
(* The cameras, for any number of workers: a worker that is not told to stop *)
(* is the one the manager would stop.                                        *)
(*****************************************************************************)

(* The worker that camera_stop would find has been started. *)
CameraInv ==
    /\ CameraTypeOK /\ OneCamera
    /\ current \in 0 .. Workers
    /\ current # 0 => worker[current] # "none"
    /\ wake \in [1 .. Workers -> {"off", "send", "sleep"}]

LEMMA CameraStart_Inv == CameraInit => CameraInv
BY CameraAssumption DEF CameraInit, CameraInv, CameraTypeOK, OneCamera

LEMMA CameraKeeps == CameraInv /\ [CameraNext]_cameraVars => CameraInv'
<1> SUFFICES ASSUME CameraInv, [CameraNext]_cameraVars PROVE CameraInv'
  OBVIOUS
<1>0. /\ CameraTypeOK /\ OneCamera /\ current \in 0 .. Workers /\ Workers \in Nat
      /\ current # 0 => worker[current] # "none"
      /\ wake \in [1 .. Workers -> {"off", "send", "sleep"}]
  BY CameraAssumption DEF CameraInv
<1>1. CASE CameraStart
  <2>1. PICK w \in Unused : worker' = [worker EXCEPT ![w] = "spawned"] /\ Install(w)
    BY <1>1 DEF CameraStart
  <2>2. w \in 1 .. Workers /\ worker[w] = "none" /\ wake' = wake
    BY <1>1, <2>1 DEF Unused, CameraStart
  <2>3. CameraTypeOK'
    BY <1>0, <2>1, <2>2 DEF CameraTypeOK, Install
  <2>4. OneCamera'
    BY <1>0, <2>1, <2>2 DEF CameraTypeOK, OneCamera, Install
  <2> QED
    BY <1>0, <2>1, <2>2, <2>3, <2>4 DEF CameraInv, CameraTypeOK, Install
<1>2. CASE CameraStop
  <2>1. Stop /\ UNCHANGED <<worker, wake>>
    BY <1>2 DEF CameraStop
  <2> QED
    BY <1>0, <2>1 DEF CameraInv, CameraTypeOK, OneCamera, Stop
<1>3. ASSUME NEW w \in 1 .. Workers, Begin(w) \/ TearDown(w) \/ Release(w)
      PROVE  CameraInv'
  <2>1. UNCHANGED <<cancelled, current>>
    BY <1>3 DEF Begin, TearDown, Release
  <2>2. PICK s \in {"streaming", "leaving", "gone"} :
           /\ worker[w] # "none" /\ worker' = [worker EXCEPT ![w] = s]
           /\ \/ s = "streaming" /\ wake' = [wake EXCEPT ![w] = "send"]
              \/ s = "gone" /\ wake[w] = "off" /\ wake' = wake
              \/ s = "leaving" /\ wake' = [wake EXCEPT ![w] = "off"]
    BY <1>0, <1>3 DEF Begin, TearDown, Release, CameraTypeOK
  <2>3. CameraTypeOK'
    BY <1>0, <2>1, <2>2 DEF CameraTypeOK
  <2>4. OneCamera'
    BY <1>0, <2>1, <2>2 DEF CameraTypeOK, OneCamera
  <2> QED
    BY <1>0, <2>1, <2>2, <2>3, <2>4 DEF CameraInv, CameraTypeOK
<1>4. ASSUME NEW w \in 1 .. Workers, Wake(w) PROVE CameraInv'
  <2>1. UNCHANGED <<worker, cancelled, current>> /\ wake' = [wake EXCEPT ![w] = "sleep"]
        /\ wake[w] # "off"
    BY <1>4 DEF Wake
  <2> QED
    BY <1>0, <2>1 DEF CameraInv, CameraTypeOK, OneCamera
<1>5. ASSUME UNCHANGED <<worker, cancelled, current, wake>> PROVE CameraInv'
  BY <1>0, <1>5 DEF CameraInv, CameraTypeOK, OneCamera
<1>6. CASE Reload \/ Watchdog \/ Capture \/ LinkChange \/ UNCHANGED cameraVars
  BY <1>5, <1>6 DEF Reload, Watchdog, Capture, LinkChange, cameraVars
<1>7. ASSUME NEW w \in 1 .. Workers, PollFrame(w) PROVE CameraInv'
  BY <1>5, <1>7 DEF PollFrame
<1> QED
  BY <1>1, <1>2, <1>3, <1>4, <1>6, <1>7 DEF CameraNext, RunWorker

THEOREM OneCameraAtATime == CameraSpec => [](CameraTypeOK /\ OneCamera)
<1>1. CameraInv => CameraTypeOK /\ OneCamera
  BY DEF CameraInv
<1> QED
  BY CameraStart_Inv, CameraKeeps, <1>1, PTL DEF CameraSpec

-----------------------------------------------------------------------------
(***************************************************************************)
(* Pairing, for any number of attempts and any traffic of other clients.    *)
(* The bus is what has to be spoken about: an approval on its way to us     *)
(* names an id the printer's user has approved, whoever asked for it.       *)
(***************************************************************************)
Entry == [id : Nat, state : {"approve", "reject"}]
Message ==
  [kind : {"response"}, state : {"rejected", "success", "unauthorized"}]
    \cup [kind : {"notify"}, params : SUBSET Entry]
Request == [method : {"confirm", "request"}, id : Nat]

(* Nothing on the bus approves an id the user has not. *)
Truthful(m) ==
  m.kind = "notify" => \A p \in m.params : p.state = "approve" => p.id \in approved

PairingInv ==
  /\ stage \in {"idle", "confirm", "request"}
  /\ fresh \in Nat /\ token \in 0..fresh /\ clientid \in 0..fresh
  /\ stage # "idle" => clientid # Other
  /\ requests \in Seq(Request) /\ inbox \in Seq(Message)
  /\ popup \subseteq Nat
  /\ Paired => token \in approved
  /\ \A i \in 1..Len(inbox) : Truthful(inbox[i])

(* What the printer says is heard whole or, without a session, not at all. *)
LEMMA HeardWhole ==
  ASSUME PairingInv, NEW m \in Message, Hear(m), approved \subseteq approved', Truthful(m)'
  PROVE  inbox' \in Seq(Message) /\ \A i \in 1..Len(inbox') : Truthful(inbox[i])'
<1>1. CASE stage = "idle"
  BY <1>1 DEF PairingInv, Hear, Truthful
<1>2. CASE stage # "idle"
  <2>1. inbox' = Append(inbox, m) /\ inbox \in Seq(Message)
    BY <1>2 DEF PairingInv, Hear
  <2>2. /\ inbox' \in Seq(Message) /\ Len(inbox') = Len(inbox) + 1
        /\ \A i \in 1..Len(inbox) : inbox'[i] = inbox[i]
        /\ inbox'[Len(inbox) + 1] = m
    BY <2>1
  <2> QED
    BY <2>1, <2>2 DEF PairingInv, Truthful
<1> QED
  BY <1>1, <1>2

LEMMA PairingStart == PairingInit => PairingInv
  BY DEF PairingInit, PairingInv, Other, Paired

LEMMA PairingStep == PairingInv /\ [PairingNext]_pairingVars => PairingInv'
<1> SUFFICES ASSUME PairingInv, [PairingNext]_pairingVars PROVE PairingInv'
  OBVIOUS
<1> USE DEF Paired, Other
<1>1. CASE U1Pair
  BY <1>1 DEF U1Pair, PairingInv, Send, Request
<1>2. CASE U1Unpair
  BY <1>2 DEF U1Unpair, PairingInv, Truthful
<1>3. CASE Receive
  <2> DEFINE m == Head(inbox)
  <2>1. /\ inbox # <<>> /\ m \in Message /\ Truthful(m)
        /\ inbox' \in Seq(Message) /\ Len(inbox') = Len(inbox) - 1
        /\ \A i \in 1..Len(inbox') : inbox'[i] = inbox[i + 1]
        /\ Len(inbox) \in Nat
    BY <1>3 DEF Receive, PairingInv
  <2>2. \A i \in 1..Len(inbox') : Truthful(inbox[i])'
    BY <1>3, <2>1 DEF Receive, PairingInv, Truthful
  <2>3. CASE EntryOf(m.params) # {} /\ m.kind = "notify" /\ token' = clientid
    <3>1. PICK p \in m.params : p.id = clientid /\ p.state = "approve"
      BY <2>3 DEF EntryOf
    <3>2. clientid \in approved
      BY <2>1, <2>3, <3>1 DEF Truthful
    <3> QED
      BY <1>3, <2>1, <2>2, <2>3, <3>2 DEF Receive, PairingInv, Fail, Send, Request
  <2>4. CASE token' = token
    <3>1. /\ UNCHANGED <<clientid, fresh, popup, approved>>
          /\ stage' \in {"idle", "request", stage}
          /\ requests' \in {requests, Append(requests, [method |-> "request", id |-> clientid])}
      BY <1>3, <2>4 DEF Receive, Fail, Send
    <3>2. [method |-> "request", id |-> clientid] \in Request
      BY DEF PairingInv, Request
    <3>3. requests' \in Seq(Request)
      BY <3>1, <3>2 DEF PairingInv
    <3> QED
      BY <1>3, <2>1, <2>2, <2>4, <3>1, <3>3 DEF PairingInv, Receive
  <2> QED
    BY <1>3, <2>3, <2>4 DEF Receive, Fail
<1>4. CASE TimesOut
  BY <1>4 DEF TimesOut, Fail, PairingInv, Truthful
<1>5. CASE Answer
  <2> DEFINE r == Head(requests)
  <2>1. r \in Request /\ requests' \in Seq(Request)
    BY <1>5 DEF Answer, PairingInv
  <2>2. PICK m \in Message : Hear(m) /\ Truthful(m)'
    <3>1. PICK id \in Nat : id = r.id
      BY <2>1 DEF Request
    <3>2. CASE r.method = "request" /\ r.id \in approved
      <4>1. Notify(id, "approve") \in Message /\ Truthful(Notify(id, "approve"))'
        BY <1>5, <3>1, <3>2 DEF Message, Entry, Notify, Truthful, Answer
      <4>2. Hear(Notify(id, "approve"))
        BY <1>5, <3>1, <3>2 DEF Answer
      <4> QED
        BY <4>1, <4>2
    <3>3. CASE ~(r.method = "request" /\ r.id \in approved)
      <4>1. PICK s \in {"success", "unauthorized"} :
              s = IF r.id \in approved THEN "success" ELSE "unauthorized"
        OBVIOUS
      <4>2. Response(s) \in Message /\ Truthful(Response(s))'
        BY DEF Message, Response, Truthful
      <4>3. Hear(Response(s))
        BY <1>5, <3>3, <4>1 DEF Answer
      <4> QED
        BY <4>2, <4>3
    <3> QED
      BY <3>2, <3>3
  <2>4. inbox' \in Seq(Message) /\ \A i \in 1..Len(inbox') : Truthful(inbox[i])'
    BY <1>5, <2>2, HeardWhole DEF Answer
  <2> QED
    BY <1>5, <2>1, <2>4 DEF Answer, PairingInv, Request
<1>6. ASSUME NEW id \in popup, NEW ok \in BOOLEAN, Tap(id, ok) PROVE PairingInv'
  <2>1. id \in Nat /\ approved \subseteq approved'
    BY <1>6 DEF Tap, PairingInv
  <2>2. CASE ok
    <3>1. Notify(id, "approve") \in Message /\ Truthful(Notify(id, "approve"))'
      BY <1>6, <2>1, <2>2 DEF Tap, Message, Entry, Notify, Truthful
    <3>2. Hear(Notify(id, "approve"))
      BY <1>6, <2>2 DEF Tap
    <3> QED
      BY <1>6, <2>1, <3>1, <3>2, HeardWhole DEF Tap, PairingInv
  <2>3. CASE ~ok
    <3>1. Notify(id, "reject") \in Message /\ Truthful(Notify(id, "reject"))'
      BY <2>1 DEF Message, Entry, Notify, Truthful
    <3>2. Hear(Notify(id, "reject"))
      BY <1>6, <2>3 DEF Tap
    <3> QED
      BY <1>6, <2>1, <3>1, <3>2, HeardWhole DEF Tap, PairingInv
  <2> QED
    BY <2>2, <2>3
<1>7. ASSUME NEW method \in {"confirm", "request"}, Elsewhere(method) PROVE PairingInv'
  BY <1>7 DEF Elsewhere, Send, PairingInv, Request, Truthful
<1>8. CASE UNCHANGED pairingVars
  BY <1>8 DEF pairingVars, PairingInv, Truthful
<1> QED
  BY <1>1, <1>2, <1>3, <1>4, <1>5, <1>6, <1>7, <1>8 DEF PairingNext

(* The token we keep is one of our own ids, approved at the printer        *)
(* (run_bootstrap), whatever answers other clients' requests bring.        *)
THEOREM TokensAreApproved == PairingSpec => []TokenIsApproved
<1>1. PairingInv => TokenIsApproved
  BY DEF PairingInv, TokenIsApproved, Paired
<1> QED
  BY <1>1, PairingStart, PairingStep, PTL DEF PairingSpec

-----------------------------------------------------------------------------
(***************************************************************************)
(* The registry.  Files follow it and a printer has at most one driver, for *)
(* any number of printers, connections and drivers.  The files: at most    *)
(* one command is between its lock and its file, what it writes is what    *)
(* the registry has, and no sync of that instance can come in between,     *)
(* because none has begun.  The drivers: what an instance has registered   *)
(* is told by its entry while nothing is under way, and by the reconcile   *)
(* under way otherwise.                                                    *)
(***************************************************************************)

Conn  == Conns \cup {"none"}
Knowledge == {"none", "local", "seeded"}
Setup == [conn : Conn, units : 0..AmsMax, loadout : Conns \cup {"default"}, k : Knowledge]
Row   == [conn : Conn, units : 0..AmsMax]
Some  == Drivers \cup {0}
Owning == {"connect", "rollback", "disconnect", "unregister"}

RegistryTypes ==
    /\ inst \in [Ids -> Setup \cup {NoInstance, Deleted}]
    /\ disk \in [Ids -> Setup \cup {NoInstance, Deleted}]
    /\ sync \in [Ids -> [pc : {"idle", "apply", "table"}, driver : Some, k : Knowledge]]
    /\ \A i \in Ids : sync[i].pc = "apply" => sync[i].driver \in Drivers /\ drv[sync[i].driver].conn \in Conns
    /\ armed \subseteq Ids /\ saving \subseteq Ids /\ stolen \subseteq Ids
    /\ synced \in [Ids -> Nat]

\* Who waits for a sync, or is in one, has been created.
Created == \A i \in Ids : i \in armed \cup saving \/ sync[i] # NoSync => inst[i] # NoInstance

\* The one command that has left the lock, if there is one.
Writing ==
    \/ io = {} /\ disk = inst
    \/ \E i \in Ids : /\ io = {[id |-> i, file |-> inst[i]]}
                      /\ inst[i] = Deleted \/ (inst[i] = New /\ sync[i] = NoSync)
                      /\ \A h \in Ids \ {i} : disk[h] = inst[h]

ListTypes ==
    /\ fetch \in {"idle", "asked", "answered"}
    /\ reply \in [Ids -> Row \cup {NoInstance}] /\ list \in [Ids -> Row \cup {NoInstance}]
    /\ queue \in [Ids -> Seq(Conn)]

ReconcileTypes ==
    /\ entries \in [Ids -> [kind : {"absent", "in_flight", "live", "failed"}, driver : Some, signature : Conn]]
    /\ job \in [Ids -> [pc : {"idle", "register"} \cup Owning, conn : Conn, driver : Some]]
    /\ drv \in [Drivers -> [owner : Ids \cup {"none"}, conn : Conn, st : {"gone", "registered", "connected"},
                            ams : BOOLEAN]]
    /\ routed \subseteq Drivers
    /\ \A d \in Drivers : drv[d].st # "gone" \/ d \in routed => drv[d].owner \in Ids /\ drv[d].conn \in Conns

\* Whose the drivers of an instance are.
Held ==
    \A i \in Ids :
        /\ job[i].pc = "idle" =>
             /\ job[i] = NoJob
             /\ Registered(i) = IF entries[i].kind = "live" THEN {entries[i].driver} ELSE {}
        /\ job[i].pc # "idle" => entries[i].kind # "live"
        /\ job[i].pc = "register" => Registered(i) = {} /\ job[i].conn \in Conns
        /\ job[i].pc \in Owning => job[i].driver \in Drivers /\ Registered(i) = {job[i].driver}

InstancesInv == RegistryTypes /\ Created /\ Writing /\ ListTypes /\ ReconcileTypes /\ Held

-----------------------------------------------------------------------------
LEMMA Rows ==
    ASSUME RegistryTypes
    PROVE  /\ NoInstance \notin Setup \cup {Deleted}
           /\ \A i \in Ids : Exists(i) => inst[i] \in Setup
           /\ Listing \in [Ids -> Row \cup {NoInstance}]
           /\ \A row \in Row : row # NoInstance
           /\ New \in Setup
<1>1. NoInstance.conn = "absent" /\ Deleted.conn = "deleted" /\ "absent" \notin Conn
  BY InstancesAssumption DEF NoInstance, Deleted, Conn
<1>2. NoInstance \notin Setup \cup {Deleted} /\ \A row \in Row : row # NoInstance
  BY <1>1 DEF Setup, Row
<1>3. \A i \in Ids : Exists(i) => inst[i] \in Setup
  BY DEF RegistryTypes, Exists
<1>4. \A i \in Ids : Exists(i) => [conn |-> inst[i].conn, units |-> inst[i].units] \in Row
  BY <1>3 DEF Setup, Row
<1>5. New \in Setup
  BY InstancesAssumption DEF New, Setup, Conn, Knowledge
<1> QED
  BY <1>2, <1>3, <1>4, <1>5 DEF Listing

\* A change of an instance and its file in one go: no other command is at its file.
LEMMA MutateKeeps ==
    ASSUME RegistryTypes, Writing, NEW i \in Ids, NEW r \in Setup, Mutate(i, r),
           io = {} \/ (Exists(i) /\ sync[i] # NoSync),
           \A h \in Ids : sync[h] = NoSync => sync'[h] = NoSync \/ io = {}
    PROVE  /\ inst' \in [Ids -> Setup \cup {NoInstance, Deleted}]
           /\ disk' \in [Ids -> Setup \cup {NoInstance, Deleted}]
           /\ Writing' /\ inst'[i] = r /\ \A h \in Ids \ {i} : inst'[h] = inst[h]
<1>1. /\ inst' = [inst EXCEPT ![i] = r] /\ disk' = [disk EXCEPT ![i] = r] /\ io' = io
  BY DEF Mutate
<1>2. /\ inst' \in [Ids -> Setup \cup {NoInstance, Deleted}]
      /\ disk' \in [Ids -> Setup \cup {NoInstance, Deleted}]
      /\ inst'[i] = r /\ disk'[i] = r
      /\ \A h \in Ids \ {i} : inst'[h] = inst[h] /\ disk'[h] = disk[h]
  BY <1>1 DEF RegistryTypes
<1>3. ASSUME io = {}, disk = inst PROVE Writing'
  <2>1. disk' = inst' /\ io' = {}
    BY <1>1, <1>3
  <2> QED
    BY <2>1 DEF Writing
<1>4. ASSUME NEW h \in Ids, io = {[id |-> h, file |-> inst[h]]},
             inst[h] = Deleted \/ (inst[h] = New /\ sync[h] = NoSync),
             \A k \in Ids \ {h} : disk[k] = inst[k]
      PROVE  Writing'
  <2>1. h # i
    BY <1>4 DEF Exists
  <2>2. inst'[h] = inst[h] /\ (sync[h] = NoSync => sync'[h] = NoSync)
    BY <1>2, <1>4, <2>1
  <2>3. \A k \in Ids \ {h} : disk'[k] = inst'[k]
    BY <1>2, <1>4
  <2> QED
    BY <1>1, <1>4, <2>2, <2>3 DEF Writing
<1> QED
  BY <1>2, <1>3, <1>4 DEF Writing

LEMMA RegistryStands ==
    ASSUME Writing, UNCHANGED registryVars,
           \A h \in Ids : sync[h] = NoSync => sync'[h] = NoSync \/ io = {}
    PROVE  Writing'
<1>1. UNCHANGED <<inst, disk, io>>
  BY DEF registryVars
<1>2. CASE io = {}
  BY <1>1, <1>2 DEF Writing
<1>3. CASE io # {}
  <2>1. PICK h \in Ids : /\ io = {[id |-> h, file |-> inst[h]]}
                         /\ inst[h] = Deleted \/ (inst[h] = New /\ sync[h] = NoSync)
                         /\ \A k \in Ids \ {h} : disk[k] = inst[k]
    BY <1>3 DEF Writing
  <2>2. sync[h] = NoSync => sync'[h] = NoSync
    BY <1>3
  <2> QED
    BY <1>1, <2>1, <2>2 DEF Writing
<1> QED
  BY <1>2, <1>3

\* The commands that leave the lock before they touch the file.
LEMMA FileSteps ==
    ASSUME InstancesInv, FileOp \/ \E i \in Ids : Create(i) \/ Delete(i)
    PROVE  RegistryTypes' /\ Created' /\ Writing'
<1>0. RegistryTypes /\ Created /\ Writing
  BY DEF InstancesInv
<1>1. /\ UNCHANGED reconcileVars /\ UNCHANGED reportVars
  BY Zenon DEF FileOp, Create, Delete
<1>2. UNCHANGED <<drv, sync, armed, saving, stolen, synced>>
  BY <1>1, Zenon DEF reconcileVars, reportVars
<1>3. ASSUME NEW i \in Ids, Create(i) \/ Delete(i) PROVE RegistryTypes' /\ Created' /\ Writing'
  <2>1. io = {} /\ disk = inst /\ disk' = disk
    BY <1>0, <1>3 DEF Create, Delete, MainThread, Writing
  <2>2. PICK r \in {New, Deleted} :
          /\ inst' = [inst EXCEPT ![i] = r] /\ io' = io \cup {[id |-> i, file |-> r]}
          /\ r = New => inst[i] = NoInstance
    <3>1. New.conn = "none" /\ Deleted.conn = "deleted"
      BY DEF New, Deleted
    <3>2. New # Deleted
      BY <3>1
    <3>3. CASE Create(i)
      BY <3>3 DEF Create
    <3>4. CASE Delete(i)
      BY <3>2, <3>4 DEF Delete
    <3> QED
      BY <1>3, <3>3, <3>4
  <2>3. /\ inst' \in [Ids -> Setup \cup {NoInstance, Deleted}] /\ inst'[i] = r
        /\ \A h \in Ids \ {i} : inst'[h] = inst[h]
    BY <1>0, <2>2, Rows DEF RegistryTypes
  <2>4. RegistryTypes'
    BY <1>0, <1>2, <2>1, <2>3 DEF RegistryTypes
  <2>5. Created'
    BY <1>0, <1>2, <2>3, Rows DEF Created
  <2>6. r = New => sync[i] = NoSync
    BY <1>0, <2>2 DEF Created
  <2>7. io' = {[id |-> i, file |-> inst'[i]]} /\ \A h \in Ids \ {i} : disk'[h] = inst'[h]
    BY <2>1, <2>2, <2>3
  <2>8. Writing'
    BY <1>2, <2>2, <2>3, <2>6, <2>7 DEF Writing
  <2> QED
    BY <2>4, <2>5, <2>8
<1>4. CASE FileOp
  <2>1. PICK op \in io : disk' = [disk EXCEPT ![op.id] = op.file] /\ io' = io \ {op}
    BY <1>4 DEF FileOp
  <2>2. inst' = inst
    BY <1>4 DEF FileOp
  <2>3. PICK i \in Ids : io = {[id |-> i, file |-> inst[i]]} /\ \A h \in Ids \ {i} : disk[h] = inst[h]
    BY <1>0, <2>1 DEF Writing
  <2>4. op.id = i /\ op.file = inst[i] /\ io' = {}
    BY <2>1, <2>3
  <2>5. disk' = inst'
    BY <1>0, <2>1, <2>2, <2>3, <2>4 DEF RegistryTypes
  <2>6. RegistryTypes' /\ Created'
    BY <1>0, <1>2, <2>2, <2>5 DEF RegistryTypes, Created
  <2> QED
    BY <2>4, <2>5, <2>6 DEF Writing
<1> QED
  BY <1>3, <1>4

\* What the user changes, and a full sync armed for it.
LEMMA SettingSteps ==
    ASSUME InstancesInv,
           \/ \E i \in Ids : requestFullSyncOnConnect(i) \/ ForgetConnection(i) \/ SetCalibrated(i)
           \/ \E i \in Ids, c \in Conns, u \in Counts : SaveConnection(i, c, u)
    PROVE  RegistryTypes' /\ Created' /\ Writing'
<1>0. RegistryTypes /\ Created /\ Writing
  BY DEF InstancesInv
<1>1. UNCHANGED reconcileVars /\ UNCHANGED <<synced, sync, stolen>>
  BY Zenon DEF requestFullSyncOnConnect, ForgetConnection, SetCalibrated, SaveConnection, reportVars
<1>2. UNCHANGED <<drv, synced, sync, stolen>>
  BY <1>1, Zenon DEF reconcileVars
<1>3. ASSUME NEW i \in Ids, requestFullSyncOnConnect(i) PROVE RegistryTypes' /\ Created' /\ Writing'
  <2>1. UNCHANGED <<inst, disk, io>> /\ i \in saving /\ saving' = saving \ {i} /\ armed' = armed \cup {i}
    BY <1>3 DEF requestFullSyncOnConnect, registryVars
  <2>2. RegistryTypes' /\ Created'
    BY <1>0, <1>2, <2>1 DEF RegistryTypes, Created
  <2>3. Writing'
    BY <1>0, <1>2, <2>1, RegistryStands DEF registryVars
  <2> QED
    BY <2>2, <2>3
<1>4. ASSUME NEW i \in Ids, NEW r \in Setup, io = {}, Mutate(i, r), armed' = armed,
             saving' = saving \/ saving' = saving \cup {i}
      PROVE  RegistryTypes' /\ Created' /\ Writing'
  <2>1. /\ inst' \in [Ids -> Setup \cup {NoInstance, Deleted}]
        /\ disk' \in [Ids -> Setup \cup {NoInstance, Deleted}]
        /\ Writing' /\ inst'[i] = r /\ \A h \in Ids \ {i} : inst'[h] = inst[h]
    BY <1>0, <1>2, <1>4, MutateKeeps
  <2>2. RegistryTypes'
    BY <1>0, <1>2, <1>4, <2>1 DEF RegistryTypes
  <2>3. Created'
    BY <1>0, <1>2, <1>4, <2>1, Rows DEF Created
  <2> QED
    BY <2>1, <2>2, <2>3
<1>5. ASSUME NEW i \in Ids, ForgetConnection(i) \/ SetCalibrated(i) PROVE RegistryTypes' /\ Created' /\ Writing'
  <2>1. inst[i] \in Setup /\ io = {}
    BY <1>0, <1>5, Rows DEF ForgetConnection, SetCalibrated, MainThread
  <2>2. [inst[i] EXCEPT !.conn = "none"] \in Setup /\ [inst[i] EXCEPT !.k = "local"] \in Setup
    BY <2>1 DEF Setup, Conn, Knowledge
  <2>3. UNCHANGED <<armed, saving>>
    BY <1>5, Zenon DEF ForgetConnection, SetCalibrated, reportVars
  <2>4. Mutate(i, [inst[i] EXCEPT !.conn = "none"]) \/ Mutate(i, [inst[i] EXCEPT !.k = "local"])
    BY <1>5, Zenon DEF ForgetConnection, SetCalibrated
  <2> QED
    BY <1>4, <2>1, <2>2, <2>3, <2>4
<1>6. ASSUME NEW i \in Ids, NEW c \in Conns, NEW u \in Counts, SaveConnection(i, c, u)
      PROVE  RegistryTypes' /\ Created' /\ Writing'
  <2> DEFINE r == [ResizeTo(inst[i], u) EXCEPT !.conn = c]
  <2>1. inst[i] \in Setup /\ io = {} /\ u \in 0..AmsMax
    BY <1>0, <1>6, Rows, InstancesAssumption DEF SaveConnection, MainThread, ValidUnits
  <2>2. r \in Setup
    BY <2>1 DEF ResizeTo, Setup, Conn
  <2>3. Mutate(i, r) /\ armed' = armed /\ saving' = saving \cup {i}
    BY <1>6, Zenon DEF SaveConnection
  <2> HIDE DEF r
  <2> QED
    BY <1>4, <2>1, <2>2, <2>3
<1> QED
  BY <1>3, <1>5, <1>6

\* What the printer reports: the count, or the whole loadout and then a value
\* that was missing from it.
LEMMA ReportSteps ==
    ASSUME InstancesInv,
           (\E r \in reports : syncFromStatusReport(r)) \/ \E i \in Ids : SyncApply(i) \/ SyncSeed(i)
    PROVE  RegistryTypes' /\ Created' /\ Writing'
<1>0. RegistryTypes /\ Created /\ Writing /\ ReconcileTypes
  BY DEF InstancesInv
<1>1. UNCHANGED reconcileVars /\ UNCHANGED saving
  BY Zenon DEF syncFromStatusReport, SyncApply, SyncSeed
<1>2. UNCHANGED <<drv, saving>>
  BY <1>1, Zenon DEF reconcileVars
<1>3. NoSync \in [pc : {"idle", "apply", "table"}, driver : Some, k : Knowledge] /\ NoSync.pc = "idle"
  BY DEF NoSync, Some, Knowledge
<1>4. ASSUME NEW r \in reports, syncFromStatusReport(r) PROVE RegistryTypes' /\ Created' /\ Writing'
  <2> DEFINE i == drv[r.driver].owner
             count == AmsUnits[drv[r.driver].conn]
  <2>0. io = {}
    BY <1>4 DEF syncFromStatusReport, MainThread
  <2>1. CASE UNCHANGED <<registryVars, changed, armed, synced, sync, stolen>>
    <3>1. UNCHANGED <<inst, disk, io, armed, synced, sync, stolen>> /\ UNCHANGED registryVars
      BY <2>1 DEF registryVars
    <3>2. RegistryTypes' /\ Created'
      BY <1>0, <1>2, <3>1 DEF RegistryTypes, Created
    <3> QED
      BY <1>0, <3>1, <3>2, RegistryStands
  <2>2. CASE r.driver \in routed
    <3>1. i \in Ids /\ drv[r.driver].conn \in Conns /\ count \in Nat /\ r.driver \in Drivers
      BY <1>0, <2>2, InstancesAssumption DEF ReconcileTypes
    <3>2. CASE /\ i \in armed /\ armed' = armed \ {i}
               /\ synced' = (IF r.ams THEN [synced EXCEPT ![i] = count] ELSE synced)
               /\ sync' = [sync EXCEPT ![i] = [NoSync EXCEPT !.pc = "apply", !.driver = r.driver]]
               /\ stolen' = (IF drv[r.driver].conn = inst[i].conn THEN stolen ELSE stolen \cup {i})
               /\ UNCHANGED <<registryVars, changed>>
      <4> DEFINE s == [NoSync EXCEPT !.pc = "apply", !.driver = r.driver]
      <4>1. s \in [pc : {"idle", "apply", "table"}, driver : Some, k : Knowledge] /\ s.pc = "apply" /\ s.driver = r.driver
        BY <3>1 DEF NoSync, Some, Knowledge
      <4>2. sync' = [sync EXCEPT ![i] = s] /\ armed' = armed \ {i} /\ i \in armed
        BY <3>2
      <4>3. UNCHANGED <<inst, disk, io>> /\ UNCHANGED registryVars
        BY <3>2 DEF registryVars
      <4> HIDE DEF s, i, count
      <4>4. synced' \in [Ids -> Nat] /\ stolen' \subseteq Ids
        BY <1>0, <3>1, <3>2 DEF RegistryTypes, i, count
      <4>5. RegistryTypes'
        BY <1>0, <1>2, <3>1, <4>1, <4>2, <4>3, <4>4 DEF RegistryTypes
      <4>6. Created'
        BY <1>0, <1>2, <3>1, <4>2, <4>3 DEF Created, RegistryTypes
      <4>7. Writing'
        BY <1>0, <2>0, <4>3, RegistryStands
      <4> QED
        BY <4>5, <4>6, <4>7
    <3>3. CASE /\ synced' = [synced EXCEPT ![i] = count]
               /\ UNCHANGED <<armed, sync, stolen>>
               /\ Exists(i) /\ ValidUnits(count) /\ Mutate(i, ResizeTo(inst[i], count))
      <4> HIDE DEF i, count
      <4>1. ResizeTo(inst[i], count) \in Setup
        BY <1>0, <3>1, <3>3, Rows, InstancesAssumption DEF ResizeTo, Setup, ValidUnits
      <4>2. /\ inst' \in [Ids -> Setup \cup {NoInstance, Deleted}]
            /\ disk' \in [Ids -> Setup \cup {NoInstance, Deleted}]
            /\ Writing' /\ inst'[i] = ResizeTo(inst[i], count) /\ \A h \in Ids \ {i} : inst'[h] = inst[h]
        BY <1>0, <2>0, <3>1, <3>3, <4>1, MutateKeeps
      <4>3. RegistryTypes'
        BY <1>0, <1>2, <3>1, <3>3, <4>2 DEF RegistryTypes
      <4>4. Created'
        BY <1>0, <1>2, <3>3, <4>1, <4>2, Rows DEF Created
      <4> QED
        BY <4>2, <4>3, <4>4
    <3>4. CASE /\ synced' = [synced EXCEPT ![i] = count]
               /\ UNCHANGED <<armed, sync, stolen>>
               /\ UNCHANGED <<registryVars, changed>>
      <4>1. UNCHANGED <<inst, disk, io, armed, sync, stolen>> /\ UNCHANGED registryVars
        BY <3>4 DEF registryVars
      <4>2. RegistryTypes' /\ Created'
        BY <1>0, <1>2, <3>1, <3>4, <4>1 DEF RegistryTypes, Created
      <4> QED
        BY <1>0, <2>0, <4>1, <4>2, RegistryStands
    <3> QED
      BY <1>4, <2>1, <3>2, <3>3, <3>4, Zenon DEF syncFromStatusReport
  <2> QED
    BY <1>4, <2>1, <2>2, Zenon DEF syncFromStatusReport
<1>5. ASSUME NEW i \in Ids, NEW s, sync' = [sync EXCEPT ![i] = s], UNCHANGED <<armed, synced>>,
             s \in [pc : {"idle", "apply", "table"}, driver : Some, k : Knowledge], s.pc # "apply",
             sync[i].pc # "idle", stolen' \subseteq Ids,
             UNCHANGED registryVars \/ \E r \in Setup : Exists(i) /\ Mutate(i, r)
      PROVE  RegistryTypes' /\ Created' /\ Writing'
  <2>1. sync[i] # NoSync
    BY <1>3, <1>5
  <2>2. /\ \A h \in Ids : sync[h] = NoSync => sync'[h] = NoSync
        /\ \A h \in Ids : sync'[h] # NoSync => sync[h] # NoSync
    BY <1>0, <1>5, <2>1 DEF RegistryTypes
  <2>3. /\ inst' \in [Ids -> Setup \cup {NoInstance, Deleted}]
        /\ disk' \in [Ids -> Setup \cup {NoInstance, Deleted}]
        /\ Writing' /\ \A h \in Ids : inst'[h] = inst[h] \/ inst'[h] \in Setup
    <3>1. CASE UNCHANGED registryVars
      BY <1>0, <2>2, <3>1, RegistryStands DEF RegistryTypes, registryVars
    <3>2. ASSUME NEW r \in Setup, Exists(i), Mutate(i, r)
          PROVE  /\ inst' \in [Ids -> Setup \cup {NoInstance, Deleted}]
                 /\ disk' \in [Ids -> Setup \cup {NoInstance, Deleted}]
                 /\ Writing' /\ \A h \in Ids : inst'[h] = inst[h] \/ inst'[h] \in Setup
      BY <1>0, <2>1, <2>2, <3>2, MutateKeeps
    <3> QED
      BY <1>5, <3>1, <3>2
  <2>4. RegistryTypes'
    BY <1>0, <1>2, <1>5, <2>3 DEF RegistryTypes
  <2>5. Created'
    BY <1>0, <1>2, <1>5, <2>2, <2>3, Rows DEF Created
  <2> QED
    BY <2>3, <2>4, <2>5
<1>6. ASSUME NEW i \in Ids, SyncApply(i) PROVE RegistryTypes' /\ Created' /\ Writing'
  <2> DEFINE c == drv[sync[i].driver].conn
             s == [sync[i] EXCEPT !.pc = "table", !.k = inst[i].k]
  <2>1. sync[i].pc = "apply" /\ c \in Conns /\ sync[i] \in [pc : {"idle", "apply", "table"}, driver : Some, k : Knowledge]
    BY <1>0, <1>6 DEF SyncApply, RegistryTypes
  <2>2. UNCHANGED <<armed, synced>>
    BY <1>6, Zenon DEF SyncApply
  <2>3. CASE sync' = [sync EXCEPT ![i] = NoSync] /\ stolen' = stolen \cup {i} /\ UNCHANGED registryVars
    BY <1>0, <1>3, <1>5, <2>1, <2>2, <2>3 DEF RegistryTypes
  <2>4. CASE /\ Exists(i) /\ sync' = [sync EXCEPT ![i] = s] /\ UNCHANGED stolen
             /\ \/ Mutate(i, inst[i])
                \/ Mutate(i, [inst[i] EXCEPT !.loadout = c])
                \/ ValidUnits(AmsUnits[c]) /\ Mutate(i, [ResizeTo(inst[i], AmsUnits[c]) EXCEPT !.loadout = c])
    <3>1. inst[i] \in Setup /\ (ValidUnits(AmsUnits[c]) => AmsUnits[c] \in 0..AmsMax)
      BY <1>0, <2>1, <2>4, Rows, InstancesAssumption DEF ValidUnits
    <3>2. s \in [pc : {"idle", "apply", "table"}, driver : Some, k : Knowledge] /\ s.pc = "table"
      BY <2>1, <3>1 DEF Setup
    <3> HIDE DEF c, s
    <3>3. /\ [inst[i] EXCEPT !.loadout = c] \in Setup
          /\ ValidUnits(AmsUnits[c]) => [ResizeTo(inst[i], AmsUnits[c]) EXCEPT !.loadout = c] \in Setup
      BY <2>1, <3>1 DEF ResizeTo, Setup
    <3>4. \E r \in Setup : Exists(i) /\ Mutate(i, r)
      BY <2>4, <3>1, <3>3
    <3> QED
      BY <1>0, <1>5, <2>1, <2>2, <2>4, <3>2, <3>4 DEF RegistryTypes
  <2> QED
    BY <1>6, <2>3, <2>4, Zenon DEF SyncApply
<1>7. ASSUME NEW i \in Ids, SyncSeed(i) PROVE RegistryTypes' /\ Created' /\ Writing'
  <2>1. sync[i].pc = "table" /\ sync' = [sync EXCEPT ![i] = NoSync]
    BY <1>7 DEF SyncSeed
  <2>2. UNCHANGED <<armed, synced, stolen>>
    BY <1>7, Zenon DEF SyncSeed
  <2>3. UNCHANGED registryVars \/ (Exists(i) /\ Mutate(i, [inst[i] EXCEPT !.k = "seeded"]))
    BY <1>7, Zenon DEF SyncSeed
  <2>4. UNCHANGED registryVars \/ \E r \in Setup : Exists(i) /\ Mutate(i, r)
    <3>1. Exists(i) => [inst[i] EXCEPT !.k = "seeded"] \in Setup
      BY <1>0, Rows DEF Setup, Knowledge
    <3> QED
      BY <2>3, <3>1
  <2> QED
    BY <1>0, <1>3, <1>5, <2>1, <2>2, <2>4 DEF RegistryTypes
<1> QED
  BY <1>4, <1>6, <1>7

-----------------------------------------------------------------------------
\* The list, and the connections it asks for.
LEMMA ListSteps ==
    ASSUME InstancesInv, InstancesNext
    PROVE  ListTypes'
<1>0. RegistryTypes /\ ListTypes
  BY DEF InstancesInv
<1>1. CASE \/ UserActs \/ FileOp
           \/ \E i \in Ids : \/ requestFullSyncOnConnect(i) \/ SyncSteps(i)
                             \/ registerDriver(i) \/ Connected(i) \/ ConnectFails(i)
                             \/ Disconnected(i) \/ unregisterDriver(i)
           \/ (\E d \in Drivers : Populate(d)) \/ HandleReport \/ \E i \in Ids : Report(i)
  <2>1. UNCHANGED <<fetch, reply, list, queue>>
    BY <1>1, Zenon DEF UserActs, Create, Delete, ForgetConnection, SetCalibrated, SaveConnection, FileOp,
       requestFullSyncOnConnect, SyncSteps, SyncApply, SyncSeed, registerDriver, Connected, ConnectFails,
       Disconnected, unregisterDriver, Populate, HandleReport, syncFromStatusReport, Report, Emit,
       listVars, reconcileVars
  <2> QED
    BY <1>0, <2>1 DEF ListTypes
<1>2. CASE Invalidate
  <2>1. UNCHANGED <<reply, list>> /\ UNCHANGED reconcileVars
    BY <1>2, Zenon DEF Invalidate
  <2>2. UNCHANGED <<reply, list, queue>>
    BY <2>1, Zenon DEF reconcileVars
  <2>3. fetch' \in {"asked", fetch}
    BY <1>2 DEF Invalidate
  <2> QED
    BY <1>0, <2>2, <2>3 DEF ListTypes
<1>3. CASE ListInstances
  <2>1. UNCHANGED list /\ UNCHANGED reconcileVars
    BY <1>3, Zenon DEF ListInstances
  <2>2. UNCHANGED <<list, queue>>
    BY <2>1, Zenon DEF reconcileVars
  <2>3. fetch' = "answered" /\ reply' \in [Ids -> Row \cup {NoInstance}]
    BY <1>0, <1>3, Rows DEF ListInstances
  <2> QED
    BY <1>0, <2>2, <2>3 DEF ListTypes
<1>4. CASE FetchSettles
  <2>1. list' = reply /\ reply' = reply /\ fetch' \in {"asked", "idle"}
    BY <1>4 DEF FetchSettles
  <2>2. \A i \in Ids : list'[i] # NoInstance => list'[i].conn \in Conn
    BY <1>0, <2>1 DEF ListTypes, Row
  <2>3. \/ queue' = queue
        \/ \E gone \in SUBSET Ids :
             queue' = [i \in Ids |-> CASE i \in gone           -> Append(queue[i], "none")
                                       [] list'[i] # NoInstance -> Append(queue[i], list'[i].conn)
                                       [] OTHER                 -> queue[i]]
    BY <1>4 DEF FetchSettles
  <2>4. \A i \in Ids : /\ queue[i] \in Seq(Conn) /\ Append(queue[i], "none") \in Seq(Conn)
                       /\ list'[i] # NoInstance => Append(queue[i], list'[i].conn) \in Seq(Conn)
    BY <1>0, <2>2 DEF ListTypes, Conn
  <2>5. queue' \in [Ids -> Seq(Conn)]
    BY <1>0, <2>3, <2>4 DEF ListTypes
  <2> QED
    BY <1>0, <2>1, <2>5 DEF ListTypes
<1>5. ASSUME NEW i \in Ids, reconcileIdentity(i) PROVE ListTypes'
  <2>1. UNCHANGED listVars
    BY <1>5, Zenon DEF reconcileIdentity
  <2>2. UNCHANGED <<fetch, reply, list>>
    BY <2>1, Zenon DEF listVars
  <2>3. queue[i] \in Seq(Conn) /\ queue[i] # <<>> /\ queue' = [queue EXCEPT ![i] = Tail(queue[i])]
    BY <1>0, <1>5 DEF reconcileIdentity, ListTypes
  <2>4. Tail(queue[i]) \in Seq(Conn)
    BY <2>3
  <2> QED
    BY <1>0, <2>2, <2>3, <2>4 DEF ListTypes
<1> QED
  BY <1>1, <1>2, <1>3, <1>4, <1>5, Zenon DEF InstancesNext, OtherSteps, Work, PageSteps, BackendSteps, ReconcileSteps

\* The full sync's registry side of the same settling.
LEMMA SettleSteps ==
    ASSUME InstancesInv, FetchSettles
    PROVE  RegistryTypes' /\ Created' /\ Writing'
<1>0. RegistryTypes /\ Created /\ Writing /\ ListTypes
  BY DEF InstancesInv
<1>1. UNCHANGED registryVars /\ UNCHANGED <<sync, saving, stolen, drv>>
  BY Zenon DEF FetchSettles
<1>2. UNCHANGED <<inst, disk, io>>
  BY <1>1, Zenon DEF registryVars
<1>3. armed' \subseteq armed
  BY DEF FetchSettles
<1>4. synced' \in [Ids -> Nat]
  <2>1. \A i \in Ids : list'[i] # NoInstance => list'[i].units \in Nat
    BY <1>0, InstancesAssumption DEF ListTypes, Row, FetchSettles
  <2>2. NoCount \in Nat
    BY InstancesAssumption DEF NoCount
  <2>3. \/ synced' = synced
        \/ \E gone \in SUBSET Ids :
             synced' = [i \in Ids |->
                    CASE i \in gone -> NoCount
                      [] list'[i] # NoInstance /\ synced[i] = NoCount -> list'[i].units
                      [] OTHER -> synced[i]]
    BY DEF FetchSettles
  <2> QED
    BY <1>0, <2>1, <2>2, <2>3 DEF RegistryTypes
<1>5. RegistryTypes' /\ Created'
  BY <1>0, <1>1, <1>2, <1>3, <1>4 DEF RegistryTypes, Created
<1> QED
  BY <1>0, <1>1, <1>5, RegistryStands

-----------------------------------------------------------------------------
\* A driver that changes but stays whose it is, or gone.
LEMMA SameHolders ==
    ASSUME \A d \in Drivers : /\ drv'[d].owner = drv[d].owner
                              /\ drv'[d].st = "gone" <=> drv[d].st = "gone"
    PROVE  \A i : Registered(i)' = Registered(i)
  BY DEF Registered

LEMMA ReconcileSteps_Keep ==
    ASSUME InstancesInv, NEW i \in Ids, ReconcileSteps(i)
    PROVE  ReconcileTypes' /\ Held'
<1>0. ReconcileTypes /\ Held /\ ListTypes
  BY DEF InstancesInv
<1>1. NoJob \in [pc : {"idle", "register"} \cup Owning, conn : Conn, driver : Some] /\ NoJob.pc = "idle"
  BY DEF NoJob, Conn, Some
<1>2. /\ NoEntry \in [kind : {"absent", "in_flight", "live", "failed"}, driver : Some, signature : Conn]
      /\ InFlight \in [kind : {"absent", "in_flight", "live", "failed"}, driver : Some, signature : Conn]
      /\ [NoEntry EXCEPT !.kind = "failed"] \in [kind : {"absent", "in_flight", "live", "failed"}, driver : Some, signature : Conn]
      /\ NoEntry.kind # "live" /\ InFlight.kind # "live" /\ [NoEntry EXCEPT !.kind = "failed"].kind # "live"
  BY DEF NoEntry, InFlight, Conn, Some
<1>3. CASE reconcileIdentity(i)
  <2> DEFINE want == Head(queue[i])
  <2>1. job[i] = NoJob /\ job[i].pc = "idle" /\ want \in Conn
    BY <1>0, <1>1, <1>3 DEF reconcileIdentity, ListTypes
  <2>2. drv' = drv /\ \A h : Registered(h)' = Registered(h)
    BY <1>3 DEF reconcileIdentity, Registered
  <2>3. Registered(i) = IF entries[i].kind = "live" THEN {entries[i].driver} ELSE {}
    BY <1>0, <2>1 DEF Held
  <2>4. CASE /\ entries[i].kind = "live" /\ SetEntry(i, NoEntry) /\ routed' = routed \ {entries[i].driver}
             /\ SetJob(i, [pc |-> "disconnect", conn |-> want, driver |-> entries[i].driver])
    <3> DEFINE j == [pc |-> "disconnect", conn |-> want, driver |-> entries[i].driver]
    <3>1. entries' = [entries EXCEPT ![i] = NoEntry] /\ job' = [job EXCEPT ![i] = j] /\ routed' \subseteq routed
      BY <2>4 DEF SetEntry, SetJob
    <3>2. entries[i].driver \in Drivers
      BY <2>3, <2>4 DEF Registered
    <3>3. /\ j \in [pc : {"idle", "register"} \cup Owning, conn : Conn, driver : Some]
          /\ j.pc = "disconnect" /\ j.driver = entries[i].driver
      BY <2>1, <3>2 DEF Owning, Some
    <3> HIDE DEF j, want
    <3>4. ReconcileTypes'
      BY <1>0, <1>2, <2>2, <3>1, <3>3 DEF ReconcileTypes
    <3>5. Held'
      BY <1>0, <1>2, <2>2, <2>3, <2>4, <3>1, <3>2, <3>3 DEF Held, ReconcileTypes, Owning
    <3> QED
      BY <3>4, <3>5
  <2>5. CASE /\ entries[i].kind # "live" /\ want # "none"
             /\ SetEntry(i, InFlight) /\ UNCHANGED routed
             /\ SetJob(i, [pc |-> "register", conn |-> want, driver |-> 0])
    <3> DEFINE j == [pc |-> "register", conn |-> want, driver |-> 0]
    <3>1. entries' = [entries EXCEPT ![i] = InFlight] /\ job' = [job EXCEPT ![i] = j] /\ routed' = routed
      BY <2>5 DEF SetEntry, SetJob
    <3>2. /\ j \in [pc : {"idle", "register"} \cup Owning, conn : Conn, driver : Some]
          /\ j.pc = "register" /\ j.conn \in Conns
      BY <2>1, <2>5 DEF Some, Conn
    <3> HIDE DEF j, want
    <3>3. ReconcileTypes'
      BY <1>0, <1>2, <2>2, <3>1, <3>2 DEF ReconcileTypes
    <3>4. Held'
      BY <1>0, <1>2, <2>2, <2>3, <2>5, <3>1, <3>2 DEF Held, ReconcileTypes, Owning
    <3> QED
      BY <3>3, <3>4
  <2>6. CASE entries[i].kind # "live" /\ SetEntry(i, NoEntry) /\ UNCHANGED <<routed, job>>
    <3>1. entries' = [entries EXCEPT ![i] = NoEntry] /\ job' = job /\ routed' = routed
      BY <2>6 DEF SetEntry
    <3>2. ReconcileTypes'
      BY <1>0, <1>2, <2>2, <3>1 DEF ReconcileTypes
    <3>3. Held'
      BY <1>0, <1>2, <2>2, <2>3, <2>6, <3>1 DEF Held, ReconcileTypes
    <3> QED
      BY <3>2, <3>3
  <2>7. CASE UNCHANGED <<entries, routed, job>>
    <3>1. ReconcileTypes'
      BY <1>0, <2>2, <2>7 DEF ReconcileTypes
    <3>2. Held'
      BY <1>0, <2>2, <2>7 DEF Held
    <3> QED
      BY <3>1, <3>2
  <2> QED
    BY <1>3, <2>4, <2>5, <2>6, <2>7, Zenon DEF reconcileIdentity
<1>4. CASE registerDriver(i)
  <2>1. PICK d \in Drivers :
          /\ drv[d] = NoDriver
          /\ drv' = [drv EXCEPT ![d] = [owner |-> i, conn |-> job[i].conn, st |-> "registered", ams |-> FALSE]]
          /\ routed' = routed \cup {d}
          /\ SetJob(i, [job[i] EXCEPT !.pc = "connect", !.driver = d])
    BY <1>4 DEF registerDriver
  <2> DEFINE r == [owner |-> i, conn |-> job[i].conn, st |-> "registered", ams |-> FALSE]
             j == [job[i] EXCEPT !.pc = "connect", !.driver = d]
  <2>2. job[i].pc = "register" /\ Registered(i) = {} /\ job[i].conn \in Conns /\ entries[i].kind # "live"
    BY <1>0, <1>4 DEF registerDriver, Held
  <2>3. /\ r \in [owner : Ids \cup {"none"}, conn : Conn, st : {"gone", "registered", "connected"}, ams : BOOLEAN]
        /\ r.owner = i /\ r.conn \in Conns /\ r.st = "registered"
    BY <2>2 DEF Conn
  <2>4. /\ j \in [pc : {"idle", "register"} \cup Owning, conn : Conn, driver : Some]
        /\ j.pc = "connect" /\ j.driver = d
    BY <1>0 DEF ReconcileTypes, Owning, Some
  <2>5. entries' = entries /\ drv' = [drv EXCEPT ![d] = r] /\ job' = [job EXCEPT ![i] = j]
    BY <1>4, <2>1 DEF registerDriver, SetJob
  <2>6. drv[d].st = "gone"
    BY <2>1 DEF NoDriver
  <2> HIDE DEF r, j
  <2>7. ReconcileTypes'
    BY <1>0, <2>1, <2>3, <2>4, <2>5 DEF ReconcileTypes
  <2>8. Registered(i)' = {d} /\ \A h \in Ids \ {i} : Registered(h)' = Registered(h)
    BY <1>0, <2>2, <2>3, <2>5, <2>6 DEF Registered, ReconcileTypes
  <2>9. Held'
    BY <1>0, <2>2, <2>4, <2>5, <2>8 DEF Held, ReconcileTypes, Owning
  <2> QED
    BY <2>7, <2>9
<1>5. CASE Connected(i)
  <2> DEFINE d == job[i].driver
             e == [kind |-> "live", driver |-> d, signature |-> job[i].conn]
  <2>1. d \in Drivers /\ Registered(i) = {d} /\ job[i].pc = "connect"
    BY <1>0, <1>5 DEF Connected, Held, Owning
  <2>2. /\ job' = [job EXCEPT ![i] = NoJob] /\ routed' = routed
        /\ drv' = [drv EXCEPT ![d].st = "connected"] /\ entries' = [entries EXCEPT ![i] = e]
    BY <1>5 DEF Connected, SetJob, SetEntry
  <2>3. e \in [kind : {"absent", "in_flight", "live", "failed"}, driver : Some, signature : Conn]
        /\ e.kind = "live" /\ e.driver = d
    BY <1>0, <2>1 DEF ReconcileTypes, Some
  <2>4. drv[d].owner = i /\ drv[d].st # "gone"
    BY <2>1 DEF Registered
  <2> HIDE DEF d, e
  <2>5. /\ \A h \in Drivers : drv'[h].owner = drv[h].owner /\ drv'[h].conn = drv[h].conn
        /\ \A h \in Drivers : drv'[h].st = "gone" <=> drv[h].st = "gone"
        /\ drv' \in [Drivers -> [owner : Ids \cup {"none"}, conn : Conn, st : {"gone", "registered", "connected"},
                            ams : BOOLEAN]]
    BY <1>0, <2>1, <2>2, <2>4 DEF ReconcileTypes
  <2>6. \A h : Registered(h)' = Registered(h)
    BY <2>5, SameHolders
  <2>7. ReconcileTypes'
    BY <1>0, <1>1, <2>2, <2>3, <2>5 DEF ReconcileTypes
  <2>8. Held'
    BY <1>0, <1>1, <2>1, <2>2, <2>3, <2>6 DEF Held, ReconcileTypes, Owning
  <2> QED
    BY <2>7, <2>8
<1>6. CASE ConnectFails(i)
  <2> DEFINE j == [job[i] EXCEPT !.pc = "rollback"]
             e == [NoEntry EXCEPT !.kind = "failed"]
  <2>1. job[i].pc = "connect" /\ job[i].driver \in Drivers /\ Registered(i) = {job[i].driver}
    BY <1>0, <1>6 DEF ConnectFails, Held, Owning
  <2>2. /\ job' = [job EXCEPT ![i] = j] /\ entries' = [entries EXCEPT ![i] = e]
        /\ routed' \subseteq routed /\ drv' = drv
    BY <1>6 DEF ConnectFails, SetJob, SetEntry
  <2>3. /\ j \in [pc : {"idle", "register"} \cup Owning, conn : Conn, driver : Some]
        /\ j.pc = "rollback" /\ j.driver = job[i].driver
    BY <1>0 DEF ReconcileTypes, Owning
  <2> HIDE DEF j, e
  <2>4. ReconcileTypes'
    BY <1>0, <1>2, <2>2, <2>3 DEF ReconcileTypes, e
  <2>5. \A h : Registered(h)' = Registered(h)
    BY <2>2 DEF Registered
  <2>6. Held'
    BY <1>0, <1>2, <2>1, <2>2, <2>3, <2>5 DEF Held, ReconcileTypes, Owning, e
  <2> QED
    BY <2>4, <2>6
<1>7. CASE Disconnected(i)
  <2> DEFINE j == [job[i] EXCEPT !.pc = "unregister"]
             d == job[i].driver
  <2>1. d \in Drivers /\ Registered(i) = {d} /\ job[i].pc = "disconnect"
    BY <1>0, <1>7 DEF Disconnected, Held, Owning
  <2>2. /\ job' = [job EXCEPT ![i] = j] /\ UNCHANGED <<entries, routed>>
        /\ drv' = [drv EXCEPT ![d].st = "registered"]
    BY <1>7 DEF Disconnected, SetJob
  <2>3. /\ j \in [pc : {"idle", "register"} \cup Owning, conn : Conn, driver : Some]
        /\ j.pc = "unregister" /\ j.driver = d
    BY <1>0 DEF ReconcileTypes, Owning
  <2>4. drv[d].owner = i /\ drv[d].st # "gone"
    BY <2>1 DEF Registered
  <2> HIDE DEF d, j
  <2>5. /\ \A h \in Drivers : drv'[h].owner = drv[h].owner /\ drv'[h].conn = drv[h].conn
        /\ \A h \in Drivers : drv'[h].st = "gone" <=> drv[h].st = "gone"
        /\ drv' \in [Drivers -> [owner : Ids \cup {"none"}, conn : Conn, st : {"gone", "registered", "connected"},
                            ams : BOOLEAN]]
    BY <1>0, <2>1, <2>2, <2>4 DEF ReconcileTypes
  <2>6. \A h : Registered(h)' = Registered(h)
    BY <2>5, SameHolders
  <2>7. ReconcileTypes'
    BY <1>0, <2>2, <2>3, <2>5 DEF ReconcileTypes
  <2>8. Held'
    BY <1>0, <2>1, <2>2, <2>3, <2>6 DEF Held, ReconcileTypes, Owning
  <2> QED
    BY <2>7, <2>8
<1>8. CASE unregisterDriver(i)
  <2> DEFINE j == [job[i] EXCEPT !.pc = "register", !.driver = 0]
             d == job[i].driver
  <2>1. d \in Drivers /\ Registered(i) = {d} /\ job[i].pc \in {"unregister", "rollback"} /\ entries[i].kind # "live"
    BY <1>0, <1>8 DEF unregisterDriver, Held, Owning
  <2>2. drv' = [drv EXCEPT ![d].st = "gone"] /\ routed' = routed
    BY <1>8 DEF unregisterDriver
  <2>3. \/ /\ job[i].conn # "none" /\ entries' = [entries EXCEPT ![i] = InFlight]
           /\ job' = [job EXCEPT ![i] = j]
        \/ entries' = entries /\ job' = [job EXCEPT ![i] = NoJob]
    BY <1>8 DEF unregisterDriver, SetJob, SetEntry
  <2>4. /\ j \in [pc : {"idle", "register"} \cup Owning, conn : Conn, driver : Some]
        /\ j.pc = "register" /\ j.conn = job[i].conn /\ job[i].conn \in Conn
    BY <1>0 DEF ReconcileTypes, Some
  <2>5. drv[d].owner = i /\ drv[d].st # "gone"
    BY <2>1 DEF Registered
  <2> HIDE DEF d, j
  <2>6. /\ drv' \in [Drivers -> [owner : Ids \cup {"none"}, conn : Conn, st : {"gone", "registered", "connected"},
                            ams : BOOLEAN]]
        /\ \A h \in Drivers : drv'[h].owner = drv[h].owner /\ drv'[h].conn = drv[h].conn
        /\ \A h \in Drivers : drv'[h].st # "gone" <=> drv[h].st # "gone" /\ h # d
    BY <1>0, <2>1, <2>2 DEF ReconcileTypes
  <2>7. ReconcileTypes'
    BY <1>0, <1>1, <1>2, <2>2, <2>3, <2>4, <2>6 DEF ReconcileTypes
  <2>8. Registered(i)' = {} /\ \A h \in Ids \ {i} : Registered(h)' = Registered(h)
    BY <2>1, <2>5, <2>6 DEF Registered
  <2>9. Held'
    BY <1>0, <1>1, <1>2, <2>1, <2>3, <2>4, <2>8 DEF Held, ReconcileTypes, Owning, Conn
  <2> QED
    BY <2>7, <2>9
<1> QED
  BY <1>3, <1>4, <1>5, <1>6, <1>7, <1>8 DEF ReconcileSteps

LEMMA DriversKept ==
    ASSUME InstancesInv, InstancesNext, \A i \in Ids : ~ReconcileSteps(i)
    PROVE  ReconcileTypes' /\ Held'
<1>0. ReconcileTypes /\ Held
  BY DEF InstancesInv
<1>1. CASE \E d \in Drivers : Populate(d)
  <2>1. PICK d \in Drivers : drv[d].st = "connected" /\ drv' = [drv EXCEPT ![d].ams = TRUE]
    BY <1>1 DEF Populate
  <2>2. UNCHANGED <<entries, routed, job>>
    BY <1>1, Zenon DEF Populate
  <2>3. /\ drv' \in [Drivers -> [owner : Ids \cup {"none"}, conn : Conn, st : {"gone", "registered", "connected"},
                            ams : BOOLEAN]]
        /\ \A h \in Drivers : /\ drv'[h].owner = drv[h].owner /\ drv'[h].conn = drv[h].conn
                              /\ drv'[h].st = drv[h].st
    BY <1>0, <2>1 DEF ReconcileTypes
  <2>4. \A h : Registered(h)' = Registered(h)
    BY <2>3, SameHolders
  <2>5. ReconcileTypes' /\ Held'
    BY <1>0, <2>2, <2>3, <2>4 DEF ReconcileTypes, Held
  <2> QED
    BY <2>5
<1>2. CASE UNCHANGED <<entries, routed, job, drv>>
  BY <1>0, <1>2 DEF ReconcileTypes, Held, Registered
<1>3. CASE \/ UserActs \/ PageSteps \/ BackendSteps \/ HandleReport
           \/ \E i \in Ids : SyncSteps(i) \/ Report(i)
  <2>1. UNCHANGED <<entries, routed, job, drv>>
    BY <1>3, Zenon DEF UserActs, Create, Delete, ForgetConnection, SetCalibrated, SaveConnection,
       PageSteps, Invalidate, FetchSettles, requestFullSyncOnConnect, BackendSteps, FileOp, ListInstances,
       HandleReport, syncFromStatusReport, SyncSteps, SyncApply, SyncSeed, Report, Emit, reconcileVars
  <2> QED
    BY <1>2, <2>1
<1> QED
  BY <1>1, <1>3, Zenon DEF InstancesNext, OtherSteps, Work

LEMMA RegistryKept ==
    ASSUME InstancesInv, InstancesNext
    PROVE  RegistryTypes' /\ Created' /\ Writing'
<1>1. CASE \/ \E i \in Ids : requestFullSyncOnConnect(i) \/ ForgetConnection(i) \/ SetCalibrated(i)
           \/ \E i \in Ids, c \in Conns, u \in Counts : SaveConnection(i, c, u)
  BY <1>1, SettingSteps
<1>2. CASE FileOp \/ \E i \in Ids : Create(i) \/ Delete(i)
  BY <1>2, FileSteps
<1>3. CASE (\E r \in reports : syncFromStatusReport(r)) \/ \E i \in Ids : SyncApply(i) \/ SyncSeed(i)
  BY <1>3, ReportSteps
<1>4. CASE FetchSettles
  BY <1>4, SettleSteps
<1>5. CASE \/ Invalidate \/ ListInstances \/ (\E d \in Drivers : Populate(d))
           \/ \E i \in Ids : ReconcileSteps(i) \/ Report(i)
  <2>1. UNCHANGED registryVars /\ UNCHANGED <<sync, armed, saving, stolen, synced>>
    BY <1>5, Zenon DEF Invalidate, ListInstances, Populate, ReconcileSteps, reconcileIdentity, registerDriver,
       Connected, ConnectFails, Disconnected, unregisterDriver, Report, Emit, reportVars
  <2>2. UNCHANGED <<inst, disk, io>>
    BY <2>1, Zenon DEF registryVars
  <2>3. \A d \in Drivers : drv[d].conn \in Conns => drv'[d].conn \in Conns
    <3>0. ReconcileTypes /\ Held
      BY DEF InstancesInv
    <3>1. CASE \E i \in Ids : registerDriver(i)
      <4>1. PICK i \in Ids : registerDriver(i)
        BY <3>1
      <4>2. PICK d \in Drivers : drv' = [drv EXCEPT ![d] = [owner |-> i, conn |-> job[i].conn,
                                                           st |-> "registered", ams |-> FALSE]]
        BY <4>1 DEF registerDriver
      <4>3. job[i].conn \in Conns
        BY <3>0, <4>1 DEF registerDriver, Held
      <4> QED
        BY <3>0, <4>2, <4>3 DEF ReconcileTypes
    <3>2. CASE \E i \in Ids : Connected(i) \/ Disconnected(i) \/ unregisterDriver(i)
      BY <3>0, <3>2 DEF Connected, Disconnected, unregisterDriver, ReconcileTypes
    <3>3. CASE \E d \in Drivers : Populate(d)
      BY <3>0, <3>3 DEF Populate, ReconcileTypes
    <3>4. CASE Invalidate \/ ListInstances \/ \E i \in Ids : reconcileIdentity(i) \/ ConnectFails(i) \/ Report(i)
      <4>1. UNCHANGED drv
        BY <3>4, Zenon DEF Invalidate, ListInstances, reconcileIdentity, ConnectFails, Report, Emit, reconcileVars
      <4> QED
        BY <4>1
    <3> QED
      BY <1>5, <3>1, <3>2, <3>3, <3>4 DEF ReconcileSteps
  <2>4. RegistryTypes' /\ Created'
    BY <2>1, <2>2, <2>3 DEF InstancesInv, RegistryTypes, Created
  <2>5. Writing'
    BY <2>1, RegistryStands DEF InstancesInv
  <2> QED
    BY <2>4, <2>5
<1> QED
  BY <1>1, <1>2, <1>3, <1>4, <1>5 DEF InstancesNext, UserActs, OtherSteps, Work, PageSteps, BackendSteps,
     SyncSteps, HandleReport

-----------------------------------------------------------------------------
LEMMA InstancesInit_Inv == InstancesInit => InstancesInv
<1> SUFFICES ASSUME InstancesInit PROVE InstancesInv
  OBVIOUS
<1>1. /\ disk = inst /\ io = {} /\ fetch = "asked"
      /\ reply = [i \in Ids |-> NoInstance] /\ list = [i \in Ids |-> NoInstance]
      /\ entries = [i \in Ids |-> NoEntry] /\ routed = {}
      /\ queue = [i \in Ids |-> <<>>] /\ job = [i \in Ids |-> NoJob]
      /\ drv = [d \in Drivers |-> NoDriver]
      /\ armed = {} /\ synced = [i \in Ids |-> NoCount]
      /\ saving = {} /\ sync = [i \in Ids |-> NoSync] /\ stolen = {}
  BY DEF InstancesInit
<1>2. inst \in [Ids -> Setup \cup {NoInstance, Deleted}]
  <2>1. New \in Setup /\ \A c \in Conns : [New EXCEPT !.conn = c] \in Setup
    BY InstancesAssumption DEF New, Setup, Conn, Knowledge
  <2>2. {NoInstance, New} \cup {[New EXCEPT !.conn = c] : c \in Conns} \subseteq Setup \cup {NoInstance, Deleted}
    BY <2>1
  <2>3. inst \in [Ids -> {NoInstance, New} \cup {[New EXCEPT !.conn = c] : c \in Conns}]
    BY DEF InstancesInit
  <2> QED
    BY <2>2, <2>3
<1>3. RegistryTypes
  <2>1. NoSync \in [pc : {"idle", "apply", "table"}, driver : Some, k : Knowledge] /\ NoSync.pc = "idle"
    BY DEF NoSync, Some, Knowledge
  <2>2. NoCount \in Nat
    BY InstancesAssumption DEF NoCount
  <2> QED
    BY <1>1, <1>2, <2>1, <2>2 DEF RegistryTypes
<1>4. Created /\ Writing
  BY <1>1 DEF Created, Writing
<1>5. ListTypes
  <2>1. <<>> \in Seq(Conn)
    OBVIOUS
  <2> QED
    BY <1>1, <2>1 DEF ListTypes
<1>6. ReconcileTypes
  <2>1. /\ NoEntry \in [kind : {"absent", "in_flight", "live", "failed"}, driver : Some, signature : Conn]
        /\ NoJob \in [pc : {"idle", "register"} \cup Owning, conn : Conn, driver : Some]
        /\ NoDriver \in [owner : Ids \cup {"none"}, conn : Conn, st : {"gone", "registered", "connected"}, ams : BOOLEAN]
        /\ NoDriver.st = "gone"
    BY DEF NoEntry, NoJob, NoDriver, Conn, Some
  <2> QED
    BY <1>1, <2>1 DEF ReconcileTypes
<1>7. Held
  <2>1. NoEntry.kind # "live" /\ NoJob.pc = "idle" /\ NoDriver.st = "gone"
    BY DEF NoEntry, NoJob, NoDriver
  <2>2. \A i \in Ids : Registered(i) = {}
    BY <1>1, <2>1 DEF Registered
  <2> QED
    BY <1>1, <2>1, <2>2 DEF Held, Owning
<1> QED
  BY <1>3, <1>4, <1>5, <1>6, <1>7 DEF InstancesInv

LEMMA InstancesInv_Step == InstancesInv /\ [InstancesNext]_instVars => InstancesInv'
<1> SUFFICES ASSUME InstancesInv, [InstancesNext]_instVars PROVE InstancesInv'
  OBVIOUS
<1>1. CASE InstancesNext
  <2>1. RegistryTypes' /\ Created' /\ Writing' /\ ListTypes'
    BY <1>1, RegistryKept, ListSteps
  <2>2. ReconcileTypes' /\ Held'
    BY <1>1, ReconcileSteps_Keep, DriversKept
  <2> QED
    BY <2>1, <2>2 DEF InstancesInv
<1>2. CASE UNCHANGED instVars
  <2>1. UNCHANGED <<registryVars, listVars, reconcileVars, reportVars>>
    BY <1>2, Zenon DEF instVars
  <2>2. /\ UNCHANGED <<inst, disk, io, fetch, reply, list, queue, entries, routed, job, drv>>
        /\ UNCHANGED <<armed, synced, saving, sync, stolen>>
    BY <2>1, Zenon DEF registryVars, listVars, reconcileVars, reportVars
  <2>3. RegistryTypes' /\ Created' /\ Writing' /\ ListTypes'
    BY <2>2 DEF InstancesInv, RegistryTypes, Created, Writing, ListTypes
  <2>4. ReconcileTypes' /\ Held'
    BY <2>2 DEF InstancesInv, ReconcileTypes, Held, Registered
  <2> QED
    BY <2>3, <2>4 DEF InstancesInv
<1> QED
  BY <1>1, <1>2

\* The two flags of the list query.
FlagsOK == changed \in BOOLEAN /\ requeued \in BOOLEAN

LEMMA FlagsStep == FlagsOK /\ [InstancesNext]_instVars => FlagsOK'
<1> SUFFICES ASSUME FlagsOK, [InstancesNext]_instVars PROVE FlagsOK'
  OBVIOUS
<1>1. CASE Invalidate
  <2>1. changed' = FALSE /\ requeued' = (fetch # "idle")
    BY <1>1, Zenon DEF Invalidate
  <2> QED
    BY <2>1, Zenon DEF FlagsOK
<1>2. CASE FetchSettles
  BY <1>2, Zenon DEF FlagsOK, FetchSettles
<1>3. CASE \/ ListInstances \/ FileOp \/ UserActs \/ UNCHANGED instVars
           \/ \E i \in Ids : requestFullSyncOnConnect(i) \/ ReconcileSteps(i) \/ SyncSteps(i) \/ Report(i)
           \/ (\E d \in Drivers : Populate(d)) \/ HandleReport
  <2>1. (changed' = changed \/ changed' = TRUE) /\ requeued' = requeued
    BY <1>3, Zenon DEF ListInstances, FileOp, UserActs, Create, Delete, ForgetConnection, SetCalibrated, SaveConnection,
       requestFullSyncOnConnect, ReconcileSteps, reconcileIdentity, registerDriver, Connected, ConnectFails,
       Disconnected, unregisterDriver, SyncSteps, SyncApply, SyncSeed, Report, Emit, Populate, HandleReport,
       syncFromStatusReport, instVars, listVars
  <2> QED
    BY <2>1, Zenon DEF FlagsOK
<1> QED
  BY <1>1, <1>2, <1>3, Zenon DEF InstancesNext, OtherSteps, Work, PageSteps, BackendSteps

\* For any number of printers, connections and drivers: with no file operation
\* under way the files are the registry, and a printer never has two drivers,
\* whatever edits, connects, failures and syncs overtake each other
\* (instance_registry.rs:180 mutate_instance, useDriverConnections.ts:664).
THEOREM RegistryHolds == InstancesSpec => []RegistryIsTrue
<1>1. InstancesInit => FlagsOK
  BY Zenon DEF InstancesInit, FlagsOK
<1>2. InstancesInv /\ FlagsOK => RegistryIsTrue
  <2> SUFFICES ASSUME InstancesInv, FlagsOK PROVE RegistryIsTrue
    OBVIOUS
  <2>0. RegistryTypes /\ ListTypes /\ ReconcileTypes
    BY DEF InstancesInv
  <2>1. InstancesTypeOK
    <3>1. \A i \in Ids : Exists(i) =>
            inst[i] \in [conn : Conns \cup {"none"}, units : 0..AmsMax,
                        loadout : Conns \cup {"default"}, k : {"none", "local", "seeded"}]
      BY <2>0, Rows DEF Setup, Conn, Knowledge
    <3>2. {changed, requeued} \subseteq BOOLEAN
      BY Zenon DEF FlagsOK
    <3>3. fetch \in {"idle", "asked", "answered"} /\ armed \cup saving \cup stolen \subseteq Ids /\ routed \subseteq Drivers
      BY <2>0 DEF RegistryTypes, ListTypes, ReconcileTypes
    <3>4. \A i \in Ids :
            /\ entries[i].kind \in {"absent", "in_flight", "live", "failed"} /\ synced[i] \in Nat
            /\ job[i].pc \in {"idle", "register", "connect", "rollback", "disconnect", "unregister"}
      BY <2>0 DEF RegistryTypes, ReconcileTypes, Owning
    <3> QED
      BY <3>1, <3>2, <3>3, <3>4, Zenon DEF InstancesTypeOK
  <2>2. DiskFollows
    BY DEF DiskFollows, InstancesInv, Writing
  <2>3. OneDriverPerPrinter
    <3> SUFFICES ASSUME NEW i \in Ids PROVE Cardinality(Registered(i)) <= 1
      BY DEF OneDriverPerPrinter
    <3>1. Registered(i) = {} \/ \E d : Registered(i) = {d}
      BY <2>0 DEF InstancesInv, Held, ReconcileTypes
    <3>2. CASE Registered(i) = {}
      <4>1. Cardinality(Registered(i)) = 0
        BY <3>2, FS_EmptySet, Zenon
      <4> QED
        BY <4>1
    <3>3. CASE \E d : Registered(i) = {d}
      <4>1. Cardinality(Registered(i)) = 1
        BY <3>3, FS_Singleton, Zenon
      <4> QED
        BY <4>1
    <3> QED
      BY <3>1, <3>2, <3>3
  <2> QED
    BY <2>1, <2>2, <2>3 DEF RegistryIsTrue
<1> QED
  BY <1>1, <1>2, InstancesInit_Inv, InstancesInv_Step, FlagsStep, PTL DEF InstancesSpec

==============================================================================
