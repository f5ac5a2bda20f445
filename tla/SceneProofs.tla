----------------------------- MODULE SceneProofs -----------------------------
(***************************************************************************)
(* Theorems about the scene for every set of materials and printers, every *)
(* workload and any documents, plates, objects and commands.               *)
(*                                                                         *)
(* The commands are functions from one session to the next, so most of the *)
(* work is done on values: for each of them a lemma says that a session    *)
(* that is whole (SessionOK) stays so, that no mesh id comes to stand for  *)
(* another geometry (PoolStep), and that the cache of primitives resolves. *)
(* What is excused (bindings the user undid, plates with bindings of       *)
(* another printer, meshes of closed plates) is a parameter of SessionOK.  *)
(*                                                                         *)
(* The inductive invariant, SceneIInv, says the same of every snapshot     *)
(* that can come back: of the history's, and of those that the two threads *)
(* captured and are yet to record or restore (Whole).  The snapshots come  *)
(* from other times, so they are excused what was ever excused.  And it    *)
(* says which of the records in the making still is the live session.      *)
(*                                                                         *)
(* The walks over objects, materials and targets are recursive functions;  *)
(* what they compute is proved of a set of numbers with a least element    *)
(* (LeastOne), as there is no induction over data.  At the end of the part *)
(* on sessions, the undo stack of UndoHistory on its own.                  *)
(***************************************************************************)
EXTENDS SceneSession, FiniteSetTheorems, TLAPS

(* Of any set of numbers there is a least one. *)
LEMMA LeastOne ==
  ASSUME NEW T \in SUBSET Nat, T # {}
  PROVE  \E m \in T : \A k \in T : m <= k
<1> DEFINE U == {0..i : i \in T}
<1>1. U \subseteq FiniteSubsetsOf(Nat)
  <2> SUFFICES ASSUME NEW i \in T PROVE 0..i \in FiniteSubsetsOf(Nat)
    OBVIOUS
  <2>1. IsFiniteSet(0..i) /\ 0..i \in SUBSET Nat
    BY FS_Interval
  <2> QED
    BY <2>1 DEF FiniteSubsetsOf
<1>2. U # {}
  OBVIOUS
<1>3. \E x \in U : \A y \in U : ~ (<<y, x>> \in StrictSubsetOrdering(Nat))
  <2> HIDE DEF U
  <2> QED
    BY <1>1, <1>2, FS_StrictSubsetOrderingWellFounded, WFMin
<1>4. PICK m \in T : \A k \in T : ~ (<<0..k, 0..m>> \in StrictSubsetOrdering(Nat))
  BY <1>3
<1>5. ASSUME NEW k \in T, k < m PROVE FALSE
  <2>1. 0..k \subseteq 0..m /\ 0..k # 0..m /\ 0..k \in SUBSET Nat /\ 0..m \in SUBSET Nat
    BY <1>5
  <2> QED
    BY <2>1, <1>4 DEF StrictSubsetOrdering
<1> QED
  BY <1>4, <1>5

(* What holds of 0 and of each next number holds up to n. *)
LEMMA UpTo ==
  ASSUME NEW n \in Nat, NEW T, 0 \in T, \A i \in 1..n : i - 1 \in T => i \in T
  PROVE  \A i \in 0..n : i \in T
<1> DEFINE bad == {i \in 0..n : i \notin T}
<1> SUFFICES ASSUME bad # {} PROVE FALSE
  OBVIOUS
<1>1. PICK m \in bad : \A k \in bad : m <= k
  <2>1. bad \in SUBSET Nat
    OBVIOUS
  <2> QED
    BY <2>1, LeastOne
<1>2. m # 0 /\ m - 1 \in 0..n /\ m - 1 \notin bad /\ m \in 1..n
  BY <1>1
<1> QED
  BY <1>1, <1>2

(* What the sets that are read off a plate hold. *)
LEMMA OnPlate ==
  ASSUME NEW plate
  PROVE  /\ \A x : x \in IdsOn(plate) <=> \E k \in DOMAIN plate.objects : x = plate.objects[k].id
         /\ \A x : x \in GroupsOn(plate)
               <=> x # NoGroup /\ \E k \in DOMAIN plate.objects : x = plate.objects[k].group
         /\ \A o : o \in ObjectsOn(plate) <=> \E k \in DOMAIN plate.objects : o = plate.objects[k]
<1>1. \A o : o \in ObjectsOn(plate) <=> \E k \in DOMAIN plate.objects : o = plate.objects[k]
  BY DEF ObjectsOn
<1>2. \A x : x \in IdsOn(plate) <=> \E o \in ObjectsOn(plate) : x = o.id
  BY DEF IdsOn
<1>3. \A x : x \in GroupsOn(plate) <=> x # NoGroup /\ \E o \in ObjectsOn(plate) : x = o.group
  BY <1>2 DEF GroupsOn, GroupsOf
<1> QED BY <1>1, <1>2, <1>3

(* The meshes a plate names. *)
Names(plate) ==
  {plate.objects[k].mesh : k \in DOMAIN plate.objects}
    \cup UNION {plate.mods[x] : x \in DOMAIN plate.mods}

LEMMA NamesIs ==
  ASSUME NEW plate
  PROVE  \A m : m \in Names(plate) <=> \/ \E k \in DOMAIN plate.objects : m = plate.objects[k].mesh
                                       \/ \E x \in DOMAIN plate.mods : m \in plate.mods[x]
BY DEF Names

LEMMA ReferencedIs ==
  ASSUME NEW p
  PROVE  \A m : m \in Referenced(p) <=> \E i \in DOMAIN p.plates : m \in Names(p.plates[i])
<1>1. \A m : m \in {o.mesh : o \in AllObjects(p)}
        <=> \E i \in DOMAIN p.plates : \E k \in DOMAIN p.plates[i].objects : m = p.plates[i].objects[k].mesh
  <2>1. \A o : o \in AllObjects(p) <=> \E i \in DOMAIN p.plates : o \in ObjectsOn(p.plates[i])
    BY DEF AllObjects
  <2> QED BY <2>1, OnPlate
<1>2. \A m : m \in UNION {UNION {p.plates[i].mods[x] : x \in DOMAIN p.plates[i].mods} : i \in DOMAIN p.plates}
        <=> \E i \in DOMAIN p.plates : m \in UNION {p.plates[i].mods[x] : x \in DOMAIN p.plates[i].mods}
  OBVIOUS
<1>3. \A m : m \in Referenced(p) <=>
        \/ m \in {o.mesh : o \in AllObjects(p)}
        \/ m \in UNION {UNION {p.plates[i].mods[x] : x \in DOMAIN p.plates[i].mods} : i \in DOMAIN p.plates}
  BY Zenon DEF Referenced
<1>4. \A i : \A m : m \in Names(p.plates[i]) <=>
        \/ \E k \in DOMAIN p.plates[i].objects : m = p.plates[i].objects[k].mesh
        \/ m \in UNION {p.plates[i].mods[x] : x \in DOMAIN p.plates[i].mods}
  BY DEF Names
<1> SUFFICES ASSUME NEW m
             PROVE  m \in Referenced(p) <=> \E i \in DOMAIN p.plates : m \in Names(p.plates[i])
  OBVIOUS
<1>5. m \in Referenced(p) <=>
        \/ \E i \in DOMAIN p.plates : \E k \in DOMAIN p.plates[i].objects : m = p.plates[i].objects[k].mesh
        \/ \E i \in DOMAIN p.plates : m \in UNION {p.plates[i].mods[x] : x \in DOMAIN p.plates[i].mods}
  BY <1>1, <1>2, <1>3, Zenon
<1> QED BY <1>5, <1>4, Zenon

LEMMA MaterialsAre ==
  ASSUME NEW p, NEW plate
  PROVE  \A m : m \in MaterialsOn(p, plate) <=>
           \E k \in DOMAIN plate.objects : \/ m = MaterialOf(plate.objects[k])
                                           \/ m \in PaintOf(p, plate.objects[k].mesh)
<1>1. \A m : m \in MaterialsOn(p, plate) <=>
         \E o \in ObjectsOn(plate) : m \in {MaterialOf(o)} \cup PaintOf(p, o.mesh)
  BY DEF MaterialsOn
<1> QED BY <1>1, OnPlate

(* A plate is whole: of its document p, but for the pairs in e, unless it is one of c, *)
(* with groups up to f.                                                                *)
PlateOK(p, plate, e, c, f) ==
  /\ PlateShape(plate)
  /\ Resolves(p, plate)
  /\ UseIsBound(p, plate, e)
  /\ plate.id \notin c => Fits(plate)
  /\ GroupsOn(plate) \subseteq 1..f

(* A document is: and its pool has nothing unused, but for what is in l. *)
DocumentOK(p, e, c, l, f) ==
  /\ DocumentShape(p)
  /\ IdsApart(p) /\ GroupsApart(p)
  /\ \A i \in DOMAIN p.plates : PlateOK(p, p.plates[i], e, c, f)
  /\ DOMAIN p.meshes \subseteq Referenced(p) \cup l

(* q is p with plate i changed, and perhaps more object ids handed out. *)
Changes(p, q, i) ==
  /\ DOMAIN q = DOMAIN p /\ DOMAIN q.plates = DOMAIN p.plates
  /\ \A j \in DOMAIN p.plates : j # i => q.plates[j] = p.plates[j]
  /\ q.active = p.active /\ q.meshes = p.meshes /\ q.lastMesh = p.lastMesh
  /\ q.lastObject \in Nat /\ q.lastObject >= p.lastObject
  /\ q.plates \in Seq({q.plates[j] : j \in DOMAIN q.plates}) /\ Len(q.plates) = Len(p.plates)

(* A plate of a document is replaced by another. *)
LEMMA Edited ==
  ASSUME NEW p, DocumentShape(p), NEW i \in DOMAIN p.plates, NEW plate, NEW q, q = EditPlate(p, i, plate)
  PROVE  Changes(p, q, i) /\ q.plates[i] = plate /\ q.lastObject = p.lastObject
<1>1. /\ DOMAIN q = DOMAIN p /\ q.plates = [p.plates EXCEPT ![i] = plate]
      /\ q.active = p.active /\ q.meshes = p.meshes
      /\ q.lastMesh = p.lastMesh /\ q.lastObject = p.lastObject
  BY DEF EditPlate, DocumentShape
<1>2. DOMAIN q.plates = DOMAIN p.plates /\ q.plates[i] = plate
      /\ \A j \in DOMAIN p.plates : j # i => q.plates[j] = p.plates[j]
  BY <1>1
<1>3. p.plates \in Seq({p.plates[j] : j \in DOMAIN p.plates})
  BY DEF DocumentShape
<1>4. DOMAIN p.plates = 1..Len(p.plates) /\ Len(p.plates) \in Nat
  BY <1>3
<1>5. q.plates = [j \in 1..Len(p.plates) |-> q.plates[j]]
  BY <1>1, <1>4
<1>6. q.plates \in Seq({q.plates[j] : j \in DOMAIN q.plates}) /\ Len(q.plates) = Len(p.plates)
  <2> DEFINE S == {q.plates[j] : j \in DOMAIN q.plates}
  <2>1. q.plates \in [1..Len(p.plates) -> S]
    BY <1>5, <1>2, <1>4
  <2> QED BY <2>1, <1>4
<1>7. p.lastObject \in Nat
  BY DEF DocumentShape
<1>8. q.lastObject \in Nat /\ q.lastObject >= p.lastObject
  BY <1>1, <1>7
<1> QED BY <1>1, <1>2, <1>6, <1>8, Zenon DEF Changes

LEMMA ShapeKept ==
  ASSUME NEW p, DocumentShape(p), NEW i \in DOMAIN p.plates, NEW q, Changes(p, q, i), PlateShape(q.plates[i])
  PROVE  DocumentShape(q)
BY DEF DocumentShape, Changes

(* What is said of the other plates stays. *)
LEMMA OthersKept ==
  ASSUME NEW p, NEW q, NEW plate,
         \A m \in Names(plate) : m \in DOMAIN q.meshes /\ q.meshes[m].paint = p.meshes[m].paint,
         p.lastObject \in Nat, q.lastObject \in Nat, q.lastObject >= p.lastObject,
         NEW e, NEW e2, e \subseteq e2, NEW c, NEW c2, \A x \in c \ c2 : x # plate.id,
         NEW f \in Nat, NEW f2 \in Nat, f <= f2, PlateOK(p, plate, e, c, f)
  PROVE  PlateOK(q, plate, e2, c2, f2)
<1>1. Resolves(q, plate)
  BY NamesIs DEF PlateOK, Resolves
<1>2. MaterialsOn(q, plate) = MaterialsOn(p, plate)
  <2>1. \A k \in DOMAIN plate.objects : PaintOf(q, plate.objects[k].mesh) = PaintOf(p, plate.objects[k].mesh)
    <3> TAKE k \in DOMAIN plate.objects
    <3>1. plate.objects[k].mesh \in Names(plate) /\ plate.objects[k].mesh \in DOMAIN p.meshes
      BY NamesIs DEF PlateOK, Resolves
    <3> QED BY <3>1 DEF PaintOf
  <2>2. \A m : m \in MaterialsOn(q, plate) <=> m \in MaterialsOn(p, plate)
    BY <2>1, MaterialsAre
  <2> QED BY <2>2
<1>3. UseIsBound(q, plate, e2)
  <2>1. {m \in Materials : <<plate.id, m>> \in e} \subseteq {m \in Materials : <<plate.id, m>> \in e2}
    OBVIOUS
  <2> QED BY <1>2, <2>1, Zenon DEF PlateOK, UseIsBound
<1>4. plate.id \notin c2 => Fits(plate)
  BY DEF PlateOK
<1>5. GroupsOn(plate) \subseteq 1..f2
  BY DEF PlateOK
<1>6. PlateShape(plate)
  BY DEF PlateOK
<1> QED BY <1>1, <1>3, <1>4, <1>5, <1>6 DEF PlateOK

LEMMA NamesResolve ==
  ASSUME NEW p, NEW plate, Resolves(p, plate)
  PROVE  Names(plate) \subseteq DOMAIN p.meshes
BY NamesIs DEF Resolves

(* What may be said less of a document than before, but for plate id. *)
Allowing(e, c, l, f, e2, c2, l2, f2, id) ==
  e \subseteq e2 /\ (\A x \in c \ c2 : x = id) /\ l \subseteq l2 /\ f \in Nat /\ f2 \in Nat /\ f <= f2

LEMMA AllowingSame ==
  ASSUME NEW e, NEW c, NEW l, NEW f \in Nat, NEW id
  PROVE  Allowing(e, c, l, f, e, c, l, f, id)
BY DEF Allowing

(* A plate in the place of plate i shares no object or group with the others. *)
Apart(p, i, new) ==
  \A j \in DOMAIN p.plates : j # i => /\ IdsOn(new) \cap IdsOn(p.plates[j]) = {}
                                      /\ GroupsOn(new) \cap GroupsOn(p.plates[j]) = {}

StillNamed(old, new, l) == \A m \in Names(old) : m \in Names(new) \/ m \in l

LEMMA ChangeKeeps ==
  ASSUME NEW p, NEW e, NEW c, NEW l, NEW f \in Nat, DocumentOK(p, e, c, l, f),
         NEW i \in DOMAIN p.plates, NEW q, Changes(p, q, i), q.plates[i].id = p.plates[i].id,
         NEW e2, NEW c2, NEW l2, NEW f2, Allowing(e, c, l, f, e2, c2, l2, f2, q.plates[i].id),
         PlateOK(q, q.plates[i], e2, c2, f2),
         Apart(p, i, q.plates[i]), StillNamed(p.plates[i], q.plates[i], l2)
  PROVE  DocumentOK(q, e2, c2, l2, f2)
<1> USE DEF Allowing, Apart, StillNamed
<1>1. DocumentShape(q)
  BY ShapeKept DEF PlateOK, DocumentOK
<1>2. IdsApart(q) /\ GroupsApart(q)
  <2>1. DOMAIN q.plates = DOMAIN p.plates /\ \A j \in DOMAIN p.plates : j # i => q.plates[j] = p.plates[j]
    BY DEF Changes
  <2>2. IdsApart(p) /\ GroupsApart(p)
    BY DEF DocumentOK
  <2>3. q.plates[i].id = p.plates[i].id /\ Apart(p, i, q.plates[i])
    OBVIOUS
  <2>4. IdsApart(q)
    BY ONLY <2>1, <2>2, <2>3 DEF IdsApart, Apart
  <2>5. GroupsApart(q)
    BY ONLY <2>1, <2>2, <2>3 DEF GroupsApart, Apart
  <2> QED BY <2>4, <2>5
<1>4. \A j \in DOMAIN q.plates : PlateOK(q, q.plates[j], e2, c2, f2)
  <2> SUFFICES ASSUME NEW j \in DOMAIN p.plates, j # i PROVE PlateOK(q, q.plates[j], e2, c2, f2)
    BY DEF Changes
  <2>1. q.plates[j] = p.plates[j] /\ p.plates[j].id # q.plates[i].id /\ PlateOK(p, p.plates[j], e, c, f)
    BY DEF Changes, DocumentOK, IdsApart
  <2>2. /\ p.meshes = q.meshes /\ p.lastObject \in Nat /\ q.lastObject \in Nat
        /\ q.lastObject >= p.lastObject
    BY DEF Changes, DocumentOK, DocumentShape
  <2>4. \A m \in Names(p.plates[j]) : m \in DOMAIN q.meshes /\ q.meshes[m].paint = p.meshes[m].paint
    BY <2>1, <2>2, NamesResolve DEF PlateOK
  <2>3. \A x \in c \ c2 : x # p.plates[j].id
    BY <2>1
  <2> QED BY <2>1, <2>2, <2>3, <2>4, OthersKept
<1>5. DOMAIN q.meshes \subseteq Referenced(q) \cup l2
  <2> SUFFICES ASSUME NEW m \in DOMAIN p.meshes, m \notin l2 PROVE m \in Referenced(q)
    BY DEF Changes
  <2>1. PICK j \in DOMAIN p.plates : m \in Names(p.plates[j])
    BY ReferencedIs DEF DocumentOK
  <2>2. j \in DOMAIN q.plates /\ m \in Names(q.plates[j])
    BY <2>1 DEF Changes
  <2> QED BY <2>2, ReferencedIs
<1> QED BY <1>1, <1>2, <1>4, <1>5 DEF DocumentOK

LEMMA Mapped ==
  ASSUME NEW S, NEW s \in Seq(S), NEW T, NEW new, new = [k \in DOMAIN s |-> new[k]],
         \A k \in DOMAIN s : new[k] \in T
  PROVE  new \in Seq(T) /\ Len(new) = Len(s)
<1>1. DOMAIN s = 1..Len(s) /\ Len(s) \in Nat
  OBVIOUS
<1>2. new \in [1..Len(s) -> T]
  BY <1>1
<1> QED BY <1>1, <1>2

(* A plate whose objects keep their ids, meshes and materials, and its bindings and *)
(* connectors: settings, groups and poses may change.                               *)
Like(plate, new) ==
  /\ DOMAIN new = DOMAIN plate
  /\ new.id = plate.id /\ new.printer = plate.printer
  /\ new.mods = plate.mods /\ new.slots = plate.slots
  /\ DOMAIN new.objects = DOMAIN plate.objects
  /\ new.objects \in Seq(Objects)
  /\ \A k \in DOMAIN plate.objects :
       /\ new.objects[k].id = plate.objects[k].id
       /\ new.objects[k].mesh = plate.objects[k].mesh
       /\ new.objects[k].mat = plate.objects[k].mat

LEMMA LikeIs ==
  ASSUME NEW plate, NEW new, Like(plate, new)
  PROVE  IdsOn(new) = IdsOn(plate) /\ Names(new) = Names(plate)
         /\ \A p : MaterialsOn(p, new) = MaterialsOn(p, plate)
<1>1. \A x : x \in IdsOn(new) <=> x \in IdsOn(plate)
  BY OnPlate DEF Like
<1>2. \A m : m \in Names(new) <=> m \in Names(plate)
  BY NamesIs DEF Like
<1>3. ASSUME NEW p PROVE \A m : m \in MaterialsOn(p, new) <=> m \in MaterialsOn(p, plate)
  BY MaterialsAre DEF Like, MaterialOf
<1>4. \A p : MaterialsOn(p, new) = MaterialsOn(p, plate)
  BY <1>3
<1> QED BY <1>1, <1>2, <1>4

LEMMA Relabelled ==
  ASSUME NEW p, NEW e, NEW c, NEW l, NEW f \in Nat, DocumentOK(p, e, c, l, f),
         NEW i \in DOMAIN p.plates, NEW q, Changes(p, q, i), Like(p.plates[i], q.plates[i]),
         NEW f2 \in Nat, f <= f2,
         \A g \in GroupsOn(q.plates[i]) : g \in GroupsOn(p.plates[i]) \/ g \in (f + 1)..f2
  PROVE  DocumentOK(q, e, c, l, f2)
<1> DEFINE old == p.plates[i]
           new == q.plates[i]
<1>1. PlateOK(p, old, e, c, f) /\ IdsOn(new) = IdsOn(old) /\ Names(new) = Names(old)
      /\ MaterialsOn(p, new) = MaterialsOn(p, old) /\ new.id = old.id
  <2>1. PlateOK(p, old, e, c, f)
    BY Zenon DEF DocumentOK
  <2>2. Like(old, new)
    OBVIOUS
  <2>3. new.id = old.id
    BY <2>2 DEF Like
  <2> HIDE DEF old, new
  <2> QED BY ONLY <2>1, <2>2, <2>3, LikeIs, Zenon
<1>2. PlateShape(new)
  BY <1>1 DEF PlateShape, Like, PlateOK
<1>3. p.meshes = q.meshes /\ p.lastObject \in Nat /\ q.lastObject \in Nat /\ q.lastObject >= p.lastObject
  BY DEF Changes, DocumentOK, DocumentShape
<1>4. Resolves(q, new)
  BY <1>1, <1>3 DEF PlateOK, Resolves, Like
<1>5. UseIsBound(q, new, e)
  <2>1. MaterialsOn(q, new) = MaterialsOn(p, old)
    BY <1>1, <1>3 DEF MaterialsOn, PaintOf
  <2>2. UseIsBound(p, old, e) /\ new.printer = old.printer /\ new.slots = old.slots
    BY <1>1 DEF PlateOK, Like
  <2> HIDE DEF old, new
  <2> QED BY <2>1, <2>2, <1>1, Zenon DEF UseIsBound, Bound
<1>6. new.id \notin c => Fits(new)
  BY <1>1 DEF PlateOK, Fits, Like
<1>7. GroupsOn(new) \subseteq 1..f2 /\ \A j \in DOMAIN p.plates : j # i => GroupsOn(new) \cap GroupsOn(p.plates[j]) = {}
  <2>1. \A j \in DOMAIN p.plates : GroupsOn(p.plates[j]) \subseteq 1..f
    BY DEF DocumentOK, PlateOK
  <2>2. \A j \in DOMAIN p.plates : j # i => GroupsOn(old) \cap GroupsOn(p.plates[j]) = {}
    BY DEF DocumentOK, GroupsApart
  <2> HIDE DEF old, new
  <2>3. \A g \in GroupsOn(new) : g \in 1..f2
    BY <2>1 DEF old, new
  <2> QED BY <2>1, <2>2, <2>3 DEF old, new
<1>8. PlateOK(q, new, e, c, f2)
  BY <1>2, <1>4, <1>5, <1>6, <1>7 DEF PlateOK
<1>9. \A j \in DOMAIN p.plates : j # i => IdsOn(new) \cap IdsOn(p.plates[j]) = {}
  BY <1>1 DEF DocumentOK, IdsApart
<1>10. Apart(p, i, new) /\ StillNamed(old, new, l) /\ Allowing(e, c, l, f, e, c, l, f2, new.id)
  BY <1>1, <1>7, <1>9 DEF Apart, StillNamed, Allowing
<1> QED BY <1>1, <1>8, <1>10, ChangeKeeps

LEMMA ObjectEdits ==
  ASSUME NEW o \in Objects
  PROVE  /\ \A v \in {0, 1} : LET n == [o EXCEPT !.pose = v]
             IN n \in Objects /\ n.id = o.id /\ n.mesh = o.mesh /\ n.mat = o.mat /\ n.group = o.group
         /\ \A g \in Nat : LET n == [o EXCEPT !.group = g]
             IN n \in Objects /\ n.id = o.id /\ n.mesh = o.mesh /\ n.mat = o.mat /\ n.group = g
         /\ \A m \in Materials \cup {NoMaterial} : LET n == [o EXCEPT !.mat = m]
             IN n \in Objects /\ n.id = o.id /\ n.mesh = o.mesh /\ n.mat = m /\ n.group = o.group
         /\ \A x \in Nat : LET n == [o EXCEPT !.id = x]
             IN n \in Objects /\ n.id = x /\ n.mesh = o.mesh /\ n.mat = o.mat /\ n.group = o.group
         /\ o.id \in Nat /\ o.mesh \in Nat /\ o.group \in Nat /\ o.mat \in Materials \cup {NoMaterial}
BY DEF Objects

(* What an edit of the objects leaves. *)
LEMMA PosedIs ==
  ASSUME NEW p, DocumentShape(p), NEW ids, NEW q, q = Pose(p, ids)
  PROVE  /\ Changes(p, q, p.active) /\ Like(p.plates[p.active], q.plates[p.active])
         /\ \A k \in DOMAIN p.plates[p.active].objects :
              q.plates[p.active].objects[k].group = p.plates[p.active].objects[k].group
         /\ q.lastObject = p.lastObject
<1> DEFINE plate == p.plates[p.active]
           new == EditObjects(plate, LAMBDA o : IF o.id \in ids THEN [o EXCEPT !.pose = 1] ELSE o)
<1>1. q = EditPlate(p, p.active, new)
  BY DEF Pose, EditActive, ActivePlate
<1>2. p.active \in DOMAIN p.plates /\ PlateShape(plate)
  BY DEF DocumentShape
<1>3. /\ new.objects = [k \in DOMAIN plate.objects |-> IF plate.objects[k].id \in ids
                           THEN [plate.objects[k] EXCEPT !.pose = 1] ELSE plate.objects[k]]
      /\ DOMAIN new = DOMAIN plate
      /\ new.id = plate.id /\ new.printer = plate.printer
      /\ new.mods = plate.mods /\ new.slots = plate.slots
  BY <1>2 DEF EditObjects, PlateShape
<1>4. Changes(p, q, p.active) /\ q.plates[p.active] = new /\ q.lastObject = p.lastObject
  BY <1>1, <1>2, Edited
<1>5. plate.objects \in Seq(Objects)
  BY <1>2 DEF PlateShape
<1>6. \A k \in DOMAIN plate.objects : plate.objects[k] \in Objects
  BY <1>5
<1>7. \A k \in DOMAIN plate.objects :
        /\ new.objects[k] \in Objects
        /\ new.objects[k].id = plate.objects[k].id
        /\ new.objects[k].mesh = plate.objects[k].mesh
        /\ new.objects[k].mat = plate.objects[k].mat
        /\ new.objects[k].group = plate.objects[k].group
  <2> TAKE k \in DOMAIN plate.objects
  <2> DEFINE o == plate.objects[k]
             n == new.objects[k]
  <2>1. o \in Objects /\ n = IF o.id \in ids THEN [o EXCEPT !.pose = 1] ELSE o
    BY <1>3, <1>6, Zenon
  <2> HIDE DEF o, n
  <2>2. LET m == [o EXCEPT !.pose = 1]
        IN m \in Objects /\ m.id = o.id /\ m.mesh = o.mesh /\ m.mat = o.mat /\ m.group = o.group
    BY ONLY <2>1, ObjectEdits
  <2>3. n \in Objects /\ n.id = o.id /\ n.mesh = o.mesh /\ n.mat = o.mat /\ n.group = o.group
    BY ONLY <2>1, <2>2
  <2> QED BY ONLY <2>3, Zenon DEF o, n
<1>8. DOMAIN new.objects = DOMAIN plate.objects /\ new.objects = [k \in DOMAIN plate.objects |-> new.objects[k]]
  BY <1>3, Zenon
<1> HIDE DEF plate, new
<1>9. new.objects \in Seq(Objects)
  BY <1>5, <1>7, <1>8, Mapped
<1>10. Like(plate, new)
  BY <1>3, <1>7, <1>8, <1>9 DEF Like
<1> QED BY <1>4, <1>7, <1>10 DEF plate

LEMMA Longer ==
  ASSUME NEW S, NEW s \in Seq(S), NEW x \in S
  PROVE  /\ Append(s, x) \in Seq(S) /\ DOMAIN Append(s, x) = 1..(Len(s) + 1) /\ DOMAIN s = 1..Len(s)
         /\ Len(s) \in Nat /\ Append(s, x)[Len(s) + 1] = x /\ \A k \in 1..Len(s) : Append(s, x)[k] = s[k]
OBVIOUS

(* The objects with these ids, each once. *)
LEMMA InOrderIs ==
  ASSUME NEW plate, PlateShape(plate), NEW ids, NEW r, r = InOrder(plate, ids)
  PROVE  /\ r \in Seq(Objects)
         /\ \A k \in DOMAIN r : \E j \in DOMAIN plate.objects : r[k] = plate.objects[j] /\ r[k].id \in ids
         /\ \A j \in DOMAIN plate.objects : plate.objects[j].id \in ids => \E k \in DOMAIN r : r[k] = plate.objects[j]
         /\ (\A j, k \in DOMAIN plate.objects : plate.objects[j].id = plate.objects[k].id => j = k)
              => \A j, k \in DOMAIN r : r[j].id = r[k].id => j = k
<1> DEFINE all == plate.objects
           n == Len(all)
           next(v, k) == IF all[k].id \in ids THEN Append(v, all[k]) ELSE v
           Runs(f, m) == /\ f = [i \in 0..m |-> f[i]]
                         /\ f[0] = << >> /\ \A i \in 1..m : f[i] = next(f[i - 1], i)
           T == {m \in 0..n : \E f : Runs(f, m)}
<1>1. all \in Seq(Objects) /\ n \in Nat /\ DOMAIN all = 1..n /\ \A k \in 1..n : all[k] \in Objects
  BY DEF PlateShape
<1>2. PICK f : Runs(f, n)
  <2> HIDE DEF next, n
  <2>1. 0 \in T
    <3> DEFINE g == [i \in 0..0 |-> << >>]
    <3>1. g = [i \in 0..0 |-> g[i]] /\ g[0] = << >> /\ \A i \in 1..0 : FALSE
      OBVIOUS
    <3>2. Runs(g, 0)
      BY <3>1
    <3>3. 0 \in 0..n
      BY <1>1
    <3> HIDE DEF Runs
    <3> QED BY <3>2, <3>3
  <2>2. ASSUME NEW m \in 1..n, m - 1 \in T PROVE m \in T
    <3>1. PICK f : Runs(f, m - 1)
      BY <2>2
    <3> DEFINE g == [i \in 0..m |-> IF i = m THEN next(f[m - 1], m) ELSE f[i]]
    <3>2. g = [i \in 0..m |-> g[i]] /\ g[0] = << >>
      BY <3>1, <1>1
    <3>3. ASSUME NEW i \in 1..m PROVE g[i] = next(g[i - 1], i)
      <4>1. g[i - 1] = f[i - 1] /\ i \in 0..m
        BY <1>1
      <4>2. i # m => i \in 1..(m - 1) /\ g[i] = f[i]
        BY <1>1, <4>1
      <4> QED BY <3>1, <4>1, <4>2
    <3>4. Runs(g, m)
      BY <3>2, <3>3
    <3>5. m \in 0..n
      BY <1>1
    <3> HIDE DEF Runs
    <3> QED BY <3>4, <3>5
  <2> HIDE DEF T
  <2>3. n \in T
    <3>1. \A i \in 0..n : i \in T
      BY <1>1, <2>1, <2>2, UpTo, Zenon
    <3> QED BY <3>1, <1>1
  <2> QED BY <2>3 DEF T
<1> HIDE DEF T
<1>3. r = f[n]
  <2> DEFINE run == CHOOSE h : h = [k \in 0..n |-> IF k = 0 THEN << >>
                                     ELSE IF all[k].id \in ids THEN Append(h[k - 1], all[k]) ELSE h[k - 1]]
  <2>1. f = [k \in 0..n |-> IF k = 0 THEN << >>
                 ELSE IF all[k].id \in ids THEN Append(f[k - 1], all[k]) ELSE f[k - 1]]
    <3> HIDE DEF n
    <3>1. \A k \in 0..n : f[k] = IF k = 0 THEN << >>
                 ELSE IF all[k].id \in ids THEN Append(f[k - 1], all[k]) ELSE f[k - 1]
      <4> TAKE k \in 0..n
      <4>1. k # 0 => k \in 1..n
        BY <1>1
      <4> HIDE DEF all
      <4> QED BY <1>2, <4>1
    <3>2. f = [k \in 0..n |-> f[k]]
      BY <1>2, Zenon
    <3> QED BY <3>1, <3>2, Zenon
  <2>2. run = [k \in 0..n |-> IF k = 0 THEN << >>
                 ELSE IF all[k].id \in ids THEN Append(run[k - 1], all[k]) ELSE run[k - 1]]
    BY <2>1, Zenon
  <2>3. r = run[n]
    BY Zenon DEF InOrder
  <2> DEFINE U == {m \in 0..n : run[m] = f[m]}
  <2> HIDE DEF run, n, all
  <2>4. 0 \in U
    BY <2>1, <2>2, <1>1
  <2>5. ASSUME NEW m \in 1..n, m - 1 \in U PROVE m \in U
    <3>1. m \in 0..n /\ m # 0 /\ run[m - 1] = f[m - 1]
      BY <2>5, <1>1
    <3> QED BY <3>1, <2>1, <2>2
  <2> HIDE DEF U
  <2>6. \A i \in 0..n : i \in U
    BY <1>1, <2>4, <2>5, UpTo, Zenon
  <2>7. n \in 0..n
    BY <1>1
  <2> QED BY <2>3, <2>6, <2>7 DEF U
<1> DEFINE Good(v, m) == /\ v \in Seq(Objects)
                         /\ \A k \in DOMAIN v : \E j \in 1..m : v[k] = all[j] /\ v[k].id \in ids
                         /\ \A j \in 1..m : all[j].id \in ids => \E k \in DOMAIN v : v[k] = all[j]
                         /\ (\A j, k \in 1..n : all[j].id = all[k].id => j = k)
                              => \A j, k \in DOMAIN v : v[j].id = v[k].id => j = k
           G == {m \in 0..n : Good(f[m], m)}
<1>4. 0 \in G
  BY <1>1, <1>2
<1>5. ASSUME NEW m \in 1..n, m - 1 \in G PROVE m \in G
  <2> DEFINE v == f[m - 1]
             w == f[m]
  <2>1. Good(v, m - 1) /\ w = next(v, m) /\ all[m] \in Objects
    BY <1>1, <1>2, <1>5
  <2> HIDE DEF v, w
  <2>2. CASE all[m].id \notin ids
    <3>1. w = v /\ \A j \in 1..m : j = m \/ j \in 1..(m - 1)
      BY <2>1, <2>2, <1>1
    <3>2. \A j \in 1..(m - 1) : j \in 1..m
      BY <1>1
    <3>3. Good(w, m)
      BY <2>1, <2>2, <3>1, <3>2
    <3> QED BY <3>3 DEF w
  <2>3. CASE all[m].id \in ids
    <3>1. /\ w = Append(v, all[m]) /\ v \in Seq(Objects)
          /\ \A j \in 1..m : j = m \/ j \in 1..(m - 1)
          /\ \A j \in 1..(m - 1) : j \in 1..m /\ j # m /\ j \in 1..n
      BY <2>1, <2>3, <1>1
    <3>2. /\ w \in Seq(Objects) /\ DOMAIN w = 1..(Len(v) + 1) /\ DOMAIN v = 1..Len(v)
          /\ Len(v) \in Nat /\ w[Len(v) + 1] = all[m] /\ \A k \in 1..Len(v) : w[k] = v[k]
      <4>1. all[m] \in Objects
        BY <2>1
      <4>2. w = Append(v, all[m]) /\ v \in Seq(Objects)
        BY <3>1
      <4> HIDE DEF all
      <4> QED BY <4>1, <4>2, Longer
    <3>3. \A k \in DOMAIN w : k = Len(v) + 1 \/ k \in DOMAIN v
      BY <3>2
    <3>4. \A k \in DOMAIN w : \E j \in 1..m : w[k] = all[j] /\ w[k].id \in ids
      BY <3>1, <3>2, <3>3, <2>1, <2>3
    <3>5. \A j \in 1..m : all[j].id \in ids => \E k \in DOMAIN w : w[k] = all[j]
      BY <3>1, <3>2, <2>1, <2>3
    <3>6. ASSUME \A j, k \in 1..n : all[j].id = all[k].id => j = k
          PROVE  \A j, k \in DOMAIN w : w[j].id = w[k].id => j = k
      <4>1. \A k \in DOMAIN v : w[k] = v[k] /\ w[k].id # all[m].id
        BY <3>6, <3>1, <3>2, <2>1
      <4> QED BY <3>6, <3>2, <3>3, <4>1, <2>1
    <3>7. Good(w, m)
      BY <3>2, <3>4, <3>5, <3>6
    <3> QED BY <3>7 DEF w
  <2> QED BY <2>2, <2>3
<1> HIDE DEF G, Good, Runs
<1>6. n \in G
  <2>1. \A i \in 0..n : i \in G
    BY <1>1, <1>4, <1>5, UpTo, Zenon
  <2> QED BY <2>1, <1>1
<1>7. Good(r, n)
  BY <1>3, <1>6 DEF G
<1> QED BY <1>1, <1>7 DEF Good

-----------------------------------------------------------------------------
(* Bindings.  r is what slots become when mats are bound: what was bound stays, nothing *)
(* else is added, and what is added is given or a slot of the walk.                      *)
Grown(slots, r, mats, walk, given, S) ==
  /\ DOMAIN slots \subseteq DOMAIN r /\ DOMAIN r \subseteq DOMAIN slots \cup mats
  /\ walk # << >> => mats \subseteq DOMAIN r
  /\ \A m \in DOMAIN slots : r[m] = slots[m]
  /\ \A m \in DOMAIN r \ DOMAIN slots : r[m] \in S \/ (m \in DOMAIN given /\ r[m] = given[m])

LEMMA PickedIs ==
  ASSUME NEW S, NEW walk \in Seq(S), walk # << >>, NEW taken, NEW mat \in Nat \ {0}
  PROVE  PickSlot(walk, taken, mat) \in S
<1> DEFINE n == Len(walk)
           at(k) == walk[((mat - 1 + k) % n) + 1]
           free == {k \in 0..(n - 1) : at(k) \notin taken}
<1>1. n \in Nat \ {0}
  OBVIOUS
<1>2. ASSUME NEW k \in 0..(n - 1) PROVE at(k) \in S
  <2> HIDE DEF n
  <2>1. mat - 1 + k \in Nat
    BY <1>1
  <2>2. (mat - 1 + k) % n \in 0..(n - 1)
    BY <1>1, <2>1
  <2>3. ((mat - 1 + k) % n) + 1 \in 1..n
    BY <1>1, <2>2
  <2> QED BY <2>3 DEF n
<1>3. 0 \in 0..(n - 1)
  BY <1>1
<1>4. PickSlot(walk, taken, mat) = IF free = {} THEN at(0) ELSE at(CHOOSE k \in free : \A j \in free : k <= j)
  BY DEF PickSlot
<1>5. CASE free # {}
  <2>1. free \in SUBSET Nat
    OBVIOUS
  <2> HIDE DEF free, at
  <2>2. PICK x \in free : \A j \in free : x <= j
    BY <1>5, <2>1, LeastOne
  <2>3. (CHOOSE k \in free : \A j \in free : k <= j) \in free
    BY <2>2
  <2>4. (CHOOSE k \in free : \A j \in free : k <= j) \in 0..(n - 1)
    BY <2>3 DEF free
  <2> QED BY <1>2, <1>4, <1>5, <2>4
<1> HIDE DEF free, at
<1> QED BY <1>2, <1>3, <1>4, <1>5

LEMMA EnsuredIs ==
  ASSUME NEW slots, NEW mat \in Materials, NEW S, NEW walk \in Seq(S), NEW given,
         NEW r, r = EnsureSlot(slots, mat, walk, given)
  PROVE  Grown(slots, r, {mat}, walk, given, S)
<1>1. mat \in Nat \ {0}
  BY SceneAssumption
<1> DEFINE v == PickSlot(walk, {slots[m] : m \in DOMAIN slots}, mat)
<1>2. walk # << >> => v \in S
  BY <1>1, PickedIs
<1>3. r = IF mat \in DOMAIN slots THEN slots
          ELSE IF mat \in DOMAIN given THEN Put(slots, mat, given[mat])
          ELSE IF walk = << >> THEN slots ELSE Put(slots, mat, v)
  BY DEF EnsureSlot
<1> HIDE DEF v
<1> QED BY <1>2, <1>3 DEF Grown, Put

LEMMA GrownTwice ==
  ASSUME NEW slots, NEW q, NEW r, NEW M, NEW N, NEW walk, NEW given, NEW S,
         Grown(slots, q, M, walk, given, S), Grown(q, r, N, walk, given, S)
  PROVE  Grown(slots, r, M \cup N, walk, given, S)
BY DEF Grown

(* Several materials, the least that is left first. *)
LEMMA EnsuredAllIs ==
  ASSUME NEW slots, NEW mats \in SUBSET Materials, NEW S, NEW walk \in Seq(S), NEW given,
         NEW r, r = EnsureSlots(slots, mats, walk, given)
  PROVE  Grown(slots, r, mats, walk, given, S)
<1> DEFINE n == Cardinality(mats)
           base == [slots |-> slots, left |-> mats]
           next(v) == [slots |-> EnsureSlot(v.slots, Least(v.left), walk, given),
                       left |-> v.left \ {Least(v.left)}]
           Runs(f, m) == /\ f = [i \in 0..m |-> f[i]]
                         /\ f[0] = base /\ \A i \in 1..m : f[i] = next(f[i - 1])
           T == {m \in 0..n : \E f : Runs(f, m)}
<1>1. IsFiniteSet(mats) /\ n \in Nat
  BY SceneAssumption, FS_Subset, FS_CardinalityType
<1>2. PICK f : Runs(f, n)
  <2> HIDE DEF next, n, base
  <2>1. 0 \in T
    <3> DEFINE g == [i \in 0..0 |-> base]
    <3>1. g = [i \in 0..0 |-> g[i]] /\ g[0] = base /\ \A i \in 1..0 : FALSE
      OBVIOUS
    <3>2. Runs(g, 0)
      BY <3>1
    <3>3. 0 \in 0..n
      BY <1>1
    <3> HIDE DEF Runs
    <3> QED BY <3>2, <3>3
  <2>2. ASSUME NEW m \in 1..n, m - 1 \in T PROVE m \in T
    <3>1. PICK f : Runs(f, m - 1)
      BY <2>2
    <3> DEFINE g == [i \in 0..m |-> IF i = m THEN next(f[m - 1]) ELSE f[i]]
    <3>2. g = [i \in 0..m |-> g[i]] /\ g[0] = base
      BY <3>1, <1>1
    <3>3. ASSUME NEW i \in 1..m PROVE g[i] = next(g[i - 1])
      <4>1. g[i - 1] = f[i - 1] /\ i \in 0..m
        BY <1>1
      <4>2. i # m => i \in 1..(m - 1) /\ g[i] = f[i]
        BY <1>1, <4>1
      <4> QED BY <3>1, <4>1, <4>2
    <3>4. Runs(g, m)
      BY <3>2, <3>3
    <3>5. m \in 0..n
      BY <1>1
    <3> HIDE DEF Runs
    <3> QED BY <3>4, <3>5
  <2> HIDE DEF T
  <2>3. n \in T
    <3>1. \A i \in 0..n : i \in T
      BY <1>1, <2>1, <2>2, UpTo, Zenon
    <3> QED BY <3>1, <1>1
  <2> QED BY <2>3 DEF T
<1> HIDE DEF T
<1>3. r = f[n].slots
  <2> DEFINE run == CHOOSE h : h = [k \in 0..n |-> IF k = 0 THEN base ELSE next(h[k - 1])]
  <2>1. f = [k \in 0..n |-> IF k = 0 THEN base ELSE next(f[k - 1])]
    <3> HIDE DEF n, next, base
    <3>1. \A k \in 0..n : f[k] = IF k = 0 THEN base ELSE next(f[k - 1])
      <4> TAKE k \in 0..n
      <4>1. k # 0 => k \in 1..n
        BY <1>1
      <4> QED BY <1>2, <4>1
    <3>2. f = [k \in 0..n |-> f[k]]
      BY <1>2, Zenon
    <3> QED BY <3>1, <3>2, Zenon
  <2>2. run = [k \in 0..n |-> IF k = 0 THEN base ELSE next(run[k - 1])]
    <3> HIDE DEF n, next, base
    <3> QED BY <2>1, Zenon
  <2>3. r = run[n].slots
    BY Zenon DEF EnsureSlots
  <2> DEFINE U == {m \in 0..n : run[m] = f[m]}
  <2> HIDE DEF run, n, next, base
  <2>4. 0 \in U
    BY <2>1, <2>2, <1>1
  <2>5. ASSUME NEW m \in 1..n, m - 1 \in U PROVE m \in U
    <3>1. m \in 0..n /\ m # 0 /\ run[m - 1] = f[m - 1]
      BY <2>5, <1>1
    <3> QED BY <3>1, <2>1, <2>2
  <2> HIDE DEF U
  <2>6. \A i \in 0..n : i \in U
    BY <1>1, <2>4, <2>5, UpTo, Zenon
  <2>7. n \in 0..n
    BY <1>1
  <2> QED BY <2>3, <2>6, <2>7 DEF U
<1> DEFINE Good(v, m) == /\ v.left \subseteq mats /\ Cardinality(v.left) = n - m
                         /\ Grown(slots, v.slots, mats \ v.left, walk, given, S)
           G == {m \in 0..n : Good(f[m], m)}
<1>4. 0 \in G
  <2>1. f[0] = base /\ mats \ mats = {}
    BY <1>2
  <2>2. Good(f[0], 0)
    BY <2>1, <1>1 DEF Grown
  <2> HIDE DEF Good, Runs
  <2> QED BY <2>2, <1>1
<1>5. ASSUME NEW m \in 1..n, m - 1 \in G PROVE m \in G
  <2> DEFINE v == f[m - 1]
             w == f[m]
             x == Least(v.left)
  <2>1. Good(v, m - 1) /\ w = next(v)
    BY <1>1, <1>2, <1>5
  <2>2. v.left \in SUBSET mats /\ Cardinality(v.left) = n - (m - 1) /\ IsFiniteSet(v.left)
    BY <2>1, <1>1, FS_Subset
  <2>3. v.left # {}
    <3> HIDE DEF n, v
    <3>1. Cardinality(v.left) # 0
      BY <1>1, <2>2
    <3> QED BY <2>2, <3>1, FS_EmptySet
  <2>4. x \in v.left /\ x \in Materials
    <3> HIDE DEF v
    <3>1. v.left \in SUBSET Nat
      BY <2>2, SceneAssumption
    <3>2. PICK k \in v.left : \A j \in v.left : k <= j
      BY <2>3, <3>1, LeastOne
    <3>3. x \in v.left
      BY <3>2 DEF Least
    <3> QED BY <3>3, <2>2
  <2>5. w.slots = EnsureSlot(v.slots, x, walk, given) /\ w.left = v.left \ {x}
    BY <2>1
  <2> HIDE DEF v, w, x, n
  <2>6. Grown(v.slots, w.slots, {x}, walk, given, S)
    BY <2>4, <2>5, EnsuredIs
  <2>7. Grown(slots, w.slots, (mats \ v.left) \cup {x}, walk, given, S)
    BY <2>1, <2>6, GrownTwice
  <2>8. (mats \ v.left) \cup {x} = mats \ w.left
    BY <2>2, <2>4, <2>5
  <2>9. Cardinality(w.left) = n - m
    <3>1. Cardinality(v.left \ {x}) = Cardinality(v.left) - 1
      BY <2>2, <2>4, FS_RemoveElement
    <3> QED BY <3>1, <2>2, <2>5, <1>1
  <2>10. Good(w, m)
    BY <2>2, <2>5, <2>7, <2>8, <2>9
  <2> HIDE DEF Good
  <2> QED BY <2>10, <1>1 DEF w
<1> HIDE DEF G, Runs, n
<1>6. Good(f[n], n)
  <2>1. \A i \in 0..n : i \in G
    BY <1>1, <1>4, <1>5, UpTo, Zenon
  <2>2. n \in 0..n
    BY <1>1
  <2> QED BY <2>1, <2>2 DEF G
<1>7. f[n].left = {}
  <2>1. f[n].left \in SUBSET mats /\ Cardinality(f[n].left) = 0
    BY <1>6, <1>1
  <2> QED BY <2>1, <1>1, FS_Subset, FS_EmptySet
<1>8. mats \ f[n].left = mats
  BY <1>7
<1> QED BY <1>3, <1>6, <1>8

(* Each object's own material and those painted on its mesh. *)
Uses(p, objs) ==
  UNION {{MaterialOf(objs[k])} \cup PaintOf(p, objs[k].mesh) : k \in DOMAIN objs}

LEMMA BoundObjectsAre ==
  ASSUME NEW p, NEW slots, NEW objs, Len(objs) \in Nat, DOMAIN objs = 1..Len(objs),
         \A k \in DOMAIN objs : MaterialOf(objs[k]) \in Materials /\ PaintOf(p, objs[k].mesh) \in SUBSET Materials,
         NEW S, NEW walk \in Seq(S), NEW r, r = BindObjects(p, slots, objs, walk)
  PROVE  Grown(slots, r, Uses(p, objs), walk, << >>, S)
<1> DEFINE n == Len(objs)
           base == slots
           next(v, k) == EnsureSlots(EnsureSlot(v, MaterialOf(objs[k]), walk, << >>),
                                     PaintOf(p, objs[k].mesh), walk, << >>)
           some(m) == UNION {{MaterialOf(objs[k])} \cup PaintOf(p, objs[k].mesh) : k \in 1..m}
           Good(v, m) == Grown(slots, v, some(m), walk, << >>, S)
<1>1. n \in Nat /\ DOMAIN objs = 1..n
  OBVIOUS
<1> DEFINE Runs(f, m) == /\ f = [i \in 0..m |-> f[i]]
                         /\ f[0] = base /\ \A i \in 1..m : f[i] = next(f[i - 1], i)
           T == {m \in 0..n : \E f : Runs(f, m)}
<1>2. PICK f : Runs(f, n)
  <2> HIDE DEF next, n, base
  <2>1. 0 \in T
    <3> DEFINE g == [i \in 0..0 |-> base]
    <3>1. g = [i \in 0..0 |-> g[i]] /\ g[0] = base /\ \A i \in 1..0 : FALSE
      OBVIOUS
    <3>2. Runs(g, 0)
      BY <3>1
    <3>3. 0 \in 0..n
      BY <1>1
    <3> HIDE DEF Runs
    <3> QED BY <3>2, <3>3
  <2>2. ASSUME NEW m \in 1..n, m - 1 \in T PROVE m \in T
    <3>1. PICK f : Runs(f, m - 1)
      BY <2>2
    <3> DEFINE g == [i \in 0..m |-> IF i = m THEN next(f[m - 1], m) ELSE f[i]]
    <3>2. g = [i \in 0..m |-> g[i]] /\ g[0] = base
      BY <3>1, <1>1
    <3>3. ASSUME NEW i \in 1..m PROVE g[i] = next(g[i - 1], i)
      <4>1. g[i - 1] = f[i - 1] /\ i \in 0..m
        BY <1>1
      <4>2. i # m => i \in 1..(m - 1) /\ g[i] = f[i]
        BY <1>1, <4>1
      <4> QED BY <3>1, <4>1, <4>2
    <3>4. Runs(g, m)
      BY <3>2, <3>3
    <3>5. m \in 0..n
      BY <1>1
    <3> HIDE DEF Runs
    <3> QED BY <3>4, <3>5
  <2> HIDE DEF T
  <2>3. n \in T
    <3>1. \A i \in 0..n : i \in T
      BY <1>1, <2>1, <2>2, UpTo, Zenon
    <3> QED BY <3>1, <1>1
  <2> QED BY <2>3 DEF T
<1> HIDE DEF T
<1>3. r = f[n]
  <2> DEFINE run == CHOOSE h : h = [k \in 0..n |-> IF k = 0 THEN base ELSE next(h[k - 1], k)]
  <2>1. f = [k \in 0..n |-> IF k = 0 THEN base ELSE next(f[k - 1], k)]
    <3> HIDE DEF n, next, base
    <3>1. \A k \in 0..n : f[k] = IF k = 0 THEN base ELSE next(f[k - 1], k)
      <4> TAKE k \in 0..n
      <4>1. k # 0 => k \in 1..n
        BY <1>1
      <4> QED BY <1>2, <4>1
    <3>2. f = [k \in 0..n |-> f[k]]
      BY <1>2, Zenon
    <3> QED BY <3>1, <3>2, Zenon
  <2>2. run = [k \in 0..n |-> IF k = 0 THEN base ELSE next(run[k - 1], k)]
    <3> HIDE DEF n, next, base
    <3> QED BY <2>1, Zenon
  <2>3. r = run[n]
    BY Zenon DEF BindObjects
  <2> DEFINE U == {m \in 0..n : run[m] = f[m]}
  <2> HIDE DEF run, n, next, base
  <2>4. 0 \in U
    BY <2>1, <2>2, <1>1
  <2>5. ASSUME NEW m \in 1..n, m - 1 \in U PROVE m \in U
    <3>1. m \in 0..n /\ m # 0 /\ run[m - 1] = f[m - 1]
      BY <2>5, <1>1
    <3> QED BY <3>1, <2>1, <2>2
  <2> HIDE DEF U
  <2>6. \A i \in 0..n : i \in U
    BY <1>1, <2>4, <2>5, UpTo, Zenon
  <2>7. n \in 0..n
    BY <1>1
  <2> QED BY <2>3, <2>6, <2>7 DEF U
<1> DEFINE G == {m \in 0..n : Good(f[m], m)}
<1>4. 0 \in G
  <2>1. f[0] = slots /\ some(0) = {}
    BY <1>2
  <2>2. Good(f[0], 0)
    BY <2>1 DEF Grown
  <2> HIDE DEF Good, Runs
  <2> QED BY <2>2, <1>1
<1>5. ASSUME NEW m \in 1..n, m - 1 \in G PROVE m \in G
  <2> DEFINE v == f[m - 1]
             w == f[m]
             u == EnsureSlot(v, MaterialOf(objs[m]), walk, << >>)
  <2>1. Good(v, m - 1) /\ w = next(v, m)
    BY <1>1, <1>2, <1>5
  <2>2. MaterialOf(objs[m]) \in Materials /\ PaintOf(p, objs[m].mesh) \in SUBSET Materials
    BY <1>1
  <2>3. w = EnsureSlots(u, PaintOf(p, objs[m].mesh), walk, << >>)
    BY <2>1
  <2> HIDE DEF v, w
  <2>4. Grown(v, u, {MaterialOf(objs[m])}, walk, << >>, S)
    BY <2>2, EnsuredIs
  <2> HIDE DEF u
  <2>5. Grown(u, w, PaintOf(p, objs[m].mesh), walk, << >>, S)
    BY <2>2, <2>3, EnsuredAllIs
  <2>6. Grown(v, w, {MaterialOf(objs[m])} \cup PaintOf(p, objs[m].mesh), walk, << >>, S)
    BY <2>4, <2>5, GrownTwice
  <2>7. Grown(slots, w, some(m - 1) \cup ({MaterialOf(objs[m])} \cup PaintOf(p, objs[m].mesh)), walk, << >>, S)
    BY <2>1, <2>6, GrownTwice
  <2>8. some(m) = some(m - 1) \cup ({MaterialOf(objs[m])} \cup PaintOf(p, objs[m].mesh))
    <3>1. \A k : k \in 1..m <=> k \in 1..(m - 1) \/ k = m
      BY <1>1
    <3> QED BY <3>1
  <2> HIDE DEF some
  <2>9. Good(w, m)
    BY <2>7, <2>8
  <2> HIDE DEF Good
  <2> QED BY <2>9, <1>1 DEF w
<1> HIDE DEF G, Runs, n
<1>6. Good(f[n], n)
  <2>1. \A i \in 0..n : i \in G
    BY <1>1, <1>4, <1>5, UpTo, Zenon
  <2>2. n \in 0..n
    BY <1>1
  <2> QED BY <2>1, <2>2 DEF G
<1>7. some(Len(objs)) = Uses(p, objs)
  BY DEF Uses
<1> QED BY <1>3, <1>6, <1>7 DEF n

-----------------------------------------------------------------------------
(* Meshes and objects. *)

MeshShape(g) == {"of", "paint", "sup"} \subseteq DOMAIN g /\ g.paint \subseteq Materials

(* The pool changes under plates that stay as they are. *)
LEMMA PoolChanged ==
  ASSUME NEW p, NEW e, NEW c, NEW l, NEW f \in Nat, DocumentOK(p, e, c, l, f), NEW q, DOMAIN q = DOMAIN p,
         q.plates = p.plates, q.active = p.active, q.lastObject = p.lastObject,
         q.lastMesh \in Nat, q.lastMesh >= p.lastMesh,
         \A m \in DOMAIN q.meshes : m \in 1..q.lastMesh /\ MeshShape(q.meshes[m]),
         \A m \in DOMAIN p.meshes : m \in Referenced(p) =>
             m \in DOMAIN q.meshes /\ q.meshes[m].paint = p.meshes[m].paint,
         NEW l2, \A m \in DOMAIN q.meshes : m \in Referenced(p) \cup l2
  PROVE  DocumentOK(q, e, c, l2, f)
<1>1. DocumentShape(q)
  <2>1. DocumentShape(p)
    BY DEF DocumentOK
  <2> QED BY <2>1 DEF DocumentShape, MeshShape
<1>2. IdsApart(q) /\ GroupsApart(q)
  BY DEF DocumentOK, IdsApart, GroupsApart
<1>3. ASSUME NEW i \in DOMAIN p.plates PROVE PlateOK(q, p.plates[i], e, c, f)
  <2>1. PlateOK(p, p.plates[i], e, c, f) /\ p.lastObject \in Nat
    BY DEF DocumentOK, DocumentShape
  <2>2. \A m \in Names(p.plates[i]) : m \in DOMAIN p.meshes /\ m \in Referenced(p)
    BY <2>1, NamesResolve, ReferencedIs DEF PlateOK
  <2>3. \A m \in Names(p.plates[i]) : m \in DOMAIN q.meshes /\ q.meshes[m].paint = p.meshes[m].paint
    BY <2>2
  <2>4. e \subseteq e /\ (\A x \in c \ c : x # p.plates[i].id) /\ f <= f
        /\ q.lastObject \in Nat /\ q.lastObject >= p.lastObject
    BY <2>1
  <2> HIDE <2>2
  <2> QED BY <2>1, <2>3, <2>4, OthersKept
<1>4. DOMAIN q.meshes \subseteq Referenced(q) \cup l2
  <2>1. \A m : m \in Referenced(p) <=> m \in Referenced(q)
    BY ReferencedIs
  <2> QED BY <2>1
<1> QED BY <1>1, <1>2, <1>3, <1>4 DEF DocumentOK

Meshes(geoms) ==
  /\ Len(geoms) \in Nat /\ DOMAIN geoms = 1..Len(geoms) /\ \A k \in DOMAIN geoms : MeshShape(geoms[k])

NewMeshes(p, n) == (p.lastMesh + 1)..(p.lastMesh + n)

Pooled(p, q, geoms) ==
  /\ DOMAIN q = DOMAIN p /\ q.plates = p.plates /\ q.active = p.active
  /\ q.lastObject = p.lastObject /\ q.lastMesh = p.lastMesh + Len(geoms)
  /\ DOMAIN q.meshes = DOMAIN p.meshes \cup NewMeshes(p, Len(geoms))
  /\ \A m \in DOMAIN p.meshes : q.meshes[m] = p.meshes[m]
  /\ \A k \in DOMAIN geoms : q.meshes[p.lastMesh + k] = geoms[k]

LEMMA MeshesRegistered ==
  ASSUME NEW p, NEW e, NEW c, NEW l, NEW f \in Nat, DocumentOK(p, e, c, l, f),
         NEW geoms, Meshes(geoms), NEW q, q = RegisterMeshes(p, geoms),
         NEW l2, l \subseteq l2, NewMeshes(p, Len(geoms)) \subseteq l2
  PROVE  DocumentOK(q, e, c, l2, f) /\ Pooled(p, q, geoms)
<1> USE DEF NewMeshes
<1> DEFINE new == [m \in (p.lastMesh + 1)..(p.lastMesh + Len(geoms)) |-> geoms[m - p.lastMesh]]
<1>1. /\ DocumentShape(p) /\ p.lastMesh \in Nat /\ \A m \in DOMAIN p.meshes : m \in 1..p.lastMesh
      /\ Len(geoms) \in Nat /\ DOMAIN geoms = 1..Len(geoms) /\ \A k \in DOMAIN geoms : MeshShape(geoms[k])
  BY DEF DocumentOK, DocumentShape, Meshes
<1>2. /\ DOMAIN q = DOMAIN p /\ q.plates = p.plates /\ q.active = p.active
      /\ q.lastObject = p.lastObject /\ q.lastMesh = p.lastMesh + Len(geoms)
      /\ q.meshes = Over(new, p.meshes)
  BY <1>1 DEF RegisterMeshes, DocumentShape
<1>3. DOMAIN q.meshes = DOMAIN p.meshes \cup ((p.lastMesh + 1)..(p.lastMesh + Len(geoms)))
  BY <1>2 DEF Over
<1>4. \A m \in DOMAIN p.meshes : q.meshes[m] = p.meshes[m]
  BY <1>1, <1>2 DEF Over
<1>5. \A k \in DOMAIN geoms : q.meshes[p.lastMesh + k] = geoms[k]
  <2> TAKE k \in DOMAIN geoms
  <2>1. p.lastMesh + k \in (p.lastMesh + 1)..(p.lastMesh + Len(geoms)) /\ (p.lastMesh + k) - p.lastMesh = k
    BY <1>1
  <2> QED BY <2>1, <1>2 DEF Over
<1>6. \A m \in DOMAIN q.meshes : m \in 1..q.lastMesh /\ MeshShape(q.meshes[m])
  <2> TAKE m \in DOMAIN q.meshes
  <2>1. CASE m \in DOMAIN p.meshes
    <3>1. m \in 1..p.lastMesh /\ MeshShape(p.meshes[m])
      BY <2>1, <1>1 DEF MeshShape, DocumentShape
    <3>2. m \in 1..q.lastMesh
      BY <3>1, <1>1, <1>2
    <3> QED BY <2>1, <3>1, <3>2, <1>4
  <2>2. CASE m \notin DOMAIN p.meshes
    <3>1. m \in (p.lastMesh + 1)..(p.lastMesh + Len(geoms))
      BY <2>2, <1>3
    <3>2. m - p.lastMesh \in DOMAIN geoms /\ p.lastMesh + (m - p.lastMesh) = m
      BY <3>1, <1>1
    <3>3. q.meshes[m] = geoms[m - p.lastMesh]
      BY <3>2, <1>5
    <3> QED BY <3>1, <3>2, <3>3, <1>1, <1>2
  <2> QED BY <2>1, <2>2
<1>7. \A m \in DOMAIN q.meshes : m \in Referenced(p) \cup l2
  BY <1>3 DEF DocumentOK
<1>8. q.lastMesh \in Nat /\ q.lastMesh >= p.lastMesh
  BY <1>1, <1>2
<1> HIDE DEF new
<1>9. DocumentOK(q, e, c, l2, f)
  BY <1>2, <1>4, <1>6, <1>7, <1>8, <1>3, PoolChanged
<1> QED BY <1>2, <1>3, <1>4, <1>5, <1>9 DEF Pooled

SlotsOf(inst) == IF inst = Unbound THEN {} ELSE AllSlots[inst]

LEMMA WalkIs ==
  ASSUME NEW inst \in Instances \cup {Unbound}, NEW walk \in Walks(inst)
  PROVE  walk \in Seq(SlotsOf(inst)) /\ (inst # Unbound => walk # << >>)
<1>1. CASE inst = Unbound
  BY <1>1 DEF Walks, SlotsOf
<1>2. CASE inst # Unbound
  BY <1>2, SceneAssumption DEF Walks, SlotsOf
<1> QED BY <1>1, <1>2

LEMMA FitsIs ==
  ASSUME NEW plate, Fits(plate), NEW new, new.printer = plate.printer, NEW mats, NEW given, NEW walk,
         Grown(plate.slots, new.slots, mats, walk, given, SlotsOf(plate.printer)),
         plate.printer # Unbound => \A m \in DOMAIN given : given[m] \in AllSlots[plate.printer]
  PROVE  Fits(new)
BY DEF Fits, Grown, SlotsOf

LEMMA PaintIs ==
  ASSUME NEW p, DocumentShape(p), NEW m
  PROVE  PaintOf(p, m) \in SUBSET Materials
BY DEF DocumentShape, PaintOf

LEMMA MaterialIs ==
  ASSUME NEW o, o.mat \in Materials \cup {NoMaterial}
  PROVE  MaterialOf(o) \in Materials
BY SceneAssumption DEF MaterialOf

LEMMA Joined ==
  ASSUME NEW S, NEW s \in Seq(S), NEW t \in Seq(S)
  PROVE  /\ s \o t \in Seq(S) /\ Len(s \o t) = Len(s) + Len(t) /\ Len(s) \in Nat /\ Len(t) \in Nat
         /\ DOMAIN (s \o t) = 1..(Len(s) + Len(t)) /\ DOMAIN s = 1..Len(s) /\ DOMAIN t = 1..Len(t)
         /\ \A k \in DOMAIN s : (s \o t)[k] = s[k]
         /\ \A k \in DOMAIN t : (s \o t)[Len(s) + k] = t[k]
OBVIOUS

(* new holds what plate holds, which are len, and n more. *)
Extends(new, plate, len, n) ==
  /\ len \in Nat /\ n \in Nat
  /\ DOMAIN plate.objects = 1..len /\ DOMAIN new.objects = 1..(len + n)
  /\ \A k \in DOMAIN plate.objects : new.objects[k] = plate.objects[k]

(* These are objs, numbered after last. *)
Numbered(new, len, n, objs, last) ==
  \A k \in 1..n : /\ new.objects[len + k].id = last + k
                  /\ new.objects[len + k].mesh = objs[k].mesh
                  /\ new.objects[len + k].mat = objs[k].mat
                  /\ new.objects[len + k].group = objs[k].group

(* What registering makes of the plate. *)
Registered(p, objs, walk, q, plate, new) ==
  /\ Changes(p, q, p.active) /\ q.lastObject = p.lastObject + Len(objs)
  /\ DOMAIN new = DOMAIN plate /\ new.id = plate.id /\ new.printer = plate.printer
  /\ new.mods = plate.mods /\ new.over = plate.over /\ new.groups = plate.groups
  /\ new.objects \in Seq(Objects)
  /\ Extends(new, plate, Len(plate.objects), Len(objs))
  /\ Numbered(new, Len(plate.objects), Len(objs), objs, p.lastObject)
  /\ Grown(plate.slots, new.slots, Uses(p, objs), walk, << >>, SlotsOf(plate.printer))

LEMMA RegisteredIs ==
  ASSUME NEW p, DocumentShape(p), NEW objs \in Seq(Objects), NEW walk, walk \in Walks(p.plates[p.active].printer),
         NEW q, q = RegisterObjects(p, objs, walk)
  PROVE  Registered(p, objs, walk, q, p.plates[p.active], q.plates[p.active])
<1> DEFINE plate == p.plates[p.active]
           n == Len(objs)
           added == [k \in DOMAIN objs |-> [objs[k] EXCEPT !.id = p.lastObject + k]]
           slots == BindObjects(p, plate.slots, added, walk)
           new == [plate EXCEPT !.objects = plate.objects \o added, !.slots = slots]
           r == EditPlate(p, p.active, new)
<1>1. p.active \in DOMAIN p.plates /\ PlateShape(plate) /\ p.lastObject \in Nat
  BY DEF DocumentShape
<1>2. q = [r EXCEPT !.lastObject = p.lastObject + n]
  <2>1. r.lastObject = p.lastObject
    BY <1>1, Edited
  <2> QED BY <2>1, Zenon DEF RegisterObjects, EditActive, ActivePlate
<1>3. Changes(p, r, p.active) /\ r.plates[p.active] = new /\ r.lastObject = p.lastObject
  <2>1. r = EditPlate(p, p.active, new)
    OBVIOUS
  <2> HIDE DEF r, new
  <2> QED BY <1>1, <2>1, Edited
<1>4. "lastObject" \in DOMAIN p
  BY DEF DocumentShape
<1>5. n \in Nat /\ DOMAIN objs = 1..n /\ \A k \in 1..n : objs[k] \in Objects
  OBVIOUS
<1>6. q.plates = r.plates /\ q.lastObject = p.lastObject + n /\ Changes(p, q, p.active)
  <2> HIDE DEF r, n
  <2> QED BY <1>1, <1>2, <1>3, <1>4, <1>5 DEF Changes
<1>7. \A k \in 1..n : /\ added[k] \in Objects /\ added[k].id = p.lastObject + k
                      /\ added[k].mesh = objs[k].mesh /\ added[k].mat = objs[k].mat
                      /\ added[k].group = objs[k].group
  <2> TAKE k \in 1..n
  <2>1. objs[k] \in Objects /\ added[k] = [objs[k] EXCEPT !.id = p.lastObject + k]
    BY <1>5
  <2>2. p.lastObject + k \in Nat
    BY <1>1, <1>5
  <2>3. \A x \in Nat : LET v == [objs[k] EXCEPT !.id = x]
             IN v \in Objects /\ v.id = x /\ v.mesh = objs[k].mesh /\ v.mat = objs[k].mat /\ v.group = objs[k].group
    BY <2>1, ObjectEdits, Zenon
  <2> HIDE DEF added, n
  <2> QED BY <2>1, <2>2, <2>3, Zenon
<1>8. added \in Seq(Objects) /\ Len(added) = n
  <2>1. added = [k \in DOMAIN objs |-> added[k]]
    OBVIOUS
  <2> HIDE DEF added
  <2> QED BY <2>1, <1>5, <1>7, Mapped
<1>9. plate.objects \in Seq(Objects)
  BY <1>1 DEF PlateShape
<1>10. /\ DOMAIN new = DOMAIN plate /\ new.id = plate.id /\ new.printer = plate.printer
       /\ new.mods = plate.mods /\ new.over = plate.over /\ new.groups = plate.groups
       /\ new.objects = plate.objects \o added /\ new.slots = slots
  <2> HIDE DEF plate, added, slots
  <2> QED BY <1>1 DEF PlateShape
<1>11. Grown(plate.slots, slots, Uses(p, added), walk, << >>, SlotsOf(plate.printer))
  <2>1. \A k \in DOMAIN added : MaterialOf(added[k]) \in Materials /\ PaintOf(p, added[k].mesh) \in SUBSET Materials
    <3> TAKE k \in DOMAIN added
    <3>1. added[k].mat \in Materials \cup {NoMaterial}
      BY <1>5, <1>7 DEF Objects
    <3> HIDE DEF added
    <3> QED BY <3>1, MaterialIs, PaintIs
  <2>2. walk \in Seq(SlotsOf(plate.printer))
    BY <1>1, WalkIs DEF PlateShape
  <2>3. Len(added) \in Nat /\ DOMAIN added = 1..Len(added)
    BY <1>5, <1>8
  <2> HIDE DEF added
  <2> QED BY <2>1, <2>2, <2>3, BoundObjectsAre
<1>12. Uses(p, added) = Uses(p, objs)
  <2>1. \A k \in DOMAIN objs : MaterialOf(added[k]) = MaterialOf(objs[k]) /\ added[k].mesh = objs[k].mesh
    BY <1>5, <1>7 DEF MaterialOf
  <2>2. DOMAIN added = DOMAIN objs
    OBVIOUS
  <2> HIDE DEF added
  <2> QED BY <2>1, <2>2 DEF Uses
<1> HIDE DEF added, slots, new, r
<1>13. /\ new.objects \in Seq(Objects)
       /\ DOMAIN plate.objects = 1..Len(plate.objects) /\ Len(plate.objects) \in Nat
       /\ DOMAIN new.objects = 1..(Len(plate.objects) + n)
       /\ \A k \in DOMAIN plate.objects : new.objects[k] = plate.objects[k]
       /\ \A k \in 1..n : new.objects[Len(plate.objects) + k] = added[k]
  <2>1. new.objects = plate.objects \o added
    BY <1>10
  <2>2. added \in Seq(Objects) /\ Len(added) = n /\ plate.objects \in Seq(Objects)
    BY <1>8, <1>9
  <2> HIDE DEF plate, n
  <2>3. \A s, t \in Seq(Objects) :
            /\ s \o t \in Seq(Objects) /\ Len(s) \in Nat
            /\ DOMAIN (s \o t) = 1..(Len(s) + Len(t)) /\ DOMAIN s = 1..Len(s) /\ DOMAIN t = 1..Len(t)
            /\ \A k \in DOMAIN s : (s \o t)[k] = s[k]
            /\ \A k \in DOMAIN t : (s \o t)[Len(s) + k] = t[k]
    OBVIOUS
  <2>4. /\ plate.objects \o added \in Seq(Objects) /\ Len(plate.objects) \in Nat
        /\ DOMAIN (plate.objects \o added) = 1..(Len(plate.objects) + Len(added))
        /\ DOMAIN plate.objects = 1..Len(plate.objects) /\ DOMAIN added = 1..Len(added)
        /\ \A k \in DOMAIN plate.objects : (plate.objects \o added)[k] = plate.objects[k]
        /\ \A k \in DOMAIN added : (plate.objects \o added)[Len(plate.objects) + k] = added[k]
    BY <2>2, <2>3, Zenon
  <2> HIDE DEF added
  <2> QED BY <2>1, <2>2, <2>4
<1>14. q.plates[p.active] = new
  BY <1>3, <1>6
<1> HIDE DEF plate, n
<1>15. /\ DOMAIN new = DOMAIN plate /\ new.id = plate.id /\ new.printer = plate.printer
       /\ new.mods = plate.mods /\ new.over = plate.over /\ new.groups = plate.groups
       /\ Grown(plate.slots, new.slots, Uses(p, objs), walk, << >>, SlotsOf(plate.printer))
  BY <1>10, <1>11, <1>12
<1>16. \A k \in 1..n : /\ new.objects[Len(plate.objects) + k].id = p.lastObject + k
                       /\ new.objects[Len(plate.objects) + k].mesh = objs[k].mesh
                       /\ new.objects[Len(plate.objects) + k].mat = objs[k].mat
                       /\ new.objects[Len(plate.objects) + k].group = objs[k].group
  BY <1>7, <1>13
<1>17. Extends(new, plate, Len(plate.objects), Len(objs))
  BY <1>5, <1>13 DEF Extends, n
<1>18. Numbered(new, Len(plate.objects), Len(objs), objs, p.lastObject)
  BY <1>16 DEF Numbered, n
<1> QED BY <1>6, <1>13, <1>14, <1>15, <1>17, <1>18, Zenon DEF plate, n, Registered

LEMMA Shifted ==
  ASSUME NEW last \in Nat, NEW n \in Nat
  PROVE  \A x : x \in (last + 1)..(last + n) <=> \E j \in 1..n : x = last + j
<1>1. ASSUME NEW x \in (last + 1)..(last + n) PROVE \E j \in 1..n : x = last + j
  <2>1. x - last \in 1..n /\ x = last + (x - last)
    OBVIOUS
  <2> QED BY <2>1
<1>2. \A j \in 1..n : last + j \in (last + 1)..(last + n)
  OBVIOUS
<1> QED BY <1>1, <1>2

IdsIn(more) == {o.id : o \in more}
GroupsIn(more) == {o.group : o \in more} \ {NoGroup}
UsesIn(p, more) == UNION {{MaterialOf(o)} \cup PaintOf(p, o.mesh) : o \in more}

Gains(plate, new, more) == ObjectsOn(new) = ObjectsOn(plate) \cup more

LEMMA MoreObjects ==
  ASSUME NEW plate, NEW new, NEW more, Gains(plate, new, more)
  PROVE  /\ IdsOn(new) = IdsOn(plate) \cup IdsIn(more)
         /\ GroupsOn(new) = GroupsOn(plate) \cup GroupsIn(more)
         /\ \A p : MaterialsOn(p, new) = MaterialsOn(p, plate) \cup UsesIn(p, more)
<1>1. IdsOn(new) = IdsOn(plate) \cup IdsIn(more)
  BY DEF IdsOn, IdsIn, Gains
<1>2. \A x : GroupsOn(x) = {o.group : o \in ObjectsOn(x)} \ {NoGroup}
  BY DEF GroupsOn, GroupsOf, IdsOn
<1>3. GroupsOn(new) = GroupsOn(plate) \cup GroupsIn(more)
  BY <1>2 DEF GroupsIn, Gains
<1>4. \A p : MaterialsOn(p, new) = MaterialsOn(p, plate) \cup UsesIn(p, more)
  BY DEF MaterialsOn, UsesIn, Gains
<1> QED BY <1>1, <1>3, <1>4

From(objects, len, n) == {objects[len + j] : j \in 1..n}

LEMMA JoinedObjects ==
  ASSUME NEW plate, NEW new, NEW len, NEW n, Extends(new, plate, len, n)
  PROVE  /\ \A k : k \in DOMAIN new.objects <=> k \in DOMAIN plate.objects \/ \E j \in 1..n : k = len + j
         /\ Gains(plate, new, From(new.objects, len, n))
<1> USE DEF Extends
<1>1. \A k : k \in DOMAIN new.objects <=> k \in DOMAIN plate.objects \/ \E j \in 1..n : k = len + j
  <2>1. \A k : k \in (len + 1)..(len + n) <=> \E j \in 1..n : k = len + j
    BY Shifted
  <2>2. \A k : k \in 1..(len + n) <=> k \in 1..len \/ k \in (len + 1)..(len + n)
    OBVIOUS
  <2> QED BY <2>1, <2>2
<1>2. \A ob : ob \in ObjectsOn(new) <=> \E k \in DOMAIN new.objects : ob = new.objects[k]
  BY OnPlate
<1>3. \A ob : ob \in ObjectsOn(plate) <=> \E k \in DOMAIN plate.objects : ob = plate.objects[k]
  BY OnPlate
<1>4. \A ob : ob \in ObjectsOn(new) <=> ob \in ObjectsOn(plate) \/ \E j \in 1..n : ob = new.objects[len + j]
  <2>1. ASSUME NEW ob \in ObjectsOn(new)
        PROVE  ob \in ObjectsOn(plate) \/ \E j \in 1..n : ob = new.objects[len + j]
    <3>1. PICK k \in DOMAIN new.objects : ob = new.objects[k]
      BY <1>2
    <3>2. k \in DOMAIN plate.objects => ob = plate.objects[k]
      BY <3>1
    <3> QED BY <1>1, <1>3, <3>1, <3>2, Zenon
  <2>2. ASSUME NEW ob \in ObjectsOn(plate) PROVE ob \in ObjectsOn(new)
    <3>1. PICK k \in DOMAIN plate.objects : ob = plate.objects[k]
      BY <1>3
    <3> QED BY <1>1, <1>2, <3>1
  <2>3. ASSUME NEW j \in 1..n PROVE new.objects[len + j] \in ObjectsOn(new)
    BY <1>1, <1>2
  <2> QED BY <2>1, <2>2, <2>3, Zenon
<1>5. Gains(plate, new, From(new.objects, len, n))
  BY ONLY <1>4 DEF From, Gains
<1> QED BY <1>1, <1>5

HoldsMore(plate, new, len, n, last, objs) ==
  /\ \A k : k \in DOMAIN new.objects <=> k \in DOMAIN plate.objects \/ \E j \in 1..n : k = len + j
  /\ IdsOn(new) = IdsOn(plate) \cup ((last + 1)..(last + n))
  /\ \A g : g \in GroupsOn(new) <=> g \in GroupsOn(plate) \/ (g # NoGroup /\ \E k \in 1..n : g = objs[k].group)
  /\ \A p : MaterialsOn(p, new) = MaterialsOn(p, plate) \cup Uses(p, objs)

(* What is on the plate then. *)
LEMMA RegisteredObjectsAre ==
  ASSUME NEW plate, NEW new, NEW len \in Nat, NEW n \in Nat, NEW last \in Nat, NEW objs, DOMAIN objs = 1..n,
         Extends(new, plate, len, n), Numbered(new, len, n, objs, last)
  PROVE  HoldsMore(plate, new, len, n, last, objs)
<1> DEFINE more == From(new.objects, len, n)
<1>1. /\ \A k : k \in DOMAIN new.objects <=> k \in DOMAIN plate.objects \/ \E j \in 1..n : k = len + j
      /\ Gains(plate, new, more)
  BY JoinedObjects, Zenon
<1>2. \A j \in 1..n : /\ new.objects[len + j].id = last + j /\ new.objects[len + j].mesh = objs[j].mesh
                      /\ MaterialOf(new.objects[len + j]) = MaterialOf(objs[j])
                      /\ new.objects[len + j].group = objs[j].group
  BY DEF MaterialOf, Numbered
<1>3. IdsIn(more) = (last + 1)..(last + n)
  <2>1. \A x : x \in IdsIn(more) <=> \E j \in 1..n : x = last + j
    BY ONLY <1>2 DEF IdsIn, From
  <2>2. \A x : x \in (last + 1)..(last + n) <=> \E j \in 1..n : x = last + j
    BY Shifted
  <2> HIDE DEF more
  <2> QED BY ONLY <2>1, <2>2
<1>4. \A g : g \in GroupsIn(more) <=> g # NoGroup /\ \E k \in 1..n : g = objs[k].group
  BY ONLY <1>2 DEF GroupsIn, From
<1>5. \A p : UsesIn(p, more) = Uses(p, objs)
  <2> TAKE p
  <2>1. \A m : m \in UsesIn(p, more) <=>
               \E j \in 1..n : m \in {MaterialOf(new.objects[len + j])} \cup PaintOf(p, new.objects[len + j].mesh)
    BY ONLY TRUE DEF UsesIn, From
  <2>2. \A m : m \in Uses(p, objs) <=> \E j \in 1..n : m \in {MaterialOf(objs[j])} \cup PaintOf(p, objs[j].mesh)
    BY ONLY DOMAIN objs = 1..n DEF Uses
  <2> HIDE DEF more
  <2>3. \A m : m \in UsesIn(p, more) <=> m \in Uses(p, objs)
    BY ONLY <2>1, <2>2, <1>2
  <2> QED BY ONLY <2>3
<1> HIDE DEF more
<1>6. /\ IdsOn(new) = IdsOn(plate) \cup IdsIn(more)
      /\ GroupsOn(new) = GroupsOn(plate) \cup GroupsIn(more)
      /\ \A p : MaterialsOn(p, new) = MaterialsOn(p, plate) \cup UsesIn(p, more)
  BY ONLY <1>1, MoreObjects
<1> QED BY ONLY <1>1, <1>3, <1>4, <1>5, <1>6 DEF HoldsMore

(* The uses of a plate are bound still when what is added is. *)
LEMMA GrownUse ==
  ASSUME NEW p, NEW q, NEW plate, NEW new, NEW e, UseIsBound(p, plate, e),
         new.id = plate.id, new.printer = plate.printer,
         NEW more, MaterialsOn(q, new) = MaterialsOn(p, plate) \cup more,
         NEW walk, Bound(plate) => walk # << >>,
         NEW given, NEW S, Grown(plate.slots, new.slots, more, walk, given, S)
  PROVE  UseIsBound(q, new, e)
<1>1. Bound(new) <=> Bound(plate)
  BY DEF Bound
<1> SUFFICES ASSUME Bound(new) PROVE UseIsBound(q, new, e)
  BY DEF UseIsBound
<1> DEFINE excuse == {m \in Materials : <<plate.id, m>> \in e}
<1>2. MaterialsOn(p, plate) \subseteq DOMAIN plate.slots \cup excuse
      /\ DOMAIN plate.slots \subseteq MaterialsOn(p, plate) \cup excuse
  BY <1>1 DEF UseIsBound
<1>3. DOMAIN plate.slots \subseteq DOMAIN new.slots /\ DOMAIN new.slots \subseteq DOMAIN plate.slots \cup more
      /\ more \subseteq DOMAIN new.slots
  BY <1>1 DEF Grown
<1> HIDE DEF excuse
<1>4. MaterialsOn(q, new) \subseteq DOMAIN new.slots \cup excuse
      /\ DOMAIN new.slots \subseteq MaterialsOn(q, new) \cup excuse
  BY <1>2, <1>3
<1> QED BY <1>4 DEF UseIsBound, excuse

(* Their meshes are in the pool, their groups on no other plate. *)
InPool(p, objs) == \A k \in DOMAIN objs : objs[k].mesh \in DOMAIN p.meshes

Free(p, objs, f) ==
  \A k \in DOMAIN objs :
     /\ objs[k].group <= f
     /\ objs[k].group # NoGroup => \A j \in DOMAIN p.plates :
           j # p.active => objs[k].group \notin GroupsOn(p.plates[j])

UsesUp(l, l2, objs) == \A m \in l : m \in l2 \/ \E k \in DOMAIN objs : m = objs[k].mesh

(* Objects are added to the active plate, their meshes being in the pool. *)
LEMMA ObjectsRegistered ==
  ASSUME NEW p, NEW e, NEW c, NEW l, NEW f \in Nat, DocumentOK(p, e, c, l, f),
         NEW objs \in Seq(Objects), NEW walk, walk \in Walks(p.plates[p.active].printer),
         InPool(p, objs), NEW f2 \in Nat, f <= f2, Free(p, objs, f2),
         NEW q, q = RegisterObjects(p, objs, walk), NEW l2, UsesUp(l, l2, objs)
  PROVE  /\ DocumentOK(q, e, c, l2, f2)
         /\ Changes(p, q, p.active) /\ q.lastObject = p.lastObject + Len(objs)
         /\ q.plates[p.active].id = p.plates[p.active].id
         /\ q.plates[p.active].printer = p.plates[p.active].printer
         /\ DOMAIN q.plates[p.active] = DOMAIN p.plates[p.active]
         /\ q.plates[p.active].mods = p.plates[p.active].mods
         /\ q.plates[p.active].over = p.plates[p.active].over
         /\ q.plates[p.active].groups = p.plates[p.active].groups
         /\ IdsOn(q.plates[p.active]) = IdsOn(p.plates[p.active]) \cup ((p.lastObject + 1)..q.lastObject)
<1> USE DEF InPool, Free, UsesUp
<1> DEFINE a == p.active
           plate == p.plates[a]
           new == q.plates[a]
           n == Len(objs)
           len == Len(plate.objects)
<1>0. Registered(p, objs, walk, q, plate, new)
  <2>1. DocumentShape(p)
    BY DEF DocumentOK
  <2> QED BY <2>1, RegisteredIs
<1>4. Extends(new, plate, len, n) /\ Numbered(new, len, n, objs, p.lastObject)
  BY <1>0, Zenon DEF Registered
<1>1. /\ Changes(p, q, a) /\ q.lastObject = p.lastObject + n
      /\ DOMAIN new = DOMAIN plate /\ new.id = plate.id /\ new.printer = plate.printer
      /\ new.mods = plate.mods /\ new.over = plate.over /\ new.groups = plate.groups
      /\ new.objects \in Seq(Objects)
      /\ DOMAIN plate.objects = 1..len /\ len \in Nat /\ n \in Nat
      /\ DOMAIN new.objects = 1..(len + n)
      /\ \A k \in DOMAIN plate.objects : new.objects[k] = plate.objects[k]
      /\ Grown(plate.slots, new.slots, Uses(p, objs), walk, << >>, SlotsOf(plate.printer))
  BY <1>0, Zenon DEF Registered, Extends
<1>2. a \in DOMAIN p.plates /\ PlateOK(p, plate, e, c, f) /\ p.lastObject \in Nat /\ q.lastObject \in Nat
  BY <1>1 DEF DocumentOK, DocumentShape, Changes
<1>3. DOMAIN objs = 1..n /\ \A k \in 1..n : objs[k] \in Objects
  OBVIOUS
<1>5. \A k \in 1..n : /\ new.objects[len + k].id = p.lastObject + k
                      /\ new.objects[len + k].mesh = objs[k].mesh
                      /\ new.objects[len + k].mat = objs[k].mat
                      /\ new.objects[len + k].group = objs[k].group
  BY ONLY <1>4, Zenon DEF Numbered
<1> HIDE DEF a, plate, new, n, len
<1>6. /\ \A k : k \in DOMAIN new.objects <=> k \in DOMAIN plate.objects \/ \E j \in 1..n : k = len + j
      /\ IdsOn(new) = IdsOn(plate) \cup ((p.lastObject + 1)..(p.lastObject + n))
      /\ \A g : g \in GroupsOn(new) <=> g \in GroupsOn(plate) \/ (g # NoGroup /\ \E k \in 1..n : g = objs[k].group)
      /\ \A r : MaterialsOn(r, new) = MaterialsOn(r, plate) \cup Uses(r, objs)
  <2>1. len \in Nat /\ n \in Nat /\ p.lastObject \in Nat /\ DOMAIN objs = 1..n
    BY <1>1, <1>2, <1>3
  <2>2. HoldsMore(plate, new, len, n, p.lastObject, objs)
    BY ONLY <1>4, <2>1, RegisteredObjectsAre
  <2> QED BY ONLY <2>2 DEF HoldsMore
<1>7. IdsOn(plate) \subseteq 1..p.lastObject
  BY <1>2, OnPlate DEF PlateOK, Resolves
<1>8. p.meshes = q.meshes /\ p.lastMesh = q.lastMesh
  BY <1>1, Zenon DEF Changes
<1>9. PlateShape(new)
  <2>1. PlateShape(plate)
    BY <1>2 DEF PlateOK, PlateShape, plate, a
  <2>2. Uses(p, objs) \subseteq Materials
    <3>1. ASSUME NEW k \in 1..n PROVE {MaterialOf(objs[k])} \cup PaintOf(p, objs[k].mesh) \subseteq Materials
      <4>1. DocumentShape(p) /\ objs[k].mat \in Materials \cup {NoMaterial}
        BY <1>3 DEF DocumentOK, Objects
      <4> QED BY <4>1, MaterialIs, PaintIs
    <3> QED BY <3>1, <1>3 DEF Uses
  <2>3. DOMAIN new.slots \subseteq Materials
    BY <1>1, <2>1, <2>2 DEF Grown, PlateShape
  <2> QED BY <1>1, <2>1, <2>3 DEF PlateShape
<1>10. Resolves(q, new)
  <2> DEFINE In(k, j) == j \in 1..n /\ k = len + j
  <2>1. \A k \in DOMAIN plate.objects : new.objects[k] = plate.objects[k]
    BY <1>1
  <2>2. \A k \in DOMAIN plate.objects : plate.objects[k].id \in 1..p.lastObject /\ plate.objects[k].mesh \in DOMAIN p.meshes
    BY <1>2 DEF PlateOK, Resolves
  <2>3. \A k \in DOMAIN new.objects : new.objects[k].id \in 1..q.lastObject /\ new.objects[k].mesh \in DOMAIN q.meshes
    <3> TAKE k \in DOMAIN new.objects
    <3>1. CASE k \in DOMAIN plate.objects
      <4>1. new.objects[k].id \in 1..p.lastObject /\ new.objects[k].mesh \in DOMAIN p.meshes
        BY <3>1, <2>1, <2>2
      <4> QED BY <4>1, <1>1, <1>2, <1>8
    <3>2. CASE \E j \in 1..n : k = len + j
      <4>1. PICK j \in 1..n : k = len + j
        BY <3>2
      <4>2. new.objects[k].id = p.lastObject + j /\ new.objects[k].mesh = objs[j].mesh
        BY <4>1, <1>5
      <4>3. objs[j].mesh \in DOMAIN p.meshes
        BY <1>3
      <4>4. p.lastObject + j \in 1..q.lastObject
        BY <1>1, <1>2
      <4> QED BY <4>2, <4>3, <4>4, <1>8
    <3> QED BY <3>1, <3>2, <1>6
  <2>4. \A j, k \in DOMAIN new.objects : new.objects[j].id = new.objects[k].id => j = k
    <3> TAKE j, k \in DOMAIN new.objects
    <3>1. \A x \in DOMAIN plate.objects : \A y \in 1..n : new.objects[x].id # new.objects[len + y].id
      <4> TAKE x \in DOMAIN plate.objects
      <4> TAKE y \in 1..n
      <4>1. new.objects[x].id \in 1..p.lastObject
        BY <2>1, <2>2
      <4>2. new.objects[len + y].id = p.lastObject + y
        BY <1>5
      <4>3. y \in Nat /\ y > 0
        BY <1>1
      <4> QED BY ONLY <4>1, <4>2, <4>3, <1>2
    <3>2. \A x, y \in 1..n : new.objects[len + x].id = new.objects[len + y].id => x = y
      <4> TAKE x, y \in 1..n
      <4>1. new.objects[len + x].id = p.lastObject + x /\ new.objects[len + y].id = p.lastObject + y
        BY <1>5
      <4>2. x \in Nat /\ y \in Nat
        BY <1>1
      <4> QED BY ONLY <4>1, <4>2, <1>2
    <3>3. \A x, y \in DOMAIN plate.objects : new.objects[x].id = new.objects[y].id => x = y
      BY <2>1, <1>2 DEF PlateOK, Resolves
    <3>4. /\ j \in DOMAIN plate.objects \/ \E x \in 1..n : j = len + x
          /\ k \in DOMAIN plate.objects \/ \E x \in 1..n : k = len + x
      BY <1>6
    <3> QED BY ONLY <3>1, <3>2, <3>3, <3>4
  <2>5. DOMAIN new.mods \subseteq IdsOn(new)
    BY <1>1, <1>2, <1>6 DEF PlateOK, Resolves
  <2>6. \A x \in DOMAIN new.mods : new.mods[x] \subseteq DOMAIN q.meshes
    BY <1>1, <1>2, <1>8 DEF PlateOK, Resolves
  <2> QED BY ONLY <2>3, <2>4, <2>5, <2>6 DEF Resolves
<1>11. UseIsBound(q, new, e)
  <2>1. MaterialsOn(q, new) = MaterialsOn(p, new)
    BY <1>8 DEF MaterialsOn, PaintOf
  <2>2. MaterialsOn(q, new) = MaterialsOn(p, plate) \cup Uses(p, objs)
    BY <2>1, <1>6
  <2>3. UseIsBound(p, plate, e) /\ (Bound(plate) => walk # << >>)
    BY <1>2, WalkIs DEF PlateOK, PlateShape, Bound, plate, a
  <2>4. Grown(plate.slots, new.slots, Uses(p, objs), walk, << >>, SlotsOf(plate.printer))
    BY <1>1
  <2>5. new.id = plate.id /\ new.printer = plate.printer
    BY <1>1
  <2> QED BY <2>2, <2>3, <2>4, <2>5, GrownUse
<1>12. new.id \notin c => Fits(new)
  <2>1. new.id \notin c => Fits(plate)
    BY <1>1, <1>2 DEF PlateOK
  <2>2. new.printer = plate.printer
    BY <1>1
  <2>3. Grown(plate.slots, new.slots, Uses(p, objs), walk, << >>, SlotsOf(plate.printer))
    BY <1>1
  <2>4. plate.printer # Unbound => \A m \in DOMAIN << >> : << >>[m] \in AllSlots[plate.printer]
    OBVIOUS
  <2> QED BY <2>1, <2>2, <2>3, <2>4, FitsIs
<1>13. GroupsOn(new) \subseteq 1..f2
  <2>1. GroupsOn(plate) \subseteq 1..f
    BY <1>2 DEF PlateOK
  <2>2. \A k \in 1..n : objs[k].group \in Nat /\ objs[k].group <= f2
    BY <1>3 DEF Objects
  <2>3. \A g \in GroupsOn(new) : g \in 1..f2
    <3> TAKE g \in GroupsOn(new)
    <3>1. g \in 1..f \/ (g # NoGroup /\ \E k \in 1..n : g = objs[k].group)
      BY <1>6, <2>1
    <3> QED BY <3>1, <2>2 DEF NoGroup
  <2> QED BY <2>3
<1>14. PlateOK(q, new, e, c, f2)
  BY <1>9, <1>10, <1>11, <1>12, <1>13 DEF PlateOK
<1>15. \A j \in DOMAIN p.plates : j # a =>
          /\ IdsOn(new) \cap IdsOn(p.plates[j]) = {}
          /\ GroupsOn(new) \cap GroupsOn(p.plates[j]) = {}
  <2> SUFFICES ASSUME NEW j \in DOMAIN p.plates, j # a
               PROVE  IdsOn(new) \cap IdsOn(p.plates[j]) = {} /\ GroupsOn(new) \cap GroupsOn(p.plates[j]) = {}
    OBVIOUS
  <2>1. IdsOn(plate) \cap IdsOn(p.plates[j]) = {} /\ GroupsOn(plate) \cap GroupsOn(p.plates[j]) = {}
    BY <1>2 DEF DocumentOK, IdsApart, GroupsApart, plate
  <2>2. IdsOn(p.plates[j]) \subseteq 1..p.lastObject
    BY OnPlate DEF DocumentOK, PlateOK, Resolves
  <2>3. ((p.lastObject + 1)..(p.lastObject + n)) \cap (1..p.lastObject) = {}
    BY <1>1, <1>2
  <2>4. \A k \in 1..n : objs[k].group # NoGroup => objs[k].group \notin GroupsOn(p.plates[j])
    BY <1>3 DEF a
  <2>5. IdsOn(new) \cap IdsOn(p.plates[j]) = {}
    BY ONLY <2>1, <2>2, <2>3, <1>6
  <2>6. GroupsOn(new) \cap GroupsOn(p.plates[j]) = {}
    BY ONLY <2>1, <2>4, <1>6
  <2> QED BY <2>5, <2>6
<1>16. Names(plate) \subseteq Names(new)
  <2>1. ASSUME NEW k \in DOMAIN plate.objects PROVE plate.objects[k].mesh \in Names(new)
    <3>1. k \in DOMAIN new.objects /\ new.objects[k] = plate.objects[k]
      BY <1>1, <1>6
    <3> QED BY <3>1, NamesIs
  <2>2. new.mods = plate.mods
    BY <1>1
  <2> QED BY ONLY <2>1, <2>2, NamesIs
<1>17. DocumentOK(q, e, c, l, f2)
  <2>1. Allowing(e, c, l, f, e, c, l, f2, new.id) /\ Apart(p, a, new) /\ StillNamed(plate, new, l)
    BY <1>15, <1>16 DEF Allowing, Apart, StillNamed
  <2>2. a \in DOMAIN p.plates /\ new.id = plate.id /\ Changes(p, q, a)
    BY <1>1, <1>2
  <2> QED BY <2>1, <2>2, <1>14, ChangeKeeps, Zenon DEF new, plate
<1>18. DOMAIN q.meshes \subseteq Referenced(q) \cup l2
  <2> SUFFICES ASSUME NEW m \in DOMAIN q.meshes, m \notin l2 PROVE m \in Referenced(q)
    OBVIOUS
  <2>1. m \in Referenced(q) \/ m \in l
    BY <1>17 DEF DocumentOK
  <2>2. CASE m \in l
    <3>1. PICK k \in 1..n : m = objs[k].mesh
      BY <2>2, <1>3
    <3>2. len + k \in DOMAIN new.objects /\ new.objects[len + k].mesh = m
      BY <3>1, <1>5, <1>6
    <3>3. m \in Names(new)
      BY <3>2, NamesIs
    <3>4. a \in DOMAIN q.plates
      BY <1>1, <1>2, Zenon DEF Changes
    <3> QED BY <3>3, <3>4, ReferencedIs DEF new
  <2> QED BY <2>1, <2>2
<1>19. DocumentOK(q, e, c, l2, f2)
  BY <1>17, <1>18 DEF DocumentOK
<1> QED BY <1>1, <1>6, <1>19, Zenon DEF a, plate, new, n

-----------------------------------------------------------------------------
(* Sessions. *)

PlateIdsOf(p) == {p.plates[i].id : i \in DOMAIN p.plates}

SelectionOK(p, sel) ==
  /\ DOMAIN sel = PlateIdsOf(p) /\ sel = [x \in DOMAIN sel |-> sel[x]]
  /\ \A i \in DOMAIN p.plates : sel[p.plates[i].id] \subseteq IdsOn(p.plates[i])

SessionOK(s, e, c, l) ==
  /\ DOMAIN s = {"project", "selection", "cache", "fresh"}
  /\ s.fresh \in Nat
  /\ DocumentOK(s.project, e, c, l, s.fresh)
  /\ SelectionOK(s.project, s.selection)

(* No mesh id stands for another geometry than before. *)
PoolStep(p, q) ==
  /\ q.lastMesh >= p.lastMesh
  /\ \A m \in DOMAIN q.meshes :
       \/ m \in DOMAIN p.meshes /\ q.meshes[m].of = p.meshes[m].of
       \/ m > p.lastMesh

CacheOK(s) ==
  \A k \in DOMAIN s.cache : /\ s.cache[k] \in DOMAIN s.project.meshes
                            /\ s.project.meshes[s.cache[k]].of = k

(* What any command makes of a session. *)
Result(s, t, e, c, l) ==
  /\ SessionOK(t, e, c, l)
  /\ t.fresh >= s.fresh
  /\ PoolStep(s.project, t.project)
  /\ CacheOK(s) => CacheOK(t)

LEMMA PoolStays ==
  ASSUME NEW p, DocumentShape(p), NEW q, q.meshes = p.meshes, q.lastMesh = p.lastMesh
  PROVE  PoolStep(p, q)
BY DEF DocumentShape, PoolStep

LEMMA ResultTwice ==
  ASSUME NEW s, NEW t, NEW u, NEW e, NEW c, NEW l, NEW e2, NEW c2, NEW l2, NEW e3, NEW c3, NEW l3,
         SessionOK(s, e, c, l), Result(s, t, e2, c2, l2), Result(t, u, e3, c3, l3)
  PROVE  Result(s, u, e3, c3, l3)
<1>1. s.fresh \in Nat /\ t.fresh \in Nat /\ u.fresh \in Nat
      /\ s.project.lastMesh \in Nat /\ t.project.lastMesh \in Nat /\ u.project.lastMesh \in Nat
  BY DEF SessionOK, Result, DocumentOK, DocumentShape
<1>2. u.fresh >= s.fresh
  BY <1>1 DEF Result
<1>3. PoolStep(s.project, t.project) /\ PoolStep(t.project, u.project)
  BY DEF Result
<1>4. \A m \in DOMAIN u.project.meshes : m \in Nat
  BY DEF Result, SessionOK, DocumentOK, DocumentShape
<1>5. PoolStep(s.project, u.project)
  BY <1>1, <1>3, <1>4 DEF PoolStep
<1> QED BY <1>2, <1>5 DEF Result

LEMMA SelectionKept ==
  ASSUME NEW p, NEW sel, SelectionOK(p, sel), NEW q, DOMAIN q.plates = DOMAIN p.plates,
         \A i \in DOMAIN p.plates : q.plates[i].id = p.plates[i].id /\ IdsOn(p.plates[i]) \subseteq IdsOn(q.plates[i])
  PROVE  SelectionOK(q, sel)
<1>1. PlateIdsOf(q) = PlateIdsOf(p)
  BY DEF PlateIdsOf
<1> QED BY <1>1 DEF SelectionOK

(* A command changes one plate, and loses nothing on it. *)
Edits(s, t, i) ==
  /\ DOMAIN t = DOMAIN s /\ t.cache = s.cache /\ t.selection = s.selection
  /\ t.fresh \in Nat /\ t.fresh >= s.fresh
  /\ i \in DOMAIN s.project.plates /\ Changes(s.project, t.project, i)
  /\ t.project.plates[i].id = s.project.plates[i].id
  /\ IdsOn(s.project.plates[i]) \subseteq IdsOn(t.project.plates[i])

LEMMA EditKeeps ==
  ASSUME NEW s, NEW e, NEW c, NEW l, SessionOK(s, e, c, l),
         NEW t, NEW i, Edits(s, t, i), NEW e2, NEW c2, NEW l2, DocumentOK(t.project, e2, c2, l2, t.fresh)
  PROVE  Result(s, t, e2, c2, l2)
<1>1. DocumentShape(s.project) /\ t.project.meshes = s.project.meshes /\ t.project.lastMesh = s.project.lastMesh
      /\ t.cache = s.cache
  BY DEF SessionOK, DocumentOK, Edits, Changes
<1>2. PoolStep(s.project, t.project)
  BY <1>1, PoolStays
<1>3. CacheOK(s) => CacheOK(t)
  BY <1>1 DEF CacheOK
<1>4. SelectionOK(t.project, t.selection)
  <2>1. SelectionOK(s.project, s.selection) /\ t.selection = s.selection
        /\ DOMAIN t.project.plates = DOMAIN s.project.plates
    BY DEF SessionOK, Edits, Changes
  <2>2. \A k \in DOMAIN s.project.plates :
           /\ t.project.plates[k].id = s.project.plates[k].id
           /\ IdsOn(s.project.plates[k]) \subseteq IdsOn(t.project.plates[k])
    BY DEF Edits, Changes
  <2> QED BY <2>1, <2>2, SelectionKept
<1> QED BY <1>2, <1>3, <1>4 DEF Result, SessionOK, Edits

(* Only the plate's objects are relabelled. *)
LEMMA RelabelKeeps ==
  ASSUME NEW s, NEW e, NEW c, NEW l, SessionOK(s, e, c, l), NEW i \in DOMAIN s.project.plates,
         NEW t, DOMAIN t = DOMAIN s, t.cache = s.cache, t.selection = s.selection,
         t.fresh \in Nat, t.fresh >= s.fresh, Changes(s.project, t.project, i),
         Like(s.project.plates[i], t.project.plates[i]),
         \A g \in GroupsOn(t.project.plates[i]) :
             g \in GroupsOn(s.project.plates[i]) \/ g \in (s.fresh + 1)..t.fresh
  PROVE  Result(s, t, e, c, l)
<1>1. DocumentOK(s.project, e, c, l, s.fresh) /\ s.fresh \in Nat /\ s.fresh <= t.fresh
  BY DEF SessionOK
<1>2. DocumentOK(t.project, e, c, l, t.fresh)
  BY <1>1, Relabelled
<1>3. IdsOn(t.project.plates[i]) = IdsOn(s.project.plates[i])
  BY LikeIs
<1>4. t.project.plates[i].id = s.project.plates[i].id
  BY DEF Like
<1>5. Edits(s, t, i)
  BY <1>3, <1>4 DEF Edits
<1> QED BY <1>2, <1>5, EditKeeps

LEMMA ProjectSet ==
  ASSUME NEW s, NEW e, NEW c, NEW l, SessionOK(s, e, c, l), NEW p, NEW t, t = [s EXCEPT !.project = p]
  PROVE  /\ DOMAIN t = DOMAIN s /\ t.project = p /\ t.cache = s.cache /\ t.selection = s.selection
         /\ t.fresh = s.fresh /\ t.fresh \in Nat /\ t.fresh >= s.fresh
BY DEF SessionOK

LEMMA Active ==
  ASSUME NEW s, NEW e, NEW c, NEW l, SessionOK(s, e, c, l)
  PROVE  /\ DocumentShape(s.project) /\ s.project.active \in DOMAIN s.project.plates
         /\ \A i \in DOMAIN s.project.plates : PlateShape(s.project.plates[i])
                                              /\ Resolves(s.project, s.project.plates[i])
         /\ ActivePlate(s.project) = s.project.plates[s.project.active]
         /\ \A plate : EditActive(s.project, plate) = EditPlate(s.project, s.project.active, plate)
BY DEF SessionOK, DocumentOK, DocumentShape, PlateOK, ActivePlate, EditActive

LEMMA PoseKeeps ==
  ASSUME NEW s, NEW e, NEW c, NEW l, SessionOK(s, e, c, l), NEW ids,
         NEW t, t = [s EXCEPT !.project = Pose(s.project, ids)]
  PROVE  Result(s, t, e, c, l)
<1> DEFINE p == s.project
           a == p.active
           q == Pose(p, ids)
<1>1. DocumentShape(p) /\ a \in DOMAIN p.plates
  BY Active
<1>2. t.project = q /\ DOMAIN t = DOMAIN s /\ t.cache = s.cache /\ t.selection = s.selection
      /\ t.fresh \in Nat /\ t.fresh >= s.fresh
  BY ProjectSet
<1> HIDE DEF p, q
<1>3. Changes(p, q, a) /\ Like(p.plates[a], q.plates[a])
      /\ \A k \in DOMAIN p.plates[a].objects : q.plates[a].objects[k].group = p.plates[a].objects[k].group
  BY <1>1, PosedIs DEF q
<1>4. \A g \in GroupsOn(q.plates[a]) : g \in GroupsOn(p.plates[a])
  BY <1>3, OnPlate DEF Like
<1> QED BY <1>1, <1>2, <1>3, <1>4, RelabelKeeps DEF p

LEMMA ShapeObjects ==
  ASSUME NEW plate, PlateShape(plate)
  PROVE  plate.objects \in Seq(Objects) /\ \A k \in DOMAIN plate.objects : plate.objects[k] \in Objects
BY DEF PlateShape

(* An object with another group. *)
Regrouped(o, n) == n = o \/ \E g \in Nat : n = [o EXCEPT !.group = g]

LEMMA RegroupedIs ==
  ASSUME NEW plate, PlateShape(plate), NEW new, DOMAIN new = DOMAIN plate,
         new.id = plate.id, new.printer = plate.printer, new.mods = plate.mods, new.slots = plate.slots,
         new.objects = [k \in DOMAIN plate.objects |-> new.objects[k]],
         \A k \in DOMAIN plate.objects : Regrouped(plate.objects[k], new.objects[k])
  PROVE  Like(plate, new)
<1>1. plate.objects \in Seq(Objects) /\ \A k \in DOMAIN plate.objects : plate.objects[k] \in Objects
  BY ShapeObjects
<1>2. \A k \in DOMAIN plate.objects :
        /\ new.objects[k] \in Objects
        /\ new.objects[k].id = plate.objects[k].id
        /\ new.objects[k].mesh = plate.objects[k].mesh
        /\ new.objects[k].mat = plate.objects[k].mat
  <2> TAKE k \in DOMAIN plate.objects
  <2>1. plate.objects[k] \in Objects /\ Regrouped(plate.objects[k], new.objects[k])
    BY <1>1
  <2> DEFINE o == plate.objects[k]
             n == new.objects[k]
  <2>2. CASE n = o
    BY <2>1, <2>2
  <2>3. CASE \E g \in Nat : n = [o EXCEPT !.group = g]
    <3>1. PICK g \in Nat : n = [o EXCEPT !.group = g]
      BY <2>3
    <3> HIDE DEF o, n
    <3>2. o \in Objects
      BY <2>1 DEF o
    <3>3. n \in Objects /\ n.id = o.id /\ n.mesh = o.mesh /\ n.mat = o.mat
      BY <3>1, <3>2, ObjectEdits
    <3> QED BY <3>3 DEF o, n
  <2> QED BY <2>1, <2>2, <2>3 DEF Regrouped
<1>3. new.objects \in Seq(Objects)
  BY <1>1, <1>2, Mapped
<1>4. DOMAIN new.objects = DOMAIN plate.objects
  OBVIOUS
<1> QED BY <1>2, <1>3, <1>4 DEF Like

LEMMA LikeTwice ==
  ASSUME NEW plate, NEW mid, NEW new, Like(plate, mid), Like(mid, new)
  PROVE  Like(plate, new)
BY DEF Like

(* A plate that differs in its settings only. *)
LEMMA SettingsLike ==
  ASSUME NEW plate, PlateShape(plate), NEW new, DOMAIN new = DOMAIN plate,
         new.id = plate.id, new.printer = plate.printer, new.mods = plate.mods, new.slots = plate.slots,
         new.objects = plate.objects
  PROVE  Like(plate, new) /\ GroupsOn(new) = GroupsOn(plate)
<1>1. Like(plate, new)
  BY DEF Like, PlateShape
<1>2. \A g : g \in GroupsOn(new) <=> g \in GroupsOn(plate)
  BY OnPlate
<1> QED BY <1>1, <1>2

(* Orphans are let go; the groups that stay were there. *)
LEMMA DissolvedIs ==
  ASSUME NEW plate, PlateShape(plate), NEW new, new = DissolveOrphans(plate)
  PROVE  Like(plate, new) /\ GroupsOn(new) \subseteq GroupsOn(plate)
<1> DEFINE orphans == {g \in GroupsOf(plate, IdsOn(plate)) : Cardinality(Members(plate, g)) < 2}
           mid == EditObjects(plate, LAMBDA o : IF o.group \in orphans THEN [o EXCEPT !.group = NoGroup] ELSE o)
<1>1. new = [mid EXCEPT !.groups = Without(@, orphans)]
  BY DEF DissolveOrphans
<1>2. /\ mid.objects = [k \in DOMAIN plate.objects |-> IF plate.objects[k].group \in orphans
                           THEN [plate.objects[k] EXCEPT !.group = NoGroup] ELSE plate.objects[k]]
      /\ DOMAIN mid = DOMAIN plate
      /\ mid.id = plate.id /\ mid.printer = plate.printer
      /\ mid.mods = plate.mods /\ mid.slots = plate.slots
  BY DEF EditObjects, PlateShape
<1> HIDE DEF mid, orphans
<1>3. /\ new.objects = mid.objects /\ DOMAIN new = DOMAIN plate
      /\ new.id = plate.id /\ new.printer = plate.printer
      /\ new.mods = plate.mods /\ new.slots = plate.slots
  BY <1>1, <1>2 DEF PlateShape
<1>4. \A k \in DOMAIN plate.objects :
        /\ Regrouped(plate.objects[k], new.objects[k])
        /\ new.objects[k].group = NoGroup \/ new.objects[k].group = plate.objects[k].group
  <2> TAKE k \in DOMAIN plate.objects
  <2>1. plate.objects[k] \in Objects
    BY DEF PlateShape
  <2>2. new.objects[k] = IF plate.objects[k].group \in orphans
                           THEN [plate.objects[k] EXCEPT !.group = NoGroup] ELSE plate.objects[k]
    BY <1>2, <1>3
  <2>3. NoGroup \in Nat
    BY DEF NoGroup
  <2>4. Regrouped(plate.objects[k], new.objects[k])
    BY <2>2, <2>3 DEF Regrouped
  <2>5. new.objects[k].group = NoGroup \/ new.objects[k].group = plate.objects[k].group
    BY <2>1, <2>2 DEF Objects
  <2> QED BY <2>4, <2>5
<1>5. new.objects = [k \in DOMAIN plate.objects |-> new.objects[k]]
  BY <1>2, <1>3
<1>6. Like(plate, new)
  BY <1>3, <1>4, <1>5, RegroupedIs
<1>7. \A g \in GroupsOn(new) : g \in GroupsOn(plate)
  <2> TAKE g \in GroupsOn(new)
  <2>1. g # NoGroup /\ \E k \in DOMAIN new.objects : g = new.objects[k].group
    BY OnPlate
  <2>2. PICK k \in DOMAIN new.objects : g = new.objects[k].group
    BY <2>1
  <2>3. k \in DOMAIN plate.objects
    BY <1>5
  <2>4. g = plate.objects[k].group
    BY <1>4, <2>1, <2>2, <2>3
  <2> QED BY <2>1, <2>3, <2>4, OnPlate
<1> QED BY <1>6, <1>7

LEMMA LikeShape ==
  ASSUME NEW plate, PlateShape(plate), NEW new, Like(plate, new)
  PROVE  PlateShape(new)
BY DEF Like, PlateShape

LEMMA JoinedIs ==
  ASSUME NEW plate, PlateShape(plate), NEW ids, NEW g \in Nat, NEW new, new = Join(plate, ids, g)
  PROVE  /\ Like(plate, new) /\ \A h \in GroupsOn(new) : h \in GroupsOn(plate) \/ h = g
         /\ DOMAIN new = DOMAIN plate
<1>1. /\ new.objects = [k \in DOMAIN plate.objects |-> IF plate.objects[k].id \in ids
                           THEN [plate.objects[k] EXCEPT !.group = g] ELSE plate.objects[k]]
      /\ DOMAIN new = DOMAIN plate
      /\ new.id = plate.id /\ new.printer = plate.printer
      /\ new.mods = plate.mods /\ new.slots = plate.slots
  BY DEF Join, EditObjects, PlateShape
<1>2. \A k \in DOMAIN plate.objects :
        /\ Regrouped(plate.objects[k], new.objects[k])
        /\ new.objects[k].group = g \/ new.objects[k].group = plate.objects[k].group
  <2> TAKE k \in DOMAIN plate.objects
  <2>1. plate.objects[k] \in Objects
    BY ShapeObjects
  <2>2. new.objects[k] = IF plate.objects[k].id \in ids
                           THEN [plate.objects[k] EXCEPT !.group = g] ELSE plate.objects[k]
    BY <1>1
  <2>4. Regrouped(plate.objects[k], new.objects[k])
    BY <2>2 DEF Regrouped
  <2>5. new.objects[k].group = g \/ new.objects[k].group = plate.objects[k].group
    BY <2>1, <2>2 DEF Objects
  <2> QED BY <2>4, <2>5
<1>3. new.objects = [k \in DOMAIN plate.objects |-> new.objects[k]]
  BY <1>1
<1>4. Like(plate, new)
  BY <1>1, <1>2, <1>3, RegroupedIs
<1>5. \A h \in GroupsOn(new) : h \in GroupsOn(plate) \/ h = g
  <2> TAKE h \in GroupsOn(new)
  <2>1. h # NoGroup /\ \E k \in DOMAIN new.objects : h = new.objects[k].group
    BY OnPlate
  <2>2. PICK k \in DOMAIN new.objects : h = new.objects[k].group
    BY <2>1
  <2>3. k \in DOMAIN plate.objects
    BY <1>3
  <2>4. h = plate.objects[k].group \/ h = g
    BY <1>2, <2>2, <2>3
  <2> QED BY <2>1, <2>3, <2>4, OnPlate
<1> QED BY <1>1, <1>4, <1>5

LEMMA GroupKeeps ==
  ASSUME NEW s, NEW e, NEW c, NEW l, SessionOK(s, e, c, l), NEW ids, NEW unknown,
         NEW t, t = GroupObjects(s, ids, unknown)
  PROVE  Result(s, t, e, c, l)
<1> DEFINE p == s.project
           a == p.active
           plate == p.plates[a]
           g == s.fresh + 1
           joined == Join(plate, ids, g)
           named == [joined EXCEPT !.groups = Put(@, g, {})]
           whole == DissolveOrphans(named)
           new == IF unknown THEN joined ELSE whole
           q == EditPlate(p, a, new)
<1>1. DocumentShape(p) /\ a \in DOMAIN p.plates /\ PlateShape(plate) /\ s.fresh \in Nat
      /\ ActivePlate(p) = plate /\ EditActive(p, new) = q
  BY Active DEF SessionOK
<1>2. t = [s EXCEPT !.fresh = s.fresh + 1, !.project = q]
  <2>1. t = [s EXCEPT !.fresh = s.fresh + 1, !.project = EditActive(s.project, IF unknown THEN Join(ActivePlate(p), ids, g)
              ELSE DissolveOrphans([Join(ActivePlate(p), ids, g) EXCEPT !.groups = Put(@, g, {})]))]
    BY Zenon DEF GroupObjects
  <2> HIDE DEF plate
  <2>2. ActivePlate(p) = plate /\ EditActive(p, new) = q
    BY <1>1
  <2> HIDE DEF q, p
  <2> QED BY ONLY <2>1, <2>2 DEF p
<1>3. t.project = q /\ DOMAIN t = DOMAIN s /\ t.cache = s.cache /\ t.selection = s.selection
      /\ t.fresh = g /\ t.fresh \in Nat /\ t.fresh >= s.fresh
  <2> HIDE DEF q
  <2> QED BY <1>1, <1>2 DEF SessionOK
<1> HIDE DEF q, new, joined, named, whole, p, plate
<1>4. Like(plate, joined) /\ DOMAIN joined = DOMAIN plate /\ \A h \in GroupsOn(joined) : h \in GroupsOn(plate) \/ h = g
  BY <1>1, JoinedIs DEF joined
<1>5. PlateShape(joined)
  BY <1>1, <1>4, LikeShape
<1>6. Like(joined, named) /\ GroupsOn(named) = GroupsOn(joined)
  <2>1. /\ DOMAIN named = DOMAIN joined /\ named.id = joined.id /\ named.printer = joined.printer
        /\ named.mods = joined.mods /\ named.slots = joined.slots /\ named.objects = joined.objects
    BY <1>5 DEF named, PlateShape
  <2> QED BY <1>5, <2>1, SettingsLike
<1>7. Like(named, whole) /\ GroupsOn(whole) \subseteq GroupsOn(named)
  BY <1>5, <1>6, LikeShape, DissolvedIs DEF whole
<1>8. Like(plate, new) /\ \A h \in GroupsOn(new) : h \in GroupsOn(plate) \/ h = g
  <2>1. Like(plate, whole)
    BY <1>4, <1>6, <1>7, LikeTwice
  <2> QED BY <2>1, <1>4, <1>6, <1>7 DEF new
<1>9. Changes(p, q, a) /\ q.plates[a] = new
  BY <1>1, Edited DEF q
<1>10. g \in (s.fresh + 1)..t.fresh
  BY <1>1, <1>3
<1>11. \A h \in GroupsOn(q.plates[a]) : h \in GroupsOn(p.plates[a]) \/ h \in (s.fresh + 1)..t.fresh
  BY <1>8, <1>9, <1>10 DEF plate
<1> HIDE DEF g, a
<1>12. Like(p.plates[a], q.plates[a])
  BY <1>8, <1>9 DEF plate
<1> QED BY <1>1, <1>3, <1>9, <1>11, <1>12, RelabelKeeps DEF p

(* A plate is replaced by one that differs in settings only, or in groups it had. *)
LEMMA SettingsKeep ==
  ASSUME NEW s, NEW e, NEW c, NEW l, SessionOK(s, e, c, l), NEW i \in DOMAIN s.project.plates,
         NEW new, Like(s.project.plates[i], new), GroupsOn(new) \subseteq GroupsOn(s.project.plates[i]),
         NEW t, t = [s EXCEPT !.project = EditPlate(s.project, i, new)]
  PROVE  Result(s, t, e, c, l)
<1> DEFINE p == s.project
           q == EditPlate(p, i, new)
<1>1. DocumentShape(p) /\ i \in DOMAIN p.plates
  BY Active
<1>2. t.project = q /\ DOMAIN t = DOMAIN s /\ t.cache = s.cache /\ t.selection = s.selection
      /\ t.fresh \in Nat /\ t.fresh >= s.fresh
  BY ProjectSet
<1> HIDE DEF p, q
<1>3. Changes(p, q, i) /\ q.plates[i] = new
  BY <1>1, Edited DEF q
<1>4. \A g \in GroupsOn(q.plates[i]) : g \in GroupsOn(p.plates[i])
  BY <1>3 DEF p
<1>5. Like(p.plates[i], q.plates[i])
  BY <1>3 DEF p
<1> QED BY <1>1, <1>2, <1>3, <1>4, <1>5, RelabelKeeps DEF p

LEMMA UngroupKeeps ==
  ASSUME NEW s, NEW e, NEW c, NEW l, SessionOK(s, e, c, l), NEW g,
         NEW t, t = [s EXCEPT !.project = UngroupObjects(s.project, g)]
  PROVE  Result(s, t, e, c, l)
<1> DEFINE p == s.project
           a == p.active
           plate == p.plates[a]
           ids == {o.id : o \in Members(plate, g)}
           keys == IF g \in DOMAIN plate.groups THEN plate.groups[g] ELSE {}
           freed == EditObjects(plate, LAMBDA o : IF o.group = g THEN [o EXCEPT !.group = NoGroup] ELSE o)
           new == [freed EXCEPT !.over = Added(@, ids, keys), !.groups = Without(@, {g})]
<1>1. DocumentShape(p) /\ a \in DOMAIN p.plates /\ PlateShape(plate)
      /\ ActivePlate(p) = plate /\ EditActive(p, new) = EditPlate(p, a, new)
  BY Active
<1>2. UngroupObjects(p, g) = EditPlate(p, a, new)
  <2>1. plate = p.plates[p.active] /\ ActivePlate(p) = p.plates[p.active]
    BY <1>1
  <2>2. UngroupObjects(p, g) = EditActive(p, new)
    BY ONLY <2>1 DEF UngroupObjects
  <2> HIDE DEF new, p
  <2> QED BY <1>1, <2>2
<1>3. /\ freed.objects = [k \in DOMAIN plate.objects |-> IF plate.objects[k].group = g
                           THEN [plate.objects[k] EXCEPT !.group = NoGroup] ELSE plate.objects[k]]
      /\ DOMAIN freed = DOMAIN plate
      /\ freed.id = plate.id /\ freed.printer = plate.printer
      /\ freed.mods = plate.mods /\ freed.slots = plate.slots
  BY <1>1, Zenon DEF EditObjects, PlateShape
<1> HIDE DEF freed, ids, keys
<1>4. /\ new.objects = freed.objects /\ DOMAIN new = DOMAIN plate
      /\ new.id = plate.id /\ new.printer = plate.printer
      /\ new.mods = plate.mods /\ new.slots = plate.slots
  BY <1>1, <1>3, Zenon DEF PlateShape
<1> HIDE DEF new, plate
<1>5. \A k \in DOMAIN plate.objects :
        /\ Regrouped(plate.objects[k], new.objects[k])
        /\ new.objects[k].group = NoGroup \/ new.objects[k].group = plate.objects[k].group
  <2> TAKE k \in DOMAIN plate.objects
  <2>1. plate.objects[k] \in Objects
    BY <1>1, ShapeObjects
  <2>2. new.objects[k] = IF plate.objects[k].group = g
                           THEN [plate.objects[k] EXCEPT !.group = NoGroup] ELSE plate.objects[k]
    BY <1>3, <1>4
  <2>3. NoGroup \in Nat
    BY DEF NoGroup
  <2>4. Regrouped(plate.objects[k], new.objects[k])
    BY <2>2, <2>3 DEF Regrouped
  <2>5. new.objects[k].group = NoGroup \/ new.objects[k].group = plate.objects[k].group
    BY <2>1, <2>2 DEF Objects
  <2> QED BY <2>4, <2>5
<1>6. new.objects = [k \in DOMAIN plate.objects |-> new.objects[k]]
  BY <1>3, <1>4
<1>7. Like(plate, new)
  BY <1>1, <1>4, <1>5, <1>6, RegroupedIs
<1>8. \A h \in GroupsOn(new) : h \in GroupsOn(plate)
  <2> TAKE h \in GroupsOn(new)
  <2>1. h # NoGroup /\ \E k \in DOMAIN new.objects : h = new.objects[k].group
    BY OnPlate
  <2>2. PICK k \in DOMAIN new.objects : h = new.objects[k].group
    BY <2>1
  <2>3. k \in DOMAIN plate.objects
    BY <1>6
  <2>4. h = plate.objects[k].group
    BY <1>5, <2>1, <2>2, <2>3
  <2> QED BY <2>1, <2>3, <2>4, OnPlate
<1>9. GroupsOn(new) \subseteq GroupsOn(plate)
  BY <1>8
<1> QED BY <1>1, <1>2, <1>7, <1>9, SettingsKeep DEF plate

LEMMA SettingsOnlyKeep ==
  ASSUME NEW s, NEW e, NEW c, NEW l, SessionOK(s, e, c, l), NEW i \in DOMAIN s.project.plates, NEW new,
         DOMAIN new = DOMAIN s.project.plates[i],
         new.id = s.project.plates[i].id, new.printer = s.project.plates[i].printer,
         new.mods = s.project.plates[i].mods, new.slots = s.project.plates[i].slots,
         new.objects = s.project.plates[i].objects,
         NEW t, t = [s EXCEPT !.project = EditPlate(s.project, i, new)]
  PROVE  Result(s, t, e, c, l)
<1> DEFINE plate == s.project.plates[i]
<1>1. PlateShape(plate)
  BY Active
<1> HIDE DEF plate
<1>2. Like(plate, new) /\ GroupsOn(new) = GroupsOn(plate)
  BY <1>1, SettingsLike DEF plate
<1>3. GroupsOn(new) \subseteq GroupsOn(plate)
  BY <1>2
<1> QED BY <1>2, <1>3, SettingsKeep DEF plate

LEMMA RenameKeeps ==
  ASSUME NEW s, NEW e, NEW c, NEW l, SessionOK(s, e, c, l), NEW g,
         NEW t, t = [s EXCEPT !.project = RenameGroup(s.project, g)]
  PROVE  Result(s, t, e, c, l)
<1> DEFINE a == s.project.active
           plate == s.project.plates[a]
           new == [plate EXCEPT !.groups = IF g \in DOMAIN @ THEN @ ELSE Put(@, g, {})]
<1>1. a \in DOMAIN s.project.plates /\ PlateShape(plate)
      /\ ActivePlate(s.project) = plate /\ EditActive(s.project, new) = EditPlate(s.project, a, new)
  BY Active
<1>2. RenameGroup(s.project, g) = EditPlate(s.project, a, new)
  BY <1>1 DEF RenameGroup
<1>3. /\ DOMAIN new = DOMAIN plate /\ new.id = plate.id /\ new.printer = plate.printer
      /\ new.mods = plate.mods /\ new.slots = plate.slots /\ new.objects = plate.objects
  BY <1>1 DEF PlateShape
<1> HIDE DEF new, a
<1> QED BY <1>1, <1>2, <1>3, SettingsOnlyKeep

LEMMA OverrideKeeps ==
  ASSUME NEW s, NEW e, NEW c, NEW l, SessionOK(s, e, c, l), NEW i \in DOMAIN s.project.plates, NEW id, NEW key,
         NEW t, \/ t = [s EXCEPT !.project = ObjectOverrideSet(s.project, i, id, key)]
                \/ t = [s EXCEPT !.project = ObjectOverrideClear(s.project, i, id, key)]
  PROVE  Result(s, t, e, c, l)
<1> DEFINE plate == s.project.plates[i]
           g == ObjectOn(plate, id).group
           held == IF g \in DOMAIN plate.groups THEN plate.groups[g] ELSE {}
           own == (IF id \in DOMAIN plate.over THEN plate.over[id] ELSE {}) \ {key}
           rest == Without(plate.over, {id})
           x == [plate EXCEPT !.groups = Put(@, g, held \cup {key})]
           y == [plate EXCEPT !.over = Added(@, {id}, {key})]
           z == [plate EXCEPT !.groups = IF g \in DOMAIN @ THEN Put(@, g, @[g] \ {key}) ELSE @,
                              !.over = IF own = {} THEN rest ELSE Put(rest, id, own)]
           Same(new) == /\ DOMAIN new = DOMAIN plate /\ new.id = plate.id /\ new.printer = plate.printer
                        /\ new.mods = plate.mods /\ new.slots = plate.slots /\ new.objects = plate.objects
<1>1. PlateShape(plate)
  BY Active
<1>2. Same(x) /\ Same(y) /\ Same(z)
  <2> HIDE DEF g, held, own, rest
  <2> QED BY <1>1 DEF PlateShape
<1>3. ObjectOverrideSet(s.project, i, id, key)
        = EditPlate(s.project, i, IF g # NoGroup /\ key \in ObjectKeys THEN x ELSE y)
  BY DEF ObjectOverrideSet
<1>4. ObjectOverrideClear(s.project, i, id, key) = EditPlate(s.project, i, z)
  BY DEF ObjectOverrideClear
<1>5. \E new : Same(new) /\ t = [s EXCEPT !.project = EditPlate(s.project, i, new)]
  <2> HIDE DEF Same, x, y, z, g
  <2> QED BY <1>2, <1>3, <1>4
<1>6. PICK new : Same(new) /\ t = [s EXCEPT !.project = EditPlate(s.project, i, new)]
  BY <1>5
<1> QED BY <1>6, SettingsOnlyKeep

(* A plate that holds the same is bound otherwise. *)
LEMMA BindingKeeps ==
  ASSUME NEW s, NEW e, NEW c, NEW l, SessionOK(s, e, c, l), NEW i \in DOMAIN s.project.plates, NEW new,
         PlateShape(new), new.id = s.project.plates[i].id,
         new.mods = s.project.plates[i].mods, new.objects = s.project.plates[i].objects,
         NEW e2, NEW c2, Allowing(e, c, l, s.fresh, e2, c2, l, s.fresh, new.id),
         UseIsBound(s.project, new, e2), new.id \notin c2 => Fits(new),
         NEW t, t = [s EXCEPT !.project = EditPlate(s.project, i, new)]
  PROVE  Result(s, t, e2, c2, l)
<1> DEFINE p == s.project
           q == EditPlate(p, i, new)
           plate == p.plates[i]
           f == s.fresh
<1>1. DocumentShape(p) /\ DocumentOK(p, e, c, l, f) /\ f \in Nat /\ i \in DOMAIN p.plates
      /\ PlateOK(p, plate, e, c, f)
  BY Active DEF SessionOK, DocumentOK
<1>2. t.project = q /\ DOMAIN t = DOMAIN s /\ t.cache = s.cache /\ t.selection = s.selection
      /\ t.fresh \in Nat /\ t.fresh >= s.fresh /\ t.fresh = f
  BY ProjectSet
<1> HIDE DEF p, q, plate
<1>3. Changes(p, q, i) /\ q.plates[i] = new /\ q.lastObject = p.lastObject
  BY <1>1, Edited DEF q
<1>4. IdsOn(new) = IdsOn(plate) /\ GroupsOn(new) = GroupsOn(plate) /\ Names(new) = Names(plate)
  <2>1. new.objects = plate.objects /\ new.mods = plate.mods
    BY DEF plate, p
  <2>2. ObjectsOn(new) = ObjectsOn(plate)
    BY <2>1 DEF ObjectsOn
  <2> QED BY <2>1, <2>2 DEF IdsOn, GroupsOn, GroupsOf, Names
<1>5. p.meshes = q.meshes /\ p.lastObject = q.lastObject
  BY <1>3 DEF Changes
<1>6. Resolves(q, new)
  <2>1. new.objects = plate.objects /\ new.mods = plate.mods
    BY DEF plate, p
  <2> QED BY <1>1, <1>4, <1>5, <2>1 DEF PlateOK, Resolves
<1>7. UseIsBound(q, new, e2)
  <2>1. MaterialsOn(q, new) = MaterialsOn(p, new)
    BY <1>5 DEF MaterialsOn, PaintOf
  <2> QED BY <2>1, Zenon DEF UseIsBound, p
<1>8. GroupsOn(new) \subseteq 1..f
  BY <1>1, <1>4 DEF PlateOK
<1>9. PlateOK(q, new, e2, c2, f)
  BY <1>6, <1>7, <1>8 DEF PlateOK
<1>10. new.id = plate.id
  BY DEF plate, p
<1>11. Apart(p, i, new)
  <2>1. IdsApart(p) /\ GroupsApart(p)
    BY <1>1 DEF DocumentOK
  <2> QED BY <1>1, <1>4, <2>1 DEF Apart, IdsApart, GroupsApart, plate
<1>12. StillNamed(plate, new, l)
  BY <1>4 DEF StillNamed
<1> HIDE DEF f
<1>13. DocumentOK(q, e2, c2, l, f)
  BY <1>1, <1>3, <1>9, <1>10, <1>11, <1>12, ChangeKeeps DEF plate, f
<1>14. Edits(s, t, i)
  BY <1>1, <1>2, <1>3, <1>4, <1>10 DEF Edits, p, plate
<1> QED BY <1>2, <1>13, <1>14, EditKeeps

LEMMA AllowingExcuse ==
  ASSUME NEW e, NEW c, NEW l, NEW f \in Nat, NEW id, NEW x
  PROVE  Allowing(e, c, l, f, e \cup x, c, l, f, id)
BY DEF Allowing

LEMMA PinKeeps ==
  ASSUME NEW s, NEW e, NEW c, NEW l, SessionOK(s, e, c, l), NEW i \in DOMAIN s.project.plates,
         NEW mat \in Materials, NEW slot, SlotExists(s.project.plates[i], slot),
         NEW t, t = [s EXCEPT !.project = SetSlot(s.project, i, mat, slot)]
  PROVE  Result(s, t, e \cup {<<s.project.plates[i].id, mat>>}, c, l)
<1> DEFINE plate == s.project.plates[i]
           new == [plate EXCEPT !.slots = Put(@, mat, slot)]
           e2 == e \cup {<<plate.id, mat>>}
<1>1. PlateShape(plate) /\ PlateOK(s.project, plate, e, c, s.fresh) /\ s.fresh \in Nat
  BY Active DEF SessionOK, DocumentOK
<1>2. /\ DOMAIN new = DOMAIN plate /\ new.id = plate.id /\ new.printer = plate.printer
      /\ new.mods = plate.mods /\ new.objects = plate.objects /\ new.slots = Put(plate.slots, mat, slot)
  BY <1>1 DEF PlateShape
<1>3. t = [s EXCEPT !.project = EditPlate(s.project, i, new)]
  BY DEF SetSlot
<1> HIDE DEF new, plate
<1>4. PlateShape(new)
  BY <1>1, <1>2 DEF PlateShape, Put
<1>5. UseIsBound(s.project, new, e2)
  <2>1. MaterialsOn(s.project, new) = MaterialsOn(s.project, plate)
    BY <1>2 DEF MaterialsOn, ObjectsOn
  <2>2. DOMAIN new.slots = DOMAIN plate.slots \cup {mat}
    BY <1>2 DEF Put
  <2>3. UseIsBound(s.project, plate, e)
    BY <1>1 DEF PlateOK
  <2>4. Bound(new) <=> Bound(plate)
    BY <1>2 DEF Bound
  <2> QED BY <2>1, <2>2, <2>3, <2>4, <1>2 DEF UseIsBound
<1>6. new.id \notin c => Fits(new)
  <2>1. new.id \notin c => Fits(plate)
    BY <1>1, <1>2 DEF PlateOK
  <2>2. new.printer # Unbound => slot \in AllSlots[new.printer]
    BY <1>2 DEF SlotExists, plate
  <2> QED BY <2>1, <2>2, <1>2 DEF Fits, Put
<1> HIDE DEF e2
<1>7. Allowing(e, c, l, s.fresh, e2, c, l, s.fresh, new.id)
  BY <1>1, AllowingExcuse DEF e2
<1>8. Result(s, t, e2, c, l)
  BY <1>2, <1>3, <1>4, <1>5, <1>6, <1>7, BindingKeeps DEF plate
<1> QED BY <1>8 DEF e2, plate

LEMMA ClearKeeps ==
  ASSUME NEW s, NEW e, NEW c, NEW l, SessionOK(s, e, c, l), NEW i \in DOMAIN s.project.plates, NEW mat,
         NEW t, t = [s EXCEPT !.project = EditPlate(s.project, i,
                        [s.project.plates[i] EXCEPT !.slots = Without(@, {mat})])]
  PROVE  Result(s, t, e \cup {<<s.project.plates[i].id, mat>>}, c, l)
<1> DEFINE plate == s.project.plates[i]
           new == [plate EXCEPT !.slots = Without(@, {mat})]
           e2 == e \cup {<<plate.id, mat>>}
<1>1. PlateShape(plate) /\ PlateOK(s.project, plate, e, c, s.fresh) /\ s.fresh \in Nat
  BY Active DEF SessionOK, DocumentOK
<1>2. /\ DOMAIN new = DOMAIN plate /\ new.id = plate.id /\ new.printer = plate.printer
      /\ new.mods = plate.mods /\ new.objects = plate.objects /\ new.slots = Without(plate.slots, {mat})
  BY <1>1 DEF PlateShape
<1>3. t = [s EXCEPT !.project = EditPlate(s.project, i, new)]
  OBVIOUS
<1> HIDE DEF new, plate
<1>4. PlateShape(new)
  BY <1>1, <1>2 DEF PlateShape, Without
<1>5. UseIsBound(s.project, new, e2)
  <2>1. MaterialsOn(s.project, new) = MaterialsOn(s.project, plate)
    BY <1>2 DEF MaterialsOn, ObjectsOn
  <2>2. DOMAIN new.slots = DOMAIN plate.slots \ {mat}
    BY <1>2 DEF Without
  <2>3. UseIsBound(s.project, plate, e) /\ DOMAIN plate.slots \subseteq Materials
    BY <1>1 DEF PlateOK, PlateShape
  <2>4. Bound(new) <=> Bound(plate)
    BY <1>2 DEF Bound
  <2> QED BY <2>1, <2>2, <2>3, <2>4, <1>2 DEF UseIsBound
<1>6. new.id \notin c => Fits(new)
  BY <1>1, <1>2 DEF PlateOK, Fits, Without
<1> HIDE DEF e2
<1>7. Allowing(e, c, l, s.fresh, e2, c, l, s.fresh, new.id)
  BY <1>1, AllowingExcuse DEF e2
<1>8. Result(s, t, e2, c, l)
  BY <1>2, <1>3, <1>4, <1>5, <1>6, <1>7, BindingKeeps DEF plate
<1> QED BY <1>8 DEF e2, plate

(* Selections of plates that are gone are dropped, new plates get an empty one. *)
LEMMA Reconciled ==
  ASSUME NEW s, DOMAIN s = {"project", "selection", "cache", "fresh"}, s.fresh \in Nat,
         NEW e, NEW c, NEW l, DocumentOK(s.project, e, c, l, s.fresh),
         \A i \in DOMAIN s.project.plates : s.project.plates[i].id \in DOMAIN s.selection =>
             s.selection[s.project.plates[i].id] \subseteq IdsOn(s.project.plates[i]),
         NEW t, t = Reconcile(s)
  PROVE  /\ SessionOK(t, e, c, l)
         /\ t.project = s.project /\ t.cache = s.cache /\ t.fresh = s.fresh
<1> DEFINE live == {s.project.plates[i].id : i \in DOMAIN s.project.plates}
           sel == [id \in live |-> IF id \in DOMAIN s.selection THEN s.selection[id] ELSE {}]
<1>1. t = [s EXCEPT !.selection = sel]
  BY DEF Reconcile
<1>2. live = PlateIdsOf(s.project)
  BY DEF PlateIdsOf
<1>3. DOMAIN sel = live /\ sel = [x \in DOMAIN sel |-> sel[x]]
  OBVIOUS
<1>4. \A i \in DOMAIN s.project.plates : sel[s.project.plates[i].id] \subseteq IdsOn(s.project.plates[i])
  OBVIOUS
<1> HIDE DEF sel, live
<1>5. DOMAIN t = DOMAIN s /\ t.project = s.project /\ t.cache = s.cache /\ t.fresh = s.fresh /\ t.selection = sel
  BY <1>1
<1> QED BY <1>2, <1>3, <1>4, <1>5 DEF SessionOK, SelectionOK

LEMMA ReconcileKeeps ==
  ASSUME NEW s, NEW t, NEW e, NEW c, NEW l, Result(s, t, e, c, l), NEW u, u = Reconcile(t)
  PROVE  Result(s, u, e, c, l)
<1>1. SessionOK(t, e, c, l)
  BY DEF Result
<1>2. \A i \in DOMAIN t.project.plates : t.selection[t.project.plates[i].id] \subseteq IdsOn(t.project.plates[i])
  BY <1>1 DEF SessionOK, SelectionOK
<1>3. SessionOK(u, e, c, l) /\ u.project = t.project /\ u.cache = t.cache /\ u.fresh = t.fresh
  BY <1>1, <1>2, Reconciled DEF SessionOK
<1> QED BY <1>3 DEF Result, CacheOK

LEMMA RebindKeeps ==
  ASSUME NEW s, NEW e, NEW c, NEW l, SessionOK(s, e, c, l), NEW i \in DOMAIN s.project.plates,
         NEW inst \in Instances, NEW walk \in Walks(inst),
         NEW t, t = Reconcile([s EXCEPT !.project = RebindPrinter(s.project, i, inst, walk)])
  PROVE  Result(s, t, e, c \ {s.project.plates[i].id}, l)
<1> DEFINE p == s.project
           plate == p.plates[i]
           all == MaterialsOn(p, plate)
           slots == EnsureSlots(<< >>, all, walk, << >>)
           new == [plate EXCEPT !.printer = inst, !.slots = slots]
           c2 == c \ {plate.id}
           u == [s EXCEPT !.project = EditPlate(p, i, new)]
<1>1. PlateShape(plate) /\ PlateOK(p, plate, e, c, s.fresh) /\ s.fresh \in Nat /\ DocumentShape(p)
  BY Active DEF SessionOK, DocumentOK
<1>2. RebindPrinter(p, i, inst, walk) = EditPlate(p, i, new)
  BY DEF RebindPrinter
<1>3. /\ new.id = plate.id /\ new.printer = inst
      /\ new.mods = plate.mods /\ new.objects = plate.objects /\ new.slots = slots
      /\ DOMAIN new = DOMAIN plate
  BY <1>1 DEF PlateShape
<1>4. t = Reconcile(u)
  BY <1>2
<1> HIDE DEF new, plate, p
<1>5. all \in SUBSET Materials
  <2>1. ASSUME NEW m \in all PROVE m \in Materials
    <3>1. PICK k \in DOMAIN plate.objects : m = MaterialOf(plate.objects[k]) \/ m \in PaintOf(p, plate.objects[k].mesh)
      BY MaterialsAre
    <3>2. plate.objects[k] \in Objects
      BY <1>1, ShapeObjects
    <3>3. plate.objects[k].mat \in Materials \cup {NoMaterial}
      BY <3>2 DEF Objects
    <3> QED BY <3>1, <3>3, <1>1, MaterialIs, PaintIs
  <2> QED BY <2>1
<1>6. walk \in Seq(SlotsOf(inst)) /\ walk # << >> /\ SlotsOf(inst) = AllSlots[inst]
  BY WalkIs, SceneAssumption DEF SlotsOf
<1>7. Grown(<< >>, slots, all, walk, << >>, SlotsOf(inst))
  BY <1>5, <1>6, EnsuredAllIs
<1> HIDE DEF slots, all
<1>8. DOMAIN slots \subseteq all /\ all \subseteq DOMAIN slots
      /\ \A m \in DOMAIN slots : slots[m] \in AllSlots[inst]
  BY <1>6, <1>7 DEF Grown
<1>9. PlateShape(new)
  BY <1>1, <1>3, <1>5, <1>8 DEF PlateShape
<1>10. UseIsBound(p, new, e)
  <2>1. MaterialsOn(p, new) = all
    BY <1>3 DEF MaterialsOn, ObjectsOn, all
  <2> QED BY <2>1, <1>3, <1>8 DEF UseIsBound, Bound
<1>11. Fits(new)
  BY <1>3, <1>8 DEF Fits
<1>12. Allowing(e, c, l, s.fresh, e, c2, l, s.fresh, new.id)
  BY <1>1, <1>3 DEF Allowing
<1> HIDE DEF c2, u
<1>13. Result(s, u, e, c2, l)
  BY <1>3, <1>9, <1>10, <1>11, <1>12, BindingKeeps DEF plate, p, u
<1> QED BY <1>4, <1>13, ReconcileKeeps DEF c2, plate, p

LEMMA UnbindKeeps ==
  ASSUME NEW s, NEW e, NEW c, NEW l, SessionOK(s, e, c, l), NEW i \in DOMAIN s.project.plates,
         NEW t, t = Reconcile([s EXCEPT !.project = UnbindPrinter(s.project, i)])
  PROVE  Result(s, t, e, c, l)
<1> DEFINE p == s.project
           plate == p.plates[i]
           new == [plate EXCEPT !.printer = Unbound, !.slots = << >>]
           u == [s EXCEPT !.project = EditPlate(p, i, new)]
<1>1. PlateShape(plate) /\ s.fresh \in Nat
  BY Active DEF SessionOK
<1>2. UnbindPrinter(p, i) = EditPlate(p, i, new)
  BY DEF UnbindPrinter
<1>3. /\ new.id = plate.id /\ new.printer = Unbound
      /\ new.mods = plate.mods /\ new.objects = plate.objects /\ new.slots = << >>
      /\ DOMAIN new = DOMAIN plate
  BY <1>1 DEF PlateShape
<1>4. t = Reconcile(u)
  BY <1>2
<1> HIDE DEF new, plate, p
<1>5. PlateShape(new)
  BY <1>1, <1>3 DEF PlateShape
<1>6. ~ Bound(new)
  BY <1>3 DEF Bound
<1>7. UseIsBound(p, new, e) /\ Fits(new)
  BY <1>3, <1>6 DEF UseIsBound, Fits
<1>8. Allowing(e, c, l, s.fresh, e, c, l, s.fresh, new.id)
  BY <1>1, AllowingSame
<1> HIDE DEF u
<1>9. Result(s, u, e, c, l)
  BY <1>3, <1>5, <1>7, <1>8, BindingKeeps DEF plate, p, u
<1> QED BY <1>4, <1>9, ReconcileKeeps

(* A plate is replaced by one that is whole. *)
LEMMA PlateKeeps ==
  ASSUME NEW s, NEW e, NEW c, NEW l, SessionOK(s, e, c, l), NEW i \in DOMAIN s.project.plates, NEW new,
         NEW e2, NEW c2, NEW l2, Allowing(e, c, l, s.fresh, e2, c2, l2, s.fresh, new.id),
         PlateOK(s.project, new, e2, c2, s.fresh), new.id = s.project.plates[i].id,
         Apart(s.project, i, new), StillNamed(s.project.plates[i], new, l2),
         NEW t, DOMAIN t = DOMAIN s, t.project = EditPlate(s.project, i, new), t.cache = s.cache, t.fresh = s.fresh,
         SelectionOK(t.project, t.selection)
  PROVE  Result(s, t, e2, c2, l2)
<1> DEFINE p == s.project
           q == EditPlate(p, i, new)
           plate == p.plates[i]
           f == s.fresh
<1>1. DocumentShape(p) /\ DocumentOK(p, e, c, l, f) /\ f \in Nat /\ i \in DOMAIN p.plates
  BY Active DEF SessionOK
<1> HIDE DEF p, q, plate
<1>2. Changes(p, q, i) /\ q.plates[i] = new /\ q.lastObject = p.lastObject
  BY <1>1, Edited DEF q
<1>3. p.meshes = q.meshes /\ p.lastObject = q.lastObject /\ p.lastMesh = q.lastMesh
  BY <1>2 DEF Changes
<1>4. PlateOK(p, new, e2, c2, f) /\ new.id = plate.id /\ t.project = q
  BY DEF p, plate, q
<1>5. PlateOK(q, new, e2, c2, f)
  <2>1. Resolves(q, new)
    BY <1>3, <1>4 DEF PlateOK, Resolves
  <2>2. MaterialsOn(q, new) = MaterialsOn(p, new)
    BY <1>3 DEF MaterialsOn, PaintOf
  <2>3. UseIsBound(q, new, e2)
    <3>1. UseIsBound(p, new, e2)
      BY <1>4 DEF PlateOK
    <3> QED BY <2>2, <3>1, Zenon DEF UseIsBound
  <2> QED BY <2>1, <2>3, <1>4 DEF PlateOK
<1>6. Apart(p, i, new) /\ StillNamed(plate, new, l2)
  BY DEF p, plate
<1> HIDE DEF f
<1>7. Allowing(e, c, l, f, e2, c2, l2, f, new.id)
  BY DEF f
<1>8. DocumentOK(q, e2, c2, l2, f)
  BY <1>1, <1>2, <1>4, <1>5, <1>6, <1>7, ChangeKeeps DEF plate
<1>9. PoolStep(p, q)
  BY <1>1, <1>3, PoolStays
<1>10. t.fresh \in Nat /\ t.fresh >= s.fresh /\ t.fresh = f
  BY <1>1 DEF f
<1>11. CacheOK(s) => CacheOK(t)
  BY <1>3, <1>4 DEF CacheOK, p
<1>12. SessionOK(t, e2, c2, l2)
  BY <1>4, <1>8, <1>10 DEF SessionOK
<1> QED BY <1>4, <1>9, <1>10, <1>11, <1>12 DEF Result, p

Pruned(p, left, cand) == [left EXCEPT !.slots = Without(@, cand \ MaterialsOn(p, left))]

(* What is pruned of a plate that was just put in its place. *)
LEMMA PrunedIs ==
  ASSUME NEW p, DocumentShape(p), NEW i \in DOMAIN p.plates, NEW left, PlateShape(left), NEW cand,
         NEW q, q = PruneBindings(EditPlate(p, i, left), i, cand)
  PROVE  q = EditPlate(p, i, Pruned(p, left, cand))
<1> DEFINE r == EditPlate(p, i, left)
           new == [left EXCEPT !.slots = Without(@, cand \ MaterialsOn(p, left))]
<1>1. Changes(p, r, i) /\ r.plates[i] = left
  BY Edited
<1>2. r.meshes = p.meshes
  BY <1>1 DEF Changes
<1>3. MaterialsOn(r, left) = MaterialsOn(p, left)
  BY <1>2 DEF MaterialsOn, PaintOf
<1>4. q = EditPlate(r, i, new)
  <2> DEFINE gone == cand \ MaterialsOn(r, r.plates[i])
  <2>1. q = EditPlate(r, i, [r.plates[i] EXCEPT !.slots = Without(@, gone)])
    BY DEF PruneBindings
  <2>2. gone = cand \ MaterialsOn(p, left)
    BY <1>1, <1>3
  <2> HIDE DEF gone, r
  <2> QED BY <1>1, <2>1, <2>2
<1>5. EditPlate(EditPlate(p, i, left), i, new) = EditPlate(p, i, new)
  <2> HIDE DEF new, r
  <2> QED BY DEF EditPlate, DocumentShape
<1> QED BY <1>4, <1>5 DEF Pruned

(* Bindings of candidates may be superfluous before they are pruned, not after. *)
Covers(p, plate, e, cand) ==
  LET use == MaterialsOn(p, plate)
      excuse == {m \in Materials : <<plate.id, m>> \in e}
  IN Bound(plate) => use \subseteq DOMAIN plate.slots \cup excuse /\ DOMAIN plate.slots \subseteq use \cup cand \cup excuse

LEMMA PrunedUse ==
  ASSUME NEW p, NEW left, PlateShape(left), NEW e, NEW cand, Covers(p, left, e, cand),
         NEW new, new = Pruned(p, left, cand)
  PROVE  /\ UseIsBound(p, new, e) /\ PlateShape(new)
         /\ Fits(left) => Fits(new)
         /\ DOMAIN new = DOMAIN left /\ new.id = left.id /\ new.printer = left.printer
         /\ new.objects = left.objects /\ new.mods = left.mods /\ new.over = left.over /\ new.groups = left.groups
<1>1. /\ DOMAIN new = DOMAIN left /\ new.id = left.id /\ new.printer = left.printer
      /\ new.objects = left.objects /\ new.mods = left.mods /\ new.over = left.over /\ new.groups = left.groups
      /\ new.slots = Without(left.slots, cand \ MaterialsOn(p, left))
  BY DEF PlateShape, Pruned
<1>2. DOMAIN new.slots = DOMAIN left.slots \ (cand \ MaterialsOn(p, left))
      /\ \A m \in DOMAIN new.slots : new.slots[m] = left.slots[m]
  BY <1>1 DEF Without
<1>3. MaterialsOn(p, new) = MaterialsOn(p, left) /\ (Bound(new) <=> Bound(left))
  BY <1>1 DEF MaterialsOn, ObjectsOn, Bound
<1>4. UseIsBound(p, new, e)
  BY <1>1, <1>2, <1>3 DEF UseIsBound, Covers
<1>5. PlateShape(new)
  BY <1>1, <1>2 DEF PlateShape
<1>6. Fits(left) => Fits(new)
  BY <1>1, <1>2 DEF Fits
<1> QED BY <1>1, <1>4, <1>5, <1>6

(* A plate whose objects keep their ids, meshes and groups. *)
SameObjects(plate, new) ==
  /\ DOMAIN new.objects = DOMAIN plate.objects
  /\ \A k \in DOMAIN plate.objects :
       /\ new.objects[k].id = plate.objects[k].id
       /\ new.objects[k].mesh = plate.objects[k].mesh
       /\ new.objects[k].group = plate.objects[k].group

LEMMA SameObjectsAre ==
  ASSUME NEW plate, NEW new, SameObjects(plate, new), new.mods = plate.mods
  PROVE  /\ IdsOn(new) = IdsOn(plate) /\ GroupsOn(new) = GroupsOn(plate) /\ Names(new) = Names(plate)
         /\ \A p : Resolves(p, plate) => Resolves(p, new)
<1>1. \A x : x \in IdsOn(new) <=> x \in IdsOn(plate)
  BY OnPlate DEF SameObjects
<1>2. \A x : x \in GroupsOn(new) <=> x \in GroupsOn(plate)
  BY OnPlate DEF SameObjects
<1>3. \A x : x \in Names(new) <=> x \in Names(plate)
  BY NamesIs DEF SameObjects
<1>4. IdsOn(new) = IdsOn(plate)
  BY <1>1
<1>5. \A p : Resolves(p, plate) => Resolves(p, new)
  BY <1>4 DEF SameObjects, Resolves
<1> QED BY <1>2, <1>3, <1>4, <1>5

LEMMA ObjectOnIs ==
  ASSUME NEW plate, \A j, k \in DOMAIN plate.objects : plate.objects[j].id = plate.objects[k].id => j = k,
         NEW k \in DOMAIN plate.objects
  PROVE  ObjectOn(plate, plate.objects[k].id) = plate.objects[k]
<1>1. \A o : o \in ObjectsOn(plate) <=> \E j \in DOMAIN plate.objects : o = plate.objects[j]
  BY OnPlate
<1>2. plate.objects[k] \in ObjectsOn(plate)
  BY <1>1
<1>3. \A o \in ObjectsOn(plate) : o.id = plate.objects[k].id => o = plate.objects[k]
  BY <1>1
<1> QED BY <1>2, <1>3 DEF ObjectOn

LEMMA SetMaterialKeeps ==
  ASSUME NEW s, NEW e, NEW c, NEW l, SessionOK(s, e, c, l),
         NEW id \in IdsOn(ActivePlate(s.project)), NEW mat \in Materials, NEW walk, walk \in Walks(ActivePlate(s.project).printer),
         NEW t, t = [s EXCEPT !.project = SetObjectMaterial(s.project, id, mat, walk)]
  PROVE  Result(s, t, e, c, l)
<1> DEFINE p == s.project
           a == p.active
           plate == p.plates[a]
           old == MaterialOf(ObjectOn(plate, id))
           set == EditObjects(plate, LAMBDA o : IF o.id = id THEN [o EXCEPT !.mat = mat] ELSE o)
           left == [set EXCEPT !.slots = EnsureSlot(@, mat, walk, << >>)]
           pruned == Pruned(p, left, {old})
           new == IF old = mat THEN left ELSE pruned
<1>1. /\ DocumentShape(p) /\ a \in DOMAIN p.plates /\ PlateShape(plate) /\ Resolves(p, plate)
      /\ PlateOK(p, plate, e, c, s.fresh) /\ s.fresh \in Nat
      /\ DocumentOK(p, e, c, l, s.fresh) /\ SelectionOK(p, s.selection)
      /\ ActivePlate(p) = plate /\ EditActive(p, left) = EditPlate(p, a, left)
  BY Active DEF SessionOK, DocumentOK
<1>2. SetObjectMaterial(p, id, mat, walk) =
        IF old = mat THEN EditPlate(p, a, left) ELSE PruneBindings(EditPlate(p, a, left), a, {old})
  <2>1. SetObjectMaterial(p, id, mat, walk) =
          IF MaterialOf(ObjectOn(ActivePlate(p), id)) = mat
          THEN EditActive(p, [EditObjects(ActivePlate(p), LAMBDA o : IF o.id = id THEN [o EXCEPT !.mat = mat] ELSE o)
                                EXCEPT !.slots = EnsureSlot(@, mat, walk, << >>)])
          ELSE PruneBindings(EditActive(p, [EditObjects(ActivePlate(p), LAMBDA o : IF o.id = id THEN [o EXCEPT !.mat = mat] ELSE o)
                                EXCEPT !.slots = EnsureSlot(@, mat, walk, << >>)]), p.active,
                             {MaterialOf(ObjectOn(ActivePlate(p), id))})
    BY Zenon DEF SetObjectMaterial
  <2>2. ActivePlate(p) = plate
    BY <1>1
  <2> HIDE DEF plate, p
  <2> QED BY <2>1, <2>2, <1>1
<1>3. /\ left.objects = [k \in DOMAIN plate.objects |-> IF plate.objects[k].id = id
                           THEN [plate.objects[k] EXCEPT !.mat = mat] ELSE plate.objects[k]]
      /\ DOMAIN left = DOMAIN plate
      /\ left.id = plate.id /\ left.printer = plate.printer
      /\ left.mods = plate.mods /\ left.slots = EnsureSlot(plate.slots, mat, walk, << >>)
  BY <1>1, Zenon DEF EditObjects, PlateShape
<1>4. walk \in Walks(plate.printer) /\ id \in IdsOn(plate)
  BY <1>1
<1> HIDE DEF left, set
<1>5. \A k \in DOMAIN plate.objects :
        /\ plate.objects[k] \in Objects /\ left.objects[k] \in Objects
        /\ left.objects[k].id = plate.objects[k].id
        /\ left.objects[k].mesh = plate.objects[k].mesh
        /\ left.objects[k].group = plate.objects[k].group
        /\ left.objects[k].mat = IF plate.objects[k].id = id THEN mat ELSE plate.objects[k].mat
  <2> TAKE k \in DOMAIN plate.objects
  <2> DEFINE o == plate.objects[k]
             n == left.objects[k]
  <2>1. o \in Objects
    BY <1>1, ShapeObjects
  <2>2. n = IF o.id = id THEN [o EXCEPT !.mat = mat] ELSE o
    BY <1>3, Zenon
  <2> HIDE DEF o, n
  <2>3. LET m == [o EXCEPT !.mat = mat]
        IN m \in Objects /\ m.id = o.id /\ m.mesh = o.mesh /\ m.mat = mat /\ m.group = o.group
    BY <2>1, ObjectEdits, Zenon
  <2>4. /\ o \in Objects /\ n \in Objects /\ n.id = o.id /\ n.mesh = o.mesh /\ n.group = o.group
        /\ n.mat = IF o.id = id THEN mat ELSE o.mat
    BY <2>1, <2>2, <2>3
  <2> QED BY <2>4 DEF o, n
<1>6. SameObjects(plate, left)
  BY <1>3, <1>5, Zenon DEF SameObjects
<1>7. left.objects \in Seq(Objects)
  <2>1. left.objects = [k \in DOMAIN plate.objects |-> left.objects[k]]
    BY <1>3, Zenon
  <2>2. plate.objects \in Seq(Objects) /\ \A k \in DOMAIN plate.objects : left.objects[k] \in Objects
    BY <1>1, <1>5, ShapeObjects, Zenon
  <2> HIDE DEF plate
  <2> QED BY <2>1, <2>2, Mapped, Zenon
<1>8. Grown(plate.slots, left.slots, {mat}, walk, << >>, SlotsOf(plate.printer))
  <2>1. walk \in Seq(SlotsOf(plate.printer))
    BY <1>1, <1>4, WalkIs DEF PlateShape
  <2> QED BY <2>1, <1>3, EnsuredIs, Zenon
<1>9. PlateShape(left)
  BY <1>1, <1>3, <1>7, <1>8, Zenon DEF PlateShape, Grown
<1>10. Fits(plate) => Fits(left)
  <2>1. plate.printer # Unbound => \A m \in DOMAIN << >> : << >>[m] \in AllSlots[plate.printer]
    OBVIOUS
  <2> QED BY <1>3, <1>4, <1>8, <2>1, FitsIs, Zenon
<1>11. MaterialOf([mat |-> mat]) = mat
  BY SceneAssumption DEF MaterialOf, NoMaterial
<1>12. /\ \A m \in MaterialsOn(p, left) : m \in MaterialsOn(p, plate) \/ m = mat
       /\ mat \in MaterialsOn(p, left)
       /\ \A m \in MaterialsOn(p, plate) : m \in MaterialsOn(p, left) \/ m = old
  <2> DEFINE N(k) == left.objects[k]
             O(k) == plate.objects[k]
  <2>1. \A k \in DOMAIN plate.objects :
          /\ N(k).mesh = O(k).mesh
          /\ MaterialOf(N(k)) = IF O(k).id = id THEN mat ELSE MaterialOf(O(k))
          /\ O(k).id = id => MaterialOf(O(k)) = old
    <3> TAKE k \in DOMAIN plate.objects
    <3>1. O(k).id = id => ObjectOn(plate, id) = O(k)
      BY <1>1, ObjectOnIs, Zenon DEF Resolves
    <3>2. mat # NoMaterial
      BY SceneAssumption DEF NoMaterial
    <3> QED BY <3>1, <3>2, <1>5 DEF MaterialOf
  <2>2. DOMAIN left.objects = DOMAIN plate.objects
    BY <1>3, Zenon
  <2>3. PICK j \in DOMAIN plate.objects : O(j).id = id
    BY <1>4, OnPlate
  <2> DEFINE Of(pl, m, k) == m = MaterialOf(pl.objects[k]) \/ m \in PaintOf(p, pl.objects[k].mesh)
  <2>4. /\ \A m : m \in MaterialsOn(p, plate) <=> \E k \in DOMAIN plate.objects : Of(plate, m, k)
        /\ \A m : m \in MaterialsOn(p, left) <=> \E k \in DOMAIN plate.objects : Of(left, m, k)
    BY <2>2, MaterialsAre
  <2>5. \A k \in DOMAIN plate.objects : \A m :
          /\ Of(left, m, k) => Of(plate, m, k) \/ m = mat
          /\ Of(plate, m, k) => Of(left, m, k) \/ m = old
    BY <2>1
  <2>6. Of(left, mat, j)
    BY <2>1, <2>3
  <2> HIDE DEF Of
  <2> QED BY <2>3, <2>4, <2>5, <2>6
<1>13. Covers(p, left, e, {old})
  <2>1. UseIsBound(p, plate, e)
    BY <1>1 DEF PlateOK
  <2>2. Bound(left) <=> Bound(plate)
    BY <1>3, Zenon DEF Bound
  <2>3. Bound(left) => mat \in DOMAIN left.slots
    <3>1. Bound(left) => walk # << >>
      BY <1>1, <1>3, <1>4, WalkIs DEF Bound, PlateShape
    <3> QED BY <1>8, <3>1, Zenon DEF Grown
  <2>4. DOMAIN plate.slots \subseteq DOMAIN left.slots /\ DOMAIN left.slots \subseteq DOMAIN plate.slots \cup {mat}
    BY <1>8 DEF Grown
  <2> HIDE DEF old
  <2> QED BY <1>3, <1>12, <2>1, <2>2, <2>3, <2>4, Zenon DEF Covers, UseIsBound
<1>14. /\ UseIsBound(p, pruned, e) /\ PlateShape(pruned)
       /\ Fits(left) => Fits(pruned)
       /\ DOMAIN pruned = DOMAIN left /\ pruned.id = left.id /\ pruned.printer = left.printer
       /\ pruned.objects = left.objects /\ pruned.mods = left.mods
  <2>1. PICK x : x = {old}
    OBVIOUS
  <2>2. pruned = Pruned(p, left, x)
    BY <2>1
  <2>3. Covers(p, left, e, x)
    BY <1>13, <2>1
  <2> HIDE DEF pruned, p
  <2> QED BY ONLY <1>9, <2>2, <2>3, PrunedUse
<1>15. old = mat => UseIsBound(p, left, e)
  BY <1>12, <1>13, Zenon DEF Covers, UseIsBound
<1>16. t.project = EditPlate(p, a, new) /\ DOMAIN t = DOMAIN s /\ t.cache = s.cache /\ t.selection = s.selection
       /\ t.fresh = s.fresh
  <2>1. PruneBindings(EditPlate(p, a, left), a, {old}) = EditPlate(p, a, pruned)
    <3>1. DocumentShape(p) /\ a \in DOMAIN p.plates /\ PlateShape(left)
      BY <1>1, <1>9
    <3> HIDE DEF old, p, a
    <3> QED BY ONLY <3>1, PrunedIs
  <2>2. t = [s EXCEPT !.project = EditPlate(p, a, new)]
    BY <2>1, <1>2
  <2> HIDE DEF new, p
  <2> QED BY <2>2 DEF SessionOK
<1> HIDE DEF pruned, old
<1>17. /\ UseIsBound(p, new, e) /\ PlateShape(new)
       /\ Fits(left) => Fits(new)
       /\ new.id = plate.id
       /\ new.objects = left.objects /\ new.mods = plate.mods
  BY <1>3, <1>9, <1>14, <1>15, Zenon
<1> HIDE DEF new
<1>18. SameObjects(plate, new)
  BY <1>6, <1>17, Zenon DEF SameObjects
<1>19. IdsOn(new) = IdsOn(plate) /\ GroupsOn(new) = GroupsOn(plate) /\ Names(new) = Names(plate) /\ Resolves(p, new)
  BY <1>1, <1>17, <1>18, SameObjectsAre
<1>20. PlateOK(p, new, e, c, s.fresh)
  BY <1>1, <1>10, <1>17, <1>19 DEF PlateOK
<1>21. Apart(p, a, new) /\ StillNamed(plate, new, l)
  <2>1. IdsApart(p) /\ GroupsApart(p)
    BY <1>1 DEF DocumentOK
  <2> QED BY <2>1, <1>1, <1>19 DEF Apart, IdsApart, GroupsApart, StillNamed
<1>22. SelectionOK(t.project, t.selection)
  <2>1. Changes(p, t.project, a) /\ t.project.plates[a] = new
    BY <1>1, <1>16, Edited
  <2>2. DOMAIN t.project.plates = DOMAIN p.plates
    BY <2>1 DEF Changes
  <2>3. \A i \in DOMAIN p.plates : t.project.plates[i].id = p.plates[i].id /\ IdsOn(p.plates[i]) \subseteq IdsOn(t.project.plates[i])
    BY <2>1, <1>17, <1>19 DEF Changes
  <2> HIDE DEF p
  <2> QED BY <2>2, <2>3, <1>1, <1>16, SelectionKept
<1>23. Allowing(e, c, l, s.fresh, e, c, l, s.fresh, new.id)
  BY <1>1, AllowingSame
<1>24. /\ SessionOK(s, e, c, l) /\ a \in DOMAIN s.project.plates
       /\ PlateOK(s.project, new, e, c, s.fresh) /\ new.id = s.project.plates[a].id
       /\ Apart(s.project, a, new) /\ StillNamed(s.project.plates[a], new, l)
       /\ DOMAIN t = DOMAIN s /\ t.project = EditPlate(s.project, a, new) /\ t.cache = s.cache /\ t.fresh = s.fresh
  BY <1>1, <1>16, <1>17, <1>20, <1>21
<1> HIDE DEF p, a, plate
<1> QED BY ONLY <1>22, <1>23, <1>24, PlateKeeps

-----------------------------------------------------------------------------
(* Objects come with their meshes. *)

(* What the objects are of is in the pool or comes along, and what comes along is used. *)
Placed(p, geoms, objs) ==
  LET new == NewMeshes(p, Len(geoms))
  IN /\ \A k \in DOMAIN objs : objs[k].mesh \in DOMAIN p.meshes \cup new
     /\ \A m \in new : \E k \in DOMAIN objs : m = objs[k].mesh

(* n meshes and m objects more. *)
More(p, q, n, m) ==
  /\ DOMAIN q = DOMAIN p /\ q.active = p.active /\ DOMAIN q.plates = DOMAIN p.plates
  /\ \A j \in DOMAIN p.plates : j # p.active => q.plates[j] = p.plates[j]
  /\ q.lastMesh = p.lastMesh + n /\ q.lastObject = p.lastObject + m
  /\ DOMAIN q.meshes = DOMAIN p.meshes \cup ((p.lastMesh + 1)..(p.lastMesh + n))
  /\ \A x \in DOMAIN p.meshes : q.meshes[x] = p.meshes[x]

(* The active plate has them. *)
Has(p, q, m) ==
  LET old == p.plates[p.active]
      new == q.plates[p.active]
  IN /\ DOMAIN new = DOMAIN old /\ new.id = old.id /\ new.printer = old.printer
     /\ new.mods = old.mods /\ new.over = old.over /\ new.groups = old.groups
     /\ IdsOn(new) = IdsOn(old) \cup ((p.lastObject + 1)..(p.lastObject + m))

(* Meshes may come first. *)
PooledBy(p, r, geoms) == r = RegisterMeshes(p, geoms) \/ (r = p /\ geoms = << >>)

(* With walk, q is r with objs, which is p with what geoms add to its pool. *)
Registering(p, geoms, objs, walk, r, q) ==
  walk \in Walks(p.plates[p.active].printer) /\ PooledBy(p, r, geoms) /\ q = RegisterObjects(r, objs, walk)

LEMMA ObjectsAdded ==
  ASSUME NEW p, NEW e, NEW c, NEW l, NEW f \in Nat, DocumentOK(p, e, c, l, f),
         NEW geoms, Meshes(geoms), NEW objs \in Seq(Objects),
         Placed(p, geoms, objs), NEW f2 \in Nat, f <= f2, Free(p, objs, f2),
         NEW r, NEW walk, NEW q, Registering(p, geoms, objs, walk, r, q)
  PROVE  /\ DocumentOK(q, e, c, l, f2) /\ More(p, q, Len(geoms), Len(objs)) /\ Has(p, q, Len(objs))
         /\ \A k \in DOMAIN geoms : q.meshes[p.lastMesh + k] = geoms[k]
<1> DEFINE new == NewMeshes(p, Len(geoms))
           l2 == l \cup new
<1>1. Len(geoms) \in Nat /\ DOMAIN geoms = 1..Len(geoms) /\ \A k \in DOMAIN geoms : MeshShape(geoms[k])
  BY DEF Meshes
<1>0. DocumentOK(r, e, c, l2, f) /\ Pooled(p, r, geoms)
  <2>1. l \subseteq l2 /\ NewMeshes(p, Len(geoms)) \subseteq l2
    OBVIOUS
  <2>2. CASE r = RegisterMeshes(p, geoms)
    <3> HIDE DEF l2, new
    <3> QED BY <2>1, <2>2, MeshesRegistered
  <2>3. CASE r = p /\ geoms = << >>
    <3>1. p.lastMesh \in Nat
      BY DEF DocumentOK, DocumentShape
    <3>2. Len(geoms) = 0 /\ NewMeshes(p, 0) = {} /\ DOMAIN geoms = {}
      BY <2>3, <3>1 DEF NewMeshes
    <3>3. Pooled(p, r, geoms)
      BY <2>3, <3>1, <3>2 DEF Pooled
    <3>4. l2 = l
      BY <3>2
    <3> QED BY <2>3, <3>3, <3>4
  <2> QED BY <2>2, <2>3 DEF Registering, PooledBy
<1>2. /\ DocumentOK(r, e, c, l2, f)
      /\ DOMAIN r = DOMAIN p /\ r.plates = p.plates /\ r.active = p.active
      /\ r.lastObject = p.lastObject /\ r.lastMesh = p.lastMesh + Len(geoms)
      /\ DOMAIN r.meshes = DOMAIN p.meshes \cup new
      /\ \A m \in DOMAIN p.meshes : r.meshes[m] = p.meshes[m]
      /\ \A k \in DOMAIN geoms : r.meshes[p.lastMesh + k] = geoms[k]
  BY <1>0 DEF Pooled
<1> HIDE DEF new, l2
<1>3. InPool(r, objs) /\ Free(r, objs, f2) /\ UsesUp(l2, l, objs)
  <2>1. \A k \in DOMAIN objs : objs[k].mesh \in DOMAIN r.meshes
    BY <1>2 DEF Placed, new
  <2>2. \A m \in l2 : m \in l \/ \E k \in DOMAIN objs : m = objs[k].mesh
    BY DEF Placed, new, l2
  <2> QED BY <1>2, <2>1, <2>2 DEF Free, InPool, UsesUp
<1>4. walk \in Walks(r.plates[r.active].printer) /\ q = RegisterObjects(r, objs, walk)
  BY <1>2 DEF Registering
<1>5. /\ DocumentOK(q, e, c, l, f2)
      /\ Changes(r, q, r.active) /\ q.lastObject = r.lastObject + Len(objs)
      /\ q.plates[r.active].id = r.plates[r.active].id
      /\ q.plates[r.active].printer = r.plates[r.active].printer
      /\ DOMAIN q.plates[r.active] = DOMAIN r.plates[r.active]
      /\ q.plates[r.active].mods = r.plates[r.active].mods
      /\ q.plates[r.active].over = r.plates[r.active].over
      /\ q.plates[r.active].groups = r.plates[r.active].groups
      /\ IdsOn(q.plates[r.active]) = IdsOn(r.plates[r.active]) \cup ((r.lastObject + 1)..q.lastObject)
  <2>1. DocumentOK(r, e, c, l2, f) /\ f \in Nat /\ f2 \in Nat /\ f <= f2 /\ objs \in Seq(Objects)
    BY <1>2
  <2> QED BY ONLY <2>1, <1>3, <1>4, ObjectsRegistered
<1>6. More(p, q, Len(geoms), Len(objs))
  BY <1>2, <1>5, Zenon DEF More, Changes, new, NewMeshes
<1>7. Has(p, q, Len(objs))
  BY <1>2, <1>5, Zenon DEF Has
<1>8. q.meshes = r.meshes
  BY <1>5, Zenon DEF Changes
<1> QED BY <1>2, <1>5, <1>6, <1>7, <1>8, Zenon

LEMMA MorePool ==
  ASSUME NEW p, DocumentShape(p), NEW q, NEW n \in Nat, NEW m, More(p, q, n, m)
  PROVE  PoolStep(p, q)
<1>1. p.lastMesh \in Nat
  BY DEF DocumentShape
<1> QED BY <1>1 DEF More, PoolStep

LEMMA CacheKept ==
  ASSUME NEW s, NEW t, t.cache = s.cache, NEW n, NEW m, More(s.project, t.project, n, m), CacheOK(s)
  PROVE  CacheOK(t)
BY DEF More, CacheOK

(* Groups made for them. *)
FreshGroups(objs, f, f2) ==
  \A k \in DOMAIN objs : objs[k].group = NoGroup \/ (objs[k].group > f /\ objs[k].group <= f2)

LEMMA FreshAreFree ==
  ASSUME NEW p, NEW e, NEW c, NEW l, NEW f \in Nat, DocumentOK(p, e, c, l, f), NEW objs \in Seq(Objects),
         NEW f2 \in Nat, FreshGroups(objs, f, f2)
  PROVE  Free(p, objs, f2)
<1>1. \A j \in DOMAIN p.plates : GroupsOn(p.plates[j]) \subseteq 1..f
  BY DEF DocumentOK, PlateOK
<1>2. \A k \in DOMAIN objs : objs[k].group \in Nat
  <2> TAKE k \in DOMAIN objs
  <2>1. objs[k] \in Objects
    OBVIOUS
  <2> QED BY <2>1 DEF Objects
<1> QED BY <1>1, <1>2 DEF FreshGroups, Free, NoGroup

LEMMA HasSelection ==
  ASSUME NEW p, NEW q, NEW n, NEW m, More(p, q, n, m), Has(p, q, m), p.active \in DOMAIN p.plates,
         NEW sel, SelectionOK(p, sel)
  PROVE  SelectionOK(q, sel)
<1>1. DOMAIN q.plates = DOMAIN p.plates
  BY DEF More
<1>2. \A i \in DOMAIN p.plates : q.plates[i].id = p.plates[i].id /\ IdsOn(p.plates[i]) \subseteq IdsOn(q.plates[i])
  BY DEF More, Has
<1> QED BY <1>1, <1>2, SelectionKept

Caching(s, t) == t.cache = s.cache \/ (CacheOK(s) => CacheOK(t))

AddsTo(s, t, geoms, objs, r, walk) ==
  /\ Meshes(geoms) /\ objs \in Seq(Objects) /\ Placed(s.project, geoms, objs) /\ PooledBy(s.project, r, geoms)
  /\ t.fresh \in Nat /\ s.fresh <= t.fresh /\ FreshGroups(objs, s.fresh, t.fresh)
  /\ DOMAIN t = DOMAIN s /\ t.selection = s.selection /\ Caching(s, t)
  /\ walk \in Walks(s.project.plates[s.project.active].printer) /\ t.project = RegisterObjects(r, objs, walk)

GainsAll(s, t, geoms, objs) ==
  /\ More(s.project, t.project, Len(geoms), Len(objs)) /\ Has(s.project, t.project, Len(objs))
  /\ \A k \in DOMAIN geoms : t.project.meshes[s.project.lastMesh + k] = geoms[k]

LEMMA AddKeeps ==
  ASSUME NEW s, NEW e, NEW c, NEW l, SessionOK(s, e, c, l),
         NEW geoms, NEW objs, NEW r, NEW walk, NEW t, AddsTo(s, t, geoms, objs, r, walk)
  PROVE  Result(s, t, e, c, l) /\ GainsAll(s, t, geoms, objs)
<1> DEFINE p == s.project
           q == t.project
           f == s.fresh
           f2 == t.fresh
<1>1. /\ DocumentShape(p) /\ DocumentOK(p, e, c, l, f) /\ f \in Nat /\ p.active \in DOMAIN p.plates
      /\ SelectionOK(p, s.selection) /\ Len(geoms) \in Nat
  BY Active DEF SessionOK, Meshes, AddsTo
<1> HIDE DEF p, q, f, f2
<1>2. /\ Registering(p, geoms, objs, walk, r, q)
      /\ Placed(p, geoms, objs) /\ f <= f2 /\ FreshGroups(objs, f, f2)
  BY DEF p, q, f, f2, Registering, AddsTo
<1>0. Meshes(geoms) /\ objs \in Seq(Objects) /\ f2 \in Nat
  BY DEF AddsTo, f2
<1>3. Free(p, objs, f2)
  BY <1>0, <1>1, <1>2, FreshAreFree
<1>4. /\ DocumentOK(q, e, c, l, f2) /\ More(p, q, Len(geoms), Len(objs)) /\ Has(p, q, Len(objs))
      /\ \A k \in DOMAIN geoms : q.meshes[p.lastMesh + k] = geoms[k]
  BY ONLY <1>0, <1>1, <1>2, <1>3, ObjectsAdded
<1>5. PoolStep(p, q)
  BY <1>1, <1>4, MorePool
<1>6. CacheOK(s) => CacheOK(t)
  BY <1>4, CacheKept, Zenon DEF p, q, Caching, AddsTo
<1>7. SelectionOK(q, s.selection)
  BY <1>1, <1>4, HasSelection
<1>8. SessionOK(t, e, c, l)
  BY <1>4, <1>7, Zenon DEF SessionOK, q, f2, AddsTo
<1>9. Result(s, t, e, c, l)
  BY <1>2, <1>5, <1>6, <1>8 DEF Result, p, q, f, f2
<1> QED BY <1>4, <1>9 DEF p, q, GainsAll

LEMMA LoadMeshKeeps ==
  ASSUME NEW s, NEW e, NEW c, NEW l, SessionOK(s, e, c, l), NEW geom, MeshShape(geom),
         NEW walk, walk \in Walks(ActivePlate(s.project).printer),
         NEW t, t = [s EXCEPT !.project = LoadMesh(s.project, geom, walk)]
  PROVE  Result(s, t, e, c, l)
<1> DEFINE p == s.project
           geoms == <<geom>>
           o == NewObject(p.lastMesh + 1, NoMaterial, NoGroup, 0)
           objs == <<o>>
<1>1. DocumentShape(p) /\ p.lastMesh \in Nat /\ s.fresh \in Nat /\ walk \in Walks(p.plates[p.active].printer)
  BY Active DEF SessionOK, DocumentShape
<1>2. t.project = RegisterObjects(RegisterMeshes(p, geoms), objs, walk)
      /\ DOMAIN t = DOMAIN s /\ t.cache = s.cache /\ t.selection = s.selection /\ t.fresh = s.fresh
  BY DEF SessionOK, LoadMesh
<1> HIDE DEF o, p
<1>3. o \in Objects /\ o.mesh = p.lastMesh + 1 /\ o.group = NoGroup
  <2>1. p.lastMesh + 1 \in Nat /\ NoMaterial \in Materials \cup {NoMaterial} /\ NoGroup \in Nat /\ 0 \in {0, 1}
    BY <1>1 DEF NoGroup
  <2> DEFINE m == p.lastMesh + 1
  <2>2. m \in Nat
    BY <2>1
  <2> HIDE DEF m
  <2>3. NewObject(m, NoMaterial, NoGroup, 0) \in Objects /\ NewObject(m, NoMaterial, NoGroup, 0).mesh = m
        /\ NewObject(m, NoMaterial, NoGroup, 0).group = NoGroup
    BY ONLY <2>1, <2>2 DEF NewObject, Objects
  <2> QED BY <2>3 DEF o, m
<1>4. objs \in Seq(Objects) /\ DOMAIN objs = 1..1 /\ objs[1] = o /\ Meshes(geoms) /\ Len(geoms) = 1
  BY <1>3 DEF Meshes
<1> HIDE DEF geoms, objs
<1>5. Placed(p, geoms, objs)
  <2>1. NewMeshes(p, Len(geoms)) = {p.lastMesh + 1}
    BY <1>1, <1>4 DEF NewMeshes
  <2> QED BY <1>3, <1>4, <2>1 DEF Placed
<1>6. FreshGroups(objs, s.fresh, s.fresh)
  BY <1>3, <1>4 DEF FreshGroups
<1>7. SessionOK(s, e, c, l) /\ s.fresh <= s.fresh
  BY <1>1
<1>8. PICK r : r = RegisterMeshes(p, geoms)
  OBVIOUS
<1>9. t.project = RegisterObjects(r, objs, walk) /\ PooledBy(p, r, geoms)
  BY <1>2, <1>8 DEF PooledBy
<1>10. AddsTo(s, t, geoms, objs, r, walk)
  BY <1>1, <1>2, <1>4, <1>5, <1>6, <1>9 DEF p, Caching, AddsTo
<1> QED BY <1>10, AddKeeps

LEMMA PrimitiveKeeps ==
  ASSUME NEW s, NEW e, NEW c, NEW l, SessionOK(s, e, c, l), NEW kind,
         NEW walk, walk \in Walks(ActivePlate(s.project).printer), ~ PrimitivePanics(s, kind),
         NEW t, t = AddFromPrimitive(s, kind, walk)
  PROVE  Result(s, t, e, c, l)
<1> DEFINE p == s.project
           hit == kind \in DOMAIN s.cache
           g == Geometry(kind, {})
           geoms == IF hit THEN << >> ELSE <<g>>
           r == IF hit THEN p ELSE RegisterMeshes(p, <<g>>)
           mesh == IF hit THEN s.cache[kind] ELSE r.lastMesh
           o == NewObject(mesh, NoMaterial, NoGroup, 0)
           objs == <<o>>
<1>1. /\ DocumentShape(p) /\ p.lastMesh \in Nat /\ s.fresh \in Nat /\ walk \in Walks(p.plates[p.active].printer)
      /\ \A m \in DOMAIN p.meshes : m \in Nat
  <2>1. DocumentShape(p) /\ walk \in Walks(p.plates[p.active].printer)
    BY Active
  <2>2. p.lastMesh \in Nat /\ s.fresh \in Nat
    BY <2>1 DEF SessionOK, DocumentShape
  <2>3. \A m \in DOMAIN p.meshes : m \in Nat
    BY <2>1, <2>2 DEF DocumentShape
  <2> QED BY <2>1, <2>2, <2>3
<1>2. /\ t.project = RegisterObjects(r, objs, walk) /\ t.cache = Put(s.cache, kind, mesh)
      /\ DOMAIN t = DOMAIN s /\ t.selection = s.selection /\ t.fresh = s.fresh
  <2>1. t = [s EXCEPT !.project = RegisterObjects(r, objs, walk), !.cache = Put(s.cache, kind, mesh)]
    BY Zenon DEF AddFromPrimitive
  <2> HIDE DEF r, objs, mesh
  <2> QED BY <2>1 DEF SessionOK
<1>3. MeshShape(g) /\ g.of = kind
  BY DEF Geometry, MeshShape
<1> HIDE DEF o, g
<1>4. /\ Meshes(geoms) /\ DOMAIN geoms = 1..Len(geoms)
      /\ hit => Len(geoms) = 0
      /\ ~ hit => Len(geoms) = 1 /\ geoms[1] = g
  <2>1. Meshes(<< >>) /\ Len(<< >>) = 0 /\ DOMAIN << >> = 1..0
    BY DEF Meshes
  <2>2. Meshes(<<g>>) /\ Len(<<g>>) = 1 /\ DOMAIN <<g>> = 1..1
    BY <1>3 DEF Meshes
  <2> QED BY <2>1, <2>2
<1>5. /\ hit => mesh \in DOMAIN p.meshes
      /\ ~ hit => mesh = p.lastMesh + 1
  <2>1. CASE hit
    BY <2>1 DEF PrimitivePanics
  <2>2. CASE ~ hit
    BY <2>2, <1>1, <1>4 DEF RegisterMeshes, DocumentShape
  <2> QED BY <2>1, <2>2
<1>6. PooledBy(p, r, geoms)
  BY DEF PooledBy
<1> HIDE DEF p, r, geoms, mesh
<1>7. mesh \in Nat
  BY <1>1, <1>5
<1>8. o \in Objects /\ o.mesh = mesh /\ o.group = NoGroup
  <2>1. NoGroup \in Nat
    BY DEF NoGroup
  <2> QED BY ONLY <1>7, <2>1 DEF o, NewObject, Objects
<1>9. objs \in Seq(Objects) /\ DOMAIN objs = 1..1 /\ objs[1] = o
  BY <1>8
<1> HIDE DEF objs, hit
<1>10. Placed(p, geoms, objs)
  <2>1. CASE hit
    <3>1. NewMeshes(p, Len(geoms)) = {}
      BY <2>1, <1>1, <1>4 DEF NewMeshes
    <3> QED BY <2>1, <3>1, <1>5, <1>8, <1>9 DEF Placed
  <2>2. CASE ~ hit
    <3>1. Len(geoms) = 1
      BY <2>2, <1>4
    <3>2. NewMeshes(p, 1) = {p.lastMesh + 1}
      BY <1>1 DEF NewMeshes
    <3> QED BY <2>2, <3>1, <3>2, <1>5, <1>8, <1>9 DEF Placed
  <2> QED BY <2>1, <2>2
<1>11. FreshGroups(objs, s.fresh, s.fresh)
  BY <1>8, <1>9 DEF FreshGroups
<1>12. AddsTo(s, [t EXCEPT !.cache = s.cache], geoms, objs, r, walk)
  BY <1>1, <1>2, <1>4, <1>6, <1>9, <1>10, <1>11 DEF p, Caching, AddsTo, SessionOK
<1> DEFINE u == [t EXCEPT !.cache = s.cache]
<1>13. u.project = t.project /\ u.selection = t.selection /\ u.fresh = t.fresh /\ DOMAIN u = DOMAIN t /\ u.cache = s.cache
  BY <1>2 DEF SessionOK
<1>14. Result(s, u, e, c, l) /\ GainsAll(s, u, geoms, objs)
  BY <1>12, AddKeeps
<1> HIDE DEF u
<1>15. ASSUME CacheOK(s) PROVE CacheOK(t)
  <2>1. /\ \A k \in DOMAIN s.cache : s.cache[k] \in DOMAIN t.project.meshes
                                    /\ t.project.meshes[s.cache[k]].of = k
    BY <1>13, <1>14, <1>15, Zenon DEF Result, CacheOK
  <2>2. mesh \in DOMAIN t.project.meshes /\ t.project.meshes[mesh].of = kind
    <3>1. CASE hit
      BY <2>1, <3>1 DEF mesh, hit
    <3>2. CASE ~ hit
      <4>1. /\ DOMAIN t.project.meshes = DOMAIN p.meshes \cup ((p.lastMesh + 1)..(p.lastMesh + 1))
            /\ t.project.meshes[p.lastMesh + 1] = g
        <5>1. Len(geoms) = 1 /\ geoms[1] = g /\ 1 \in DOMAIN geoms
          BY <3>2, <1>4
        <5>2. GainsAll(s, u, geoms, objs) /\ u.project = t.project
          BY <1>13, <1>14
        <5> QED BY ONLY <5>1, <5>2 DEF GainsAll, More, p
      <4> QED BY <3>2, <4>1, <1>1, <1>3, <1>5
    <3> QED BY <3>1, <3>2
  <2> QED BY <1>2, <2>1, <2>2 DEF CacheOK, Put
<1>16. SessionOK(t, e, c, l)
  BY <1>13, <1>14 DEF Result, SessionOK
<1> QED BY <1>13, <1>14, <1>15, <1>16 DEF Result

LEMMA ThreeMfKeeps ==
  ASSUME NEW s, NEW e, NEW c, NEW l, SessionOK(s, e, c, l), NEW geoms, Meshes(geoms),
         NEW grouped, NEW keys, NEW walk, walk \in Walks(ActivePlate(s.project).printer),
         NEW t, t = LoadThreeMf(s, geoms, grouped, keys, walk)
  PROVE  Result(s, t, e, c, l)
<1> DEFINE p == s.project
           g == IF grouped THEN s.fresh + 1 ELSE NoGroup
           objs == [k \in DOMAIN geoms |-> NewObject(p.lastMesh + k, NoMaterial, g, 1)]
           r == RegisterMeshes(p, geoms)
           loaded == RegisterObjects(r, objs, walk)
           plate == ActivePlate(loaded)
           ids == (p.lastObject + 1)..loaded.lastObject
           named == [plate EXCEPT !.groups = Put(@, g, keys)]
           own == [plate EXCEPT !.over = Added(@, ids, keys)]
           set == IF keys = {} THEN plate ELSE IF grouped THEN named ELSE own
           u == [s EXCEPT !.project = loaded, !.fresh = s.fresh + 1]
<1>1. /\ DocumentShape(p) /\ p.lastMesh \in Nat /\ s.fresh \in Nat /\ walk \in Walks(p.plates[p.active].printer)
  <2>1. DocumentShape(p) /\ walk \in Walks(p.plates[p.active].printer)
    BY Active
  <2>2. p.lastMesh \in Nat /\ s.fresh \in Nat
    BY <2>1 DEF SessionOK, DocumentShape
  <2> QED BY <2>1, <2>2
<1>2. Len(geoms) \in Nat /\ DOMAIN geoms = 1..Len(geoms)
  BY DEF Meshes
<1>3. t = [s EXCEPT !.project = EditActive(loaded, set), !.fresh = s.fresh + 1]
  BY Zenon DEF LoadThreeMf
<1>4. g \in Nat /\ (g = NoGroup \/ (g > s.fresh /\ g <= s.fresh + 1))
  BY <1>1 DEF NoGroup
<1>5. PooledBy(p, r, geoms)
  BY DEF PooledBy
<1> HIDE DEF loaded, r, p, g
<1>6. \A k \in DOMAIN geoms : objs[k] \in Objects /\ objs[k].mesh = p.lastMesh + k /\ objs[k].group = g
  <2> TAKE k \in DOMAIN geoms
  <2>1. objs[k] = NewObject(p.lastMesh + k, NoMaterial, g, 1)
    OBVIOUS
  <2> DEFINE m == p.lastMesh + k
  <2>2. m \in Nat
    BY <1>1, <1>2
  <2> HIDE DEF m, objs
  <2>3. objs[k] \in Objects /\ objs[k].mesh = m /\ objs[k].group = g
    BY <2>1, <2>2, <1>4 DEF NewObject, Objects, m
  <2> QED BY <2>3 DEF m
<1>7. objs = [k \in DOMAIN geoms |-> objs[k]]
  OBVIOUS
<1> HIDE DEF objs
<1>8. objs \in Seq(Objects) /\ DOMAIN objs = DOMAIN geoms
  BY <1>2, <1>6, <1>7
<1>9. Placed(p, geoms, objs)
  <2>1. \A m \in NewMeshes(p, Len(geoms)) : \E k \in DOMAIN objs : m = objs[k].mesh
    <3> TAKE m \in NewMeshes(p, Len(geoms))
    <3>1. m - p.lastMesh \in DOMAIN geoms /\ p.lastMesh + (m - p.lastMesh) = m
      BY <1>1, <1>2 DEF NewMeshes
    <3> QED BY <3>1, <1>6, <1>8
  <2>2. \A k \in DOMAIN objs : objs[k].mesh \in NewMeshes(p, Len(geoms))
    BY <1>1, <1>2, <1>6, <1>8 DEF NewMeshes
  <2> QED BY <2>1, <2>2 DEF Placed
<1>10. FreshGroups(objs, s.fresh, s.fresh + 1)
  BY <1>4, <1>6, <1>8 DEF FreshGroups
<1>11. u.project = loaded /\ u.selection = s.selection /\ u.cache = s.cache /\ u.fresh = s.fresh + 1 /\ DOMAIN u = DOMAIN s
  BY DEF SessionOK
<1> HIDE DEF u
<1>12. AddsTo(s, u, geoms, objs, r, walk)
  BY <1>1, <1>5, <1>8, <1>9, <1>10, <1>11 DEF p, Caching, AddsTo, loaded
<1>13. Result(s, u, e, c, l)
  BY <1>12, AddKeeps
<1>14. SessionOK(u, e, c, l)
  BY <1>13 DEF Result
<1> DEFINE a == loaded.active
<1>15. plate = loaded.plates[a] /\ a \in DOMAIN loaded.plates /\ PlateShape(plate)
       /\ EditActive(loaded, set) = EditPlate(loaded, a, set)
  BY <1>11, <1>14, Active
<1> HIDE DEF plate, a, ids
<1>16. \A new \in {plate, named, own} :
         /\ DOMAIN new = DOMAIN plate /\ new.id = plate.id /\ new.printer = plate.printer
         /\ new.mods = plate.mods /\ new.slots = plate.slots /\ new.objects = plate.objects
  BY <1>15 DEF PlateShape
<1>17. set \in {plate, named, own}
  OBVIOUS
<1>18. t = [u EXCEPT !.project = EditPlate(u.project, a, set)]
  <2> HIDE DEF set
  <2> QED BY <1>3, <1>11, <1>15 DEF u
<1> HIDE DEF set, named, own
<1>19. Result(u, t, e, c, l)
  BY <1>11, <1>14, <1>15, <1>16, <1>17, <1>18, SettingsOnlyKeep
<1> QED BY <1>13, <1>19, ResultTwice

-----------------------------------------------------------------------------
(* Connectors. *)

SameBut(plate, new) ==
  /\ DOMAIN new = DOMAIN plate /\ new.id = plate.id /\ new.printer = plate.printer
  /\ new.objects = plate.objects /\ new.slots = plate.slots

ModsGrow(p, plate, new) ==
  /\ DOMAIN new.mods \subseteq IdsOn(plate)
  /\ \A x \in DOMAIN new.mods : new.mods[x] \subseteq DOMAIN p.meshes
  /\ \A x \in DOMAIN plate.mods : x \in DOMAIN new.mods /\ new.mods[x] = plate.mods[x]

NamesUp(l, l2, new) == \A m \in l : m \in l2 \/ m \in Names(new)

LEMMA ModsChanged ==
  ASSUME NEW p, NEW e, NEW c, NEW l, NEW f \in Nat, DocumentOK(p, e, c, l, f), NEW i \in DOMAIN p.plates,
         NEW new, SameBut(p.plates[i], new), ModsGrow(p, p.plates[i], new),
         NEW l2, NamesUp(l, l2, new), NEW q, q = EditPlate(p, i, new)
  PROVE  DocumentOK(q, e, c, l2, f) /\ Changes(p, q, i) /\ q.plates[i] = new /\ IdsOn(new) = IdsOn(p.plates[i])
<1> DEFINE plate == p.plates[i]
<1>1. DocumentShape(p) /\ PlateOK(p, plate, e, c, f)
  BY DEF DocumentOK
<1>2. Changes(p, q, i) /\ q.plates[i] = new /\ q.lastObject = p.lastObject
  BY <1>1, Edited
<1>3. q.meshes = p.meshes
  BY <1>2 DEF Changes
<1>0. SameBut(plate, new) /\ ModsGrow(p, plate, new)
  OBVIOUS
<1> HIDE DEF plate
<1>4. ObjectsOn(new) = ObjectsOn(plate)
  BY <1>0 DEF SameBut, ObjectsOn
<1>5. IdsOn(new) = IdsOn(plate) /\ GroupsOn(new) = GroupsOn(plate)
  BY <1>4 DEF IdsOn, GroupsOn, GroupsOf
<1>6. MaterialsOn(q, new) = MaterialsOn(p, plate)
  BY <1>3, <1>4 DEF MaterialsOn, PaintOf
<1>7. PlateShape(new)
  BY <1>0, <1>1 DEF PlateOK, PlateShape, SameBut
<1>8. Resolves(q, new)
  <2>1. Resolves(p, plate)
    BY <1>1 DEF PlateOK
  <2> QED BY <2>1, <1>0, <1>2, <1>3, <1>5 DEF Resolves, SameBut, ModsGrow
<1>9. UseIsBound(q, new, e)
  <2>1. UseIsBound(p, plate, e)
    BY <1>1 DEF PlateOK
  <2>2. Bound(new) <=> Bound(plate)
    BY <1>0 DEF Bound, SameBut
  <2> QED BY <2>1, <2>2, <1>0, <1>6 DEF UseIsBound, SameBut
<1>10. PlateOK(q, new, e, c, f)
  BY <1>0, <1>1, <1>5, <1>7, <1>8, <1>9 DEF PlateOK, Fits, SameBut
<1>11. Apart(p, i, new)
  <2>1. IdsApart(p) /\ GroupsApart(p)
    BY DEF DocumentOK
  <2> QED BY <1>5, <2>1 DEF Apart, IdsApart, GroupsApart, plate
<1>12. \A m \in Names(plate) : m \in Names(new)
  BY <1>0, NamesIs DEF SameBut, ModsGrow
<1>13. DocumentOK(q, e, c, l, f)
  <2>1. StillNamed(p.plates[i], new, l)
    BY <1>12 DEF StillNamed, plate
  <2>2. Allowing(e, c, l, f, e, c, l, f, new.id) /\ new.id = p.plates[i].id
    BY <1>0, AllowingSame DEF SameBut, plate
  <2>3. DocumentOK(p, e, c, l, f) /\ i \in DOMAIN p.plates /\ f \in Nat
    OBVIOUS
  <2> QED BY ONLY <1>2, <1>10, <1>11, <2>1, <2>2, <2>3, ChangeKeeps
<1>14. DOMAIN q.meshes \subseteq Referenced(q) \cup l2
  <2> SUFFICES ASSUME NEW m \in DOMAIN q.meshes, m \notin l2 PROVE m \in Referenced(q)
    OBVIOUS
  <2>1. m \in Referenced(q) \/ m \in l
    BY <1>13 DEF DocumentOK
  <2>2. ASSUME m \in l PROVE m \in Referenced(q)
    <3>1. m \in Names(q.plates[i])
      BY <2>2, <1>2 DEF NamesUp
    <3>2. i \in DOMAIN q.plates
      BY <1>2 DEF Changes
    <3> QED BY <3>1, <3>2, ReferencedIs
  <2> QED BY <2>1, <2>2
<1> QED BY <1>2, <1>5, <1>13, <1>14 DEF DocumentOK, plate

-----------------------------------------------------------------------------
(* Duplicating. *)

LEMMA RankIs ==
  ASSUME NEW S, IsFiniteSet(S), NEW g \in S, g <= g
  PROVE  Rank(S, g) \in 1..Cardinality(S)
<1> DEFINE T == {h \in S : h <= g}
<1>1. T \subseteq S /\ g \in T
  OBVIOUS
<1>2. IsFiniteSet(T) /\ Cardinality(T) <= Cardinality(S)
  BY <1>1, FS_Subset
<1>3. Cardinality(T) # 0
  BY <1>1, <1>2, FS_EmptySet
<1>4. Cardinality(T) \in Nat /\ Cardinality(S) \in Nat
  BY <1>2, FS_CardinalityType
<1> QED BY <1>2, <1>3, <1>4 DEF Rank

(* The groups of a sequence of objects. *)
GroupsAmong(objs) == {objs[k].group : k \in DOMAIN objs} \ {NoGroup}

LEMMA GroupsAreFinite ==
  ASSUME NEW objs \in Seq(Objects)
  PROVE  /\ IsFiniteSet(GroupsAmong(objs)) /\ Cardinality(GroupsAmong(objs)) \in Nat
         /\ GroupsAmong(objs) \subseteq Nat
<1> DEFINE n == Len(objs)
           all == {objs[k].group : k \in 1..n}
<1>1. n \in Nat /\ DOMAIN objs = 1..n
  OBVIOUS
<1>2. IsFiniteSet(1..n)
  BY <1>1, FS_Interval
<1>3. IsFiniteSet(all)
  <2> DEFINE g == [k \in 1..n |-> objs[k].group]
  <2>1. g \in [1..n -> all] /\ \A t \in all : \E k \in 1..n : g[k] = t
    OBVIOUS
  <2>2. g \in Surjection(1..n, all)
    BY <2>1 DEF Surjection
  <2> QED BY <1>2, <2>2, FS_Surjection
<1>4. GroupsAmong(objs) \subseteq all
  BY <1>1 DEF GroupsAmong
<1>5. IsFiniteSet(GroupsAmong(objs))
  BY <1>3, <1>4, FS_Subset
<1>6. \A k \in DOMAIN objs : objs[k].group \in Nat
  <2> TAKE k \in DOMAIN objs
  <2>1. objs[k] \in Objects
    OBVIOUS
  <2> QED BY <2>1 DEF Objects
<1>7. GroupsAmong(objs) \subseteq Nat
  BY <1>6 DEF GroupsAmong
<1> QED BY <1>5, <1>7, FS_CardinalityType

(* What is copied has its meshes in the pool, which stays as it is. *)
Copyable(s, src) == src \in Seq(Objects) /\ InPool(s.project, src)

PoolSame(s, t) ==
  /\ DOMAIN t.project.meshes = DOMAIN s.project.meshes /\ t.project.active = s.project.active
  /\ t.project.plates[t.project.active].printer = s.project.plates[s.project.active].printer

LEMMA CloneOnceKeeps ==
  ASSUME NEW s, NEW e, NEW c, NEW l, SessionOK(s, e, c, l), NEW src, Copyable(s, src),
         NEW walk, walk \in Walks(s.project.plates[s.project.active].printer), NEW t, t = CloneOnce(s, src, walk)
  PROVE  Result(s, t, e, c, l) /\ PoolSame(s, t)
<1> DEFINE p == s.project
           gs == GroupsAmong(src)
           remap(g) == IF g = NoGroup THEN NoGroup ELSE s.fresh + Rank(gs, g)
           copies == [k \in DOMAIN src |-> [src[k] EXCEPT !.group = remap(@)]]
           added == RegisterObjects(p, copies, walk)
           plate == ActivePlate(added)
           carried == gs \cap DOMAIN plate.groups
           settings == [n \in {remap(g) : g \in carried} |-> plate.groups[CHOOSE g \in carried : remap(g) = n]]
           over == CopyKeys(plate.over, src, p.lastObject)
           mods == CopyKeys(plate.mods, src, p.lastObject)
           groups == Over(settings, plate.groups)
           new == [plate EXCEPT !.over = over, !.mods = mods, !.groups = groups]
           f2 == s.fresh + Cardinality(gs)
           u == [s EXCEPT !.fresh = f2, !.project = added]
<1>1. t = [s EXCEPT !.fresh = f2, !.project = EditActive(added, new)]
  BY Zenon DEF CloneOnce, GroupsAmong
<1>2. src \in Seq(Objects) /\ InPool(p, src) /\ s.fresh \in Nat /\ p.lastObject \in Nat /\ DocumentShape(p)
  <2>1. DocumentShape(p)
    BY Active
  <2> QED BY <2>1 DEF SessionOK, Copyable, DocumentShape
<1>3. IsFiniteSet(gs) /\ Cardinality(gs) \in Nat /\ gs \subseteq Nat
  BY <1>2, GroupsAreFinite
<1>4. f2 \in Nat /\ s.fresh <= f2
  BY <1>2, <1>3
<1>5. \A k \in DOMAIN src : /\ src[k] \in Objects /\ copies[k] \in Objects /\ copies[k].mesh = src[k].mesh
                            /\ copies[k].group = NoGroup \/ (copies[k].group > s.fresh /\ copies[k].group <= f2)
  <2> TAKE k \in DOMAIN src
  <2> DEFINE o == src[k]
             h == remap(o.group)
  <2>1. o \in Objects
    BY <1>2
  <2>2. copies[k] = [o EXCEPT !.group = h]
    OBVIOUS
  <2>3. h \in Nat /\ (h = NoGroup \/ (h > s.fresh /\ h <= f2))
    <3>1. CASE o.group = NoGroup
      BY <3>1 DEF NoGroup
    <3>2. CASE o.group # NoGroup
      <4>1. o.group \in gs
        BY <3>2 DEF GroupsAmong
      <4>2. o.group <= o.group
        <5>1. o.group \in Nat
          BY <2>1 DEF Objects
        <5> QED BY <5>1
      <4>3. Rank(gs, o.group) \in 1..Cardinality(gs)
        <5> HIDE DEF gs, o
        <5> QED BY <4>1, <4>2, <1>3, RankIs
      <4> DEFINE n == Rank(gs, o.group)
      <4>4. h = s.fresh + n
        BY <3>2
      <4> HIDE DEF n, h, gs
      <4>5. n \in 1..Cardinality(gs)
        BY <4>3 DEF n
      <4> QED BY <4>4, <4>5, <1>2, <1>3
    <3> QED BY <3>1, <3>2
  <2> HIDE DEF o, h, copies
  <2>4. LET x == [o EXCEPT !.group = h]
        IN x \in Objects /\ x.id = o.id /\ x.mesh = o.mesh /\ x.mat = o.mat /\ x.group = h
    BY <2>1, <2>3, ObjectEdits
  <2> QED BY <2>1, <2>2, <2>3, <2>4 DEF o
<1>6. copies = [k \in DOMAIN src |-> copies[k]]
  OBVIOUS
<1> HIDE DEF copies, f2, gs
<1>7. copies \in Seq(Objects) /\ DOMAIN copies = DOMAIN src /\ Len(copies) = Len(src)
  BY <1>2, <1>5, <1>6, Mapped
<1>8. FreshGroups(copies, s.fresh, f2)
  BY <1>5, <1>7 DEF FreshGroups
<1>9. Placed(p, << >>, copies) /\ Meshes(<< >>) /\ PooledBy(p, p, << >>)
  <2>1. \A k \in DOMAIN copies : copies[k].mesh \in DOMAIN p.meshes
    BY <1>2, <1>5, <1>7 DEF InPool
  <2>2. p.lastMesh \in Nat
    BY <1>2 DEF DocumentShape
  <2>3. NewMeshes(p, Len(<< >>)) = {}
    BY <2>2 DEF NewMeshes
  <2> QED BY <2>1, <2>3 DEF Placed, Meshes, PooledBy
<1> HIDE DEF added
<1>10. u.project = added /\ u.selection = s.selection /\ u.cache = s.cache /\ u.fresh = f2 /\ DOMAIN u = DOMAIN s
  BY DEF SessionOK
<1> HIDE DEF u, p
<1>11. AddsTo(s, u, << >>, copies, p, walk)
  BY <1>4, <1>7, <1>8, <1>9, <1>10 DEF p, Caching, AddsTo, added
<1>12. Result(s, u, e, c, l) /\ GainsAll(s, u, << >>, copies)
  BY <1>11, AddKeeps
<1>13. SessionOK(u, e, c, l)
  BY <1>12 DEF Result
<1> DEFINE a == added.active
           old == p.plates[a]
<1>14. plate = added.plates[a] /\ a \in DOMAIN added.plates /\ PlateShape(plate) /\ DocumentOK(added, e, c, l, f2)
       /\ EditActive(added, new) = EditPlate(added, a, new) /\ f2 \in Nat
  BY <1>4, <1>10, <1>13, Active DEF SessionOK
<1>15. a = p.active /\ DOMAIN added.meshes = DOMAIN p.meshes
  <2>1. More(p, added, Len(<< >>), Len(copies))
    BY <1>10, <1>12 DEF GainsAll, p
  <2>2. p.lastMesh \in Nat
    BY <1>2 DEF DocumentShape
  <2>3. (p.lastMesh + 1)..(p.lastMesh + Len(<< >>)) = {}
    BY <2>2
  <2> QED BY <2>1, <2>3 DEF More
<1>16. /\ plate.mods = old.mods /\ plate.printer = old.printer
       /\ IdsOn(plate) = IdsOn(old) \cup ((p.lastObject + 1)..(p.lastObject + Len(src)))
  BY <1>7, <1>10, <1>12, <1>14, <1>15, Zenon DEF GainsAll, Has, p
<1> HIDE DEF plate, a, over, mods, groups
<1>17. /\ DOMAIN new = DOMAIN plate /\ new.id = plate.id /\ new.printer = plate.printer
       /\ new.mods = mods /\ new.slots = plate.slots /\ new.objects = plate.objects
  BY <1>14 DEF PlateShape
<1> HIDE DEF new
<1>18. SameBut(plate, new)
  BY <1>17 DEF SameBut
<1>19. ModsGrow(added, plate, new)
  <2> DEFINE f == plate.mods
             first == p.lastObject
             add == {first + k : k \in {j \in DOMAIN src : src[j].id \in DOMAIN f}}
             g == [n \in add |-> f[src[n - first].id]]
  <2>1. new.mods = Over(g, f)
    BY <1>17 DEF mods, CopyKeys
  <2>2. DOMAIN f \subseteq IdsOn(old) /\ IdsOn(old) \subseteq 1..first
    <3>1. Resolves(p, old)
      BY <1>14, <1>15, Active DEF p
    <3> QED BY <3>1, <1>16, OnPlate DEF Resolves
  <2>3. add \subseteq (first + 1)..(first + Len(src))
    BY <1>2
  <2>4. \A x \in DOMAIN f : f[x] \subseteq DOMAIN added.meshes
    <3>1. Resolves(added, plate)
      BY <1>14 DEF DocumentOK, PlateOK
    <3> QED BY <3>1 DEF Resolves
  <2>5. \A n \in add : g[n] \subseteq DOMAIN added.meshes
    <3> TAKE n \in add
    <3>1. PICK k \in DOMAIN src : n = first + k /\ src[k].id \in DOMAIN f
      OBVIOUS
    <3>2. n - first = k
      BY <3>1, <1>2
    <3> HIDE DEF f, add
    <3>3. g[n] = f[src[k].id]
      BY <3>2
    <3> QED BY <3>1, <3>3, <2>4
  <2>6. DOMAIN g = add
    OBVIOUS
  <2> HIDE DEF add, g, f, first
  <2>7. \A x \in DOMAIN f : x \notin add
    <3>1. first \in Nat
      BY <1>2 DEF first
    <3>2. (1..first) \cap ((first + 1)..(first + Len(src))) = {}
      BY <3>1
    <3> QED BY <3>2, <2>2, <2>3
  <2>8. /\ DOMAIN new.mods = DOMAIN f \cup add
        /\ \A x \in DOMAIN f : new.mods[x] = f[x]
        /\ \A x \in add : new.mods[x] = g[x]
    BY <2>1, <2>6, <2>7 DEF Over
  <2>9. DOMAIN new.mods \subseteq IdsOn(plate)
    BY <2>2, <2>3, <2>8, <1>16 DEF first
  <2>10. \A x \in DOMAIN new.mods : new.mods[x] \subseteq DOMAIN added.meshes
    BY <2>4, <2>5, <2>8
  <2> QED BY <2>8, <2>9, <2>10 DEF ModsGrow, f
<1>20. NamesUp(l, l, new)
  BY DEF NamesUp
<1> DEFINE q == EditPlate(added, a, new)
<1>21. DocumentOK(q, e, c, l, f2) /\ Changes(added, q, a) /\ q.plates[a] = new /\ IdsOn(new) = IdsOn(plate)
  <2>1. SameBut(added.plates[a], new) /\ ModsGrow(added, added.plates[a], new)
    BY <1>14, <1>18, <1>19
  <2>2. IdsOn(added.plates[a]) = IdsOn(plate)
    BY <1>14
  <2> QED BY <2>1, <2>2, <1>14, <1>20, ModsChanged
<1>22. t.project = q /\ DOMAIN t = DOMAIN s /\ t.cache = s.cache /\ t.selection = s.selection /\ t.fresh = f2
  <2> HIDE DEF q
  <2> QED BY <1>1, <1>14 DEF SessionOK, q
<1> HIDE DEF q
<1>23. Edits(u, t, a)
  BY <1>10, <1>14, <1>17, <1>21, <1>22 DEF Edits
<1>24. Result(u, t, e, c, l)
  BY <1>13, <1>21, <1>22, <1>23, EditKeeps
<1>25. Result(s, t, e, c, l)
  BY <1>12, <1>24, ResultTwice
<1>26. PoolSame(s, t)
  BY <1>15, <1>16, <1>17, <1>21, <1>22 DEF PoolSame, Changes, a, p
<1> QED BY <1>25, <1>26

LEMMA ResultSelf ==
  ASSUME NEW s, NEW e, NEW c, NEW l, SessionOK(s, e, c, l)
  PROVE  Result(s, s, e, c, l)
<1>1. DocumentShape(s.project) /\ s.fresh \in Nat
  BY Active DEF SessionOK
<1>2. PoolStep(s.project, s.project)
  BY <1>1, PoolStays
<1> QED BY <1>1, <1>2 DEF Result

LEMMA PoolSameTwice ==
  ASSUME NEW s, NEW t, NEW u, PoolSame(s, t), PoolSame(t, u)
  PROVE  PoolSame(s, u)
BY DEF PoolSame

LEMMA CloneTimesKeeps ==
  ASSUME NEW s, NEW e, NEW c, NEW l, SessionOK(s, e, c, l), NEW src, Copyable(s, src), NEW times \in Nat,
         NEW walk, walk \in Walks(s.project.plates[s.project.active].printer),
         NEW t, t = CloneTimes(s, src, times, walk)
  PROVE  Result(s, t, e, c, l) /\ PoolSame(s, t)
<1> DEFINE n == times
           base == s
           next(v, k) == CloneOnce(v, src, walk)
           Good(v, m) == Result(s, v, e, c, l) /\ PoolSame(s, v)
<1>1. n \in Nat
  OBVIOUS
<1> DEFINE Runs(f, m) == /\ f = [i \in 0..m |-> f[i]]
                         /\ f[0] = base /\ \A i \in 1..m : f[i] = next(f[i - 1], i)
           T == {m \in 0..n : \E f : Runs(f, m)}
<1>2. PICK f : Runs(f, n)
  <2> HIDE DEF next, n, base
  <2>1. 0 \in T
    <3> DEFINE g == [i \in 0..0 |-> base]
    <3>1. g = [i \in 0..0 |-> g[i]] /\ g[0] = base /\ \A i \in 1..0 : FALSE
      OBVIOUS
    <3>2. Runs(g, 0)
      BY <3>1
    <3>3. 0 \in 0..n
      BY <1>1
    <3> HIDE DEF Runs
    <3> QED BY <3>2, <3>3
  <2>2. ASSUME NEW m \in 1..n, m - 1 \in T PROVE m \in T
    <3>1. PICK f : Runs(f, m - 1)
      BY <2>2
    <3> DEFINE g == [i \in 0..m |-> IF i = m THEN next(f[m - 1], m) ELSE f[i]]
    <3>2. g = [i \in 0..m |-> g[i]] /\ g[0] = base
      BY <3>1, <1>1
    <3>3. ASSUME NEW i \in 1..m PROVE g[i] = next(g[i - 1], i)
      <4>1. g[i - 1] = f[i - 1] /\ i \in 0..m
        BY <1>1
      <4>2. i # m => i \in 1..(m - 1) /\ g[i] = f[i]
        BY <1>1, <4>1
      <4> QED BY <3>1, <4>1, <4>2
    <3>4. Runs(g, m)
      BY <3>2, <3>3
    <3>5. m \in 0..n
      BY <1>1
    <3> HIDE DEF Runs
    <3> QED BY <3>4, <3>5
  <2> HIDE DEF T
  <2>3. n \in T
    <3>1. \A i \in 0..n : i \in T
      BY <1>1, <2>1, <2>2, UpTo, Zenon
    <3> QED BY <3>1, <1>1
  <2> QED BY <2>3 DEF T
<1> HIDE DEF T
<1>3. t = f[n]
  <2> DEFINE run == CHOOSE h : h = [k \in 0..n |-> IF k = 0 THEN base ELSE next(h[k - 1], k)]
  <2>1. f = [k \in 0..n |-> IF k = 0 THEN base ELSE next(f[k - 1], k)]
    <3> HIDE DEF n, next, base
    <3>1. \A k \in 0..n : f[k] = IF k = 0 THEN base ELSE next(f[k - 1], k)
      <4> TAKE k \in 0..n
      <4>1. k # 0 => k \in 1..n
        BY <1>1
      <4> QED BY <1>2, <4>1
    <3>2. f = [k \in 0..n |-> f[k]]
      BY <1>2, Zenon
    <3> QED BY <3>1, <3>2, Zenon
  <2>2. run = [k \in 0..n |-> IF k = 0 THEN base ELSE next(run[k - 1], k)]
    <3> HIDE DEF n, next, base
    <3> QED BY <2>1, Zenon
  <2>3. t = run[n]
    BY Zenon DEF CloneTimes
  <2> DEFINE U == {m \in 0..n : run[m] = f[m]}
  <2> HIDE DEF run, n, next, base
  <2>4. 0 \in U
    BY <2>1, <2>2, <1>1
  <2>5. ASSUME NEW m \in 1..n, m - 1 \in U PROVE m \in U
    <3>1. m \in 0..n /\ m # 0 /\ run[m - 1] = f[m - 1]
      BY <2>5, <1>1
    <3> QED BY <3>1, <2>1, <2>2
  <2> HIDE DEF U
  <2>6. \A i \in 0..n : i \in U
    BY <1>1, <2>4, <2>5, UpTo, Zenon
  <2>7. n \in 0..n
    BY <1>1
  <2> QED BY <2>3, <2>6, <2>7 DEF U
<1> DEFINE G == {m \in 0..n : Good(f[m], m)}
<1>4. 0 \in G
  <2>1. f[0] = s
    BY <1>2
  <2>2. Result(s, s, e, c, l) /\ PoolSame(s, s)
    BY ResultSelf DEF PoolSame
  <2>3. Good(f[0], 0)
    BY <2>1, <2>2
  <2> HIDE DEF Good, Runs
  <2> QED BY <2>3, <1>1
<1>5. ASSUME NEW m \in 1..n, m - 1 \in G PROVE m \in G
  <2> DEFINE v == f[m - 1]
             w == f[m]
  <2>1. Result(s, v, e, c, l) /\ PoolSame(s, v)
    BY <1>5
  <2>2. w = CloneOnce(v, src, walk)
    BY <1>1, <1>2
  <2> HIDE DEF v, w
  <2>3. SessionOK(v, e, c, l)
    BY <2>1 DEF Result
  <2>4. Copyable(v, src) /\ walk \in Walks(v.project.plates[v.project.active].printer)
    BY <2>1 DEF PoolSame, Copyable, InPool
  <2>5. Result(v, w, e, c, l) /\ PoolSame(v, w)
    BY <2>2, <2>3, <2>4, CloneOnceKeeps
  <2>6. Result(s, w, e, c, l)
    BY <2>1, <2>5, ResultTwice
  <2>7. PoolSame(s, w)
    BY <2>1, <2>5, PoolSameTwice
  <2>8. Good(f[m], m)
    BY <2>6, <2>7 DEF w
  <2>9. m \in 0..n
    BY <1>1
  <2> HIDE DEF Good, Runs
  <2> QED BY <2>8, <2>9
<1> HIDE DEF G, Runs, n
<1>6. Good(f[n], n)
  <2>1. \A i \in 0..n : i \in G
    BY <1>1, <1>4, <1>5, UpTo, Zenon
  <2>2. n \in 0..n
    BY <1>1
  <2> QED BY <2>1, <2>2 DEF G
<1> QED BY <1>3, <1>6 DEF n

-----------------------------------------------------------------------------
(* Deleting. *)

(* Meshes nothing refers to any more leave the pool, and the cache. *)
LEMMA PruneKeeps ==
  ASSUME NEW s, NEW e, NEW c, NEW l, NEW cand, SessionOK(s, e, c, l \cup cand),
         NEW t, t = PruneMeshes(s, cand)
  PROVE  Result(s, t, e, c, l)
<1> DEFINE p == s.project
           gone == cand \ Referenced(p)
           kept == Without(p.meshes, gone)
           q == [p EXCEPT !.meshes = kept]
           cache == Without(s.cache, {k \in DOMAIN s.cache : s.cache[k] \in gone})
<1>1. t = [s EXCEPT !.project = q, !.cache = cache]
  BY Zenon DEF PruneMeshes
<1>2. DocumentShape(p) /\ s.fresh \in Nat /\ DocumentOK(p, e, c, l \cup cand, s.fresh) /\ SelectionOK(p, s.selection)
      /\ DOMAIN s = {"project", "selection", "cache", "fresh"}
  BY Active DEF SessionOK
<1>3. /\ DOMAIN t = DOMAIN s /\ t.project = q /\ t.cache = cache /\ t.selection = s.selection /\ t.fresh = s.fresh
  BY <1>1, <1>2
<1>4. /\ DOMAIN q = DOMAIN p /\ q.plates = p.plates /\ q.active = p.active /\ q.lastObject = p.lastObject
      /\ q.lastMesh = p.lastMesh /\ q.meshes = kept
  BY <1>2 DEF DocumentShape
<1>5. DOMAIN kept = DOMAIN p.meshes \ gone /\ \A m \in DOMAIN kept : kept[m] = p.meshes[m]
  BY DEF Without
<1> HIDE DEF q, kept
<1>6. \A m \in DOMAIN q.meshes : m \in 1..q.lastMesh /\ MeshShape(q.meshes[m])
  BY <1>2, <1>4, <1>5 DEF DocumentShape, MeshShape
<1>7. \A m \in DOMAIN p.meshes : m \in Referenced(p) => m \in DOMAIN q.meshes /\ q.meshes[m].paint = p.meshes[m].paint
  BY <1>4, <1>5
<1>8. \A m \in DOMAIN q.meshes : m \in Referenced(p) \cup l
  BY <1>2, <1>4, <1>5 DEF DocumentOK
<1>9. q.lastMesh \in Nat /\ q.lastMesh >= p.lastMesh
  BY <1>2, <1>4 DEF DocumentShape
<1>10. DocumentOK(q, e, c, l, s.fresh)
  <2> HIDE DEF gone, p
  <2> QED BY <1>2, <1>4, <1>6, <1>7, <1>8, <1>9, PoolChanged
<1>11. PoolStep(p, q)
  BY <1>4, <1>5, <1>9 DEF PoolStep
<1>12. SelectionOK(q, s.selection)
  <2>1. \A i \in DOMAIN p.plates : q.plates[i].id = p.plates[i].id /\ IdsOn(p.plates[i]) \subseteq IdsOn(q.plates[i])
    BY <1>4
  <2> HIDE DEF p, gone
  <2> QED BY <1>2, <1>4, <2>1, SelectionKept
<1>13. ASSUME CacheOK(s) PROVE CacheOK(t)
  <2>1. DOMAIN cache = {k \in DOMAIN s.cache : s.cache[k] \notin gone} /\ \A k \in DOMAIN cache : cache[k] = s.cache[k]
    BY DEF Without
  <2> HIDE DEF cache
  <2>2. ASSUME NEW k \in DOMAIN t.cache PROVE t.cache[k] \in DOMAIN q.meshes /\ q.meshes[t.cache[k]].of = k
    <3>1. k \in DOMAIN s.cache /\ t.cache[k] = s.cache[k] /\ s.cache[k] \notin gone
      BY <1>3, <2>1, <2>2
    <3>2. s.cache[k] \in DOMAIN p.meshes /\ p.meshes[s.cache[k]].of = k
      BY <1>13, <3>1 DEF CacheOK
    <3> QED BY <3>1, <3>2, <1>4, <1>5
  <2> QED BY <2>2, <1>3 DEF CacheOK
<1>14. SessionOK(t, e, c, l)
  BY <1>2, <1>3, <1>10, <1>12 DEF SessionOK
<1>15. t.fresh >= s.fresh
  BY <1>2, <1>3
<1> QED BY <1>3, <1>11, <1>13, <1>14, <1>15 DEF Result

(* new is what is left of a plate when the objects `gone` are taken. *)
Remains(plate, new, gone) ==
  /\ PlateShape(new)
  /\ new.id = plate.id /\ new.printer = plate.printer /\ new.slots = plate.slots
  /\ ObjectsOn(new) = {o \in ObjectsOn(plate) : o.id \notin gone}
  /\ new.mods = Without(plate.mods, gone)
  /\ \A j, k \in DOMAIN new.objects : new.objects[j].id = new.objects[k].id => j = k

LEMMA RemainsIs ==
  ASSUME NEW p, NEW plate, PlateShape(plate), Resolves(p, plate), NEW gone, NEW new, DOMAIN new = DOMAIN plate,
         new.id = plate.id, new.printer = plate.printer, new.slots = plate.slots,
         new.mods = Without(plate.mods, gone),
         NEW ids, ids = IdsOn(plate) \ gone, new.objects = InOrder(plate, ids)
  PROVE  Remains(plate, new, gone)
<1>1. \A j, k \in DOMAIN plate.objects : plate.objects[j].id = plate.objects[k].id => j = k
  BY DEF Resolves
<1> DEFINE r == new.objects
<1>0. r = InOrder(plate, ids)
  OBVIOUS
<1> HIDE DEF r
<1>20. /\ r \in Seq(Objects)
       /\ \A k \in DOMAIN r : \E j \in DOMAIN plate.objects : r[k] = plate.objects[j] /\ r[k].id \in ids
       /\ \A j \in DOMAIN plate.objects : plate.objects[j].id \in ids => \E k \in DOMAIN r : r[k] = plate.objects[j]
       /\ (\A j, k \in DOMAIN plate.objects : plate.objects[j].id = plate.objects[k].id => j = k)
             => \A j, k \in DOMAIN r : r[j].id = r[k].id => j = k
  <2>1. PlateShape(plate)
    OBVIOUS
  <2> QED BY ONLY <1>0, <2>1, InOrderIs
<1>2. /\ r \in Seq(Objects)
      /\ \A k \in DOMAIN r : \E j \in DOMAIN plate.objects : r[k] = plate.objects[j] /\ r[k].id \in ids
      /\ \A j \in DOMAIN plate.objects : plate.objects[j].id \in ids => \E k \in DOMAIN r : r[k] = plate.objects[j]
      /\ \A j, k \in DOMAIN r : r[j].id = r[k].id => j = k
  BY <1>1, <1>20, Zenon
<1>3. ASSUME NEW o PROVE o \in ObjectsOn(new) <=> o \in {x \in ObjectsOn(plate) : x.id \notin gone}
  <2>1. o \in ObjectsOn(new) <=> \E k \in DOMAIN r : o = r[k]
    BY OnPlate DEF r
  <2>2. o \in ObjectsOn(plate) <=> \E j \in DOMAIN plate.objects : o = plate.objects[j]
    BY OnPlate
  <2>3. o \in ObjectsOn(plate) => o.id \in IdsOn(plate)
    BY DEF IdsOn
  <2> HIDE DEF r
  <2> QED BY <1>2, <2>1, <2>2, <2>3
<1>4. ObjectsOn(new) = {o \in ObjectsOn(plate) : o.id \notin gone}
  BY <1>3
<1>5. PlateShape(new)
  BY <1>2 DEF PlateShape, r
<1> QED BY <1>2, <1>4, <1>5 DEF Remains, r

LEMMA ObjectsAre ==
  ASSUME NEW plate
  PROVE  /\ \A x : x \in IdsOn(plate) <=> \E o \in ObjectsOn(plate) : x = o.id
         /\ \A g : g \in GroupsOn(plate) <=> g # NoGroup /\ \E o \in ObjectsOn(plate) : g = o.group
         /\ \A m : m \in Names(plate) <=> \/ \E o \in ObjectsOn(plate) : m = o.mesh
                                          \/ \E x \in DOMAIN plate.mods : m \in plate.mods[x]
         /\ \A p, m : m \in MaterialsOn(p, plate) <=>
               \E o \in ObjectsOn(plate) : m = MaterialOf(o) \/ m \in PaintOf(p, o.mesh)
<1>1. \A x : x \in IdsOn(plate) <=> \E o \in ObjectsOn(plate) : x = o.id
  BY DEF IdsOn
<1>2. \A g : g \in GroupsOn(plate) <=> g # NoGroup /\ \E o \in ObjectsOn(plate) : g = o.group
  BY DEF GroupsOn, GroupsOf, IdsOn
<1>3. \A m : m \in Names(plate) <=> \/ \E o \in ObjectsOn(plate) : m = o.mesh
                                    \/ \E x \in DOMAIN plate.mods : m \in plate.mods[x]
  <2>1. \A m : (\E k \in DOMAIN plate.objects : m = plate.objects[k].mesh) <=> \E o \in ObjectsOn(plate) : m = o.mesh
    BY DEF ObjectsOn
  <2> QED BY <2>1, NamesIs
<1>4. \A p, m : m \in MaterialsOn(p, plate) <=>
               \E o \in ObjectsOn(plate) : m = MaterialOf(o) \/ m \in PaintOf(p, o.mesh)
  BY DEF MaterialsOn
<1> QED BY <1>1, <1>2, <1>3, <1>4

(* What was taken: its meshes and materials. *)
Taken(plate, gone) == {o \in ObjectsOn(plate) : o.id \in gone}

(* What is left holds nothing new, and what it does not hold went. *)
Leaves(p, plate, new, gone) ==
  /\ IdsOn(new) = IdsOn(plate) \ gone /\ GroupsOn(new) \subseteq GroupsOn(plate)
  /\ Names(new) \subseteq Names(plate) /\ Names(plate) \subseteq Names(new) \cup MeshesOf(plate, gone)
  /\ MaterialsOn(p, new) \subseteq MaterialsOn(p, plate)
  /\ MaterialsOn(p, plate) \subseteq MaterialsOn(p, new) \cup UsesIn(p, Taken(plate, gone))
  /\ Resolves(p, new)

LEMMA LeavesIs ==
  ASSUME NEW p, NEW plate, Resolves(p, plate), NEW gone, NEW new, Remains(plate, new, gone)
  PROVE  Leaves(p, plate, new, gone)
<1>1. \A o : o \in ObjectsOn(new) <=> o \in ObjectsOn(plate) /\ o.id \notin gone
  BY DEF Remains
<1>2. IdsOn(new) = IdsOn(plate) \ gone
  BY <1>1, ObjectsAre
<1>3. GroupsOn(new) \subseteq GroupsOn(plate)
  BY <1>1, ObjectsAre
<1>4. DOMAIN new.mods = DOMAIN plate.mods \ gone /\ \A x \in DOMAIN new.mods : new.mods[x] = plate.mods[x]
  BY DEF Remains, Without
<1>5. Names(new) \subseteq Names(plate)
  BY <1>1, <1>4, ObjectsAre
<1>6. ASSUME NEW m \in Names(plate), m \notin Names(new) PROVE m \in MeshesOf(plate, gone)
  <2>1. CASE \E o \in ObjectsOn(plate) : m = o.mesh
    <3>1. PICK o \in ObjectsOn(plate) : m = o.mesh
      BY <2>1
    <3>2. o.id \in gone
      BY <1>1, <1>6, <3>1, ObjectsAre
    <3> QED BY <3>1, <3>2 DEF MeshesOf
  <2>2. CASE \E x \in DOMAIN plate.mods : m \in plate.mods[x]
    <3>1. PICK x \in DOMAIN plate.mods : m \in plate.mods[x]
      BY <2>2
    <3>2. x \in gone
      BY <1>4, <1>6, <3>1, ObjectsAre
    <3> QED BY <3>1, <3>2 DEF MeshesOf
  <2> QED BY <1>6, <2>1, <2>2, ObjectsAre
<1>7. MaterialsOn(p, new) \subseteq MaterialsOn(p, plate)
  BY <1>1, ObjectsAre
<1>8. ASSUME NEW m \in MaterialsOn(p, plate), m \notin MaterialsOn(p, new) PROVE m \in UsesIn(p, Taken(plate, gone))
  <2>1. PICK o \in ObjectsOn(plate) : m = MaterialOf(o) \/ m \in PaintOf(p, o.mesh)
    BY <1>8, ObjectsAre
  <2>2. o.id \in gone
    BY <1>1, <1>8, <2>1, ObjectsAre
  <2>3. o \in Taken(plate, gone)
    BY <2>2 DEF Taken
  <2> QED BY <2>1, <2>3 DEF UsesIn
<1>9. Resolves(p, new)
  <2>1. \A k \in DOMAIN new.objects : new.objects[k].id \in 1..p.lastObject /\ new.objects[k].mesh \in DOMAIN p.meshes
    <3> TAKE k \in DOMAIN new.objects
    <3>1. new.objects[k] \in ObjectsOn(new)
      BY DEF ObjectsOn
    <3>2. PICK j \in DOMAIN plate.objects : new.objects[k] = plate.objects[j]
      BY <3>1, <1>1, OnPlate
    <3> QED BY <3>2 DEF Resolves
  <2>2. \A j, k \in DOMAIN new.objects : new.objects[j].id = new.objects[k].id => j = k
    BY DEF Remains
  <2>3. DOMAIN new.mods \subseteq IdsOn(new)
    BY <1>2, <1>4 DEF Resolves
  <2>4. \A x \in DOMAIN new.mods : new.mods[x] \subseteq DOMAIN p.meshes
    BY <1>4 DEF Resolves
  <2> QED BY <2>1, <2>2, <2>3, <2>4 DEF Resolves
<1> QED BY <1>2, <1>3, <1>5, <1>6, <1>7, <1>8, <1>9 DEF Leaves

(* A plate changes together with its selection. *)
LEMMA SelectionEdited ==
  ASSUME NEW p, IdsApart(p), NEW sel, SelectionOK(p, sel), NEW i \in DOMAIN p.plates,
         NEW q, DOMAIN q.plates = DOMAIN p.plates, \A j \in DOMAIN p.plates : j # i => q.plates[j] = p.plates[j],
         NEW id, id = p.plates[i].id, q.plates[i].id = id,
         NEW new, new \subseteq IdsOn(q.plates[i]), NEW sel2, sel2 = [sel EXCEPT ![id] = new]
  PROVE  SelectionOK(q, sel2)
<1>1. PlateIdsOf(q) = PlateIdsOf(p)
  BY DEF PlateIdsOf
<1>2. DOMAIN sel2 = DOMAIN sel /\ sel2 = [x \in DOMAIN sel2 |-> sel2[x]] /\ DOMAIN sel = PlateIdsOf(p)
  BY DEF SelectionOK
<1>3. id \in DOMAIN sel /\ \A j \in DOMAIN p.plates : p.plates[j].id \in DOMAIN sel
  BY <1>2 DEF PlateIdsOf
<1>4. ASSUME NEW j \in DOMAIN q.plates PROVE sel2[q.plates[j].id] \subseteq IdsOn(q.plates[j])
  <2>1. CASE j = i
    BY <2>1, <1>3
  <2>2. CASE j # i
    <3>1. q.plates[j] = p.plates[j] /\ p.plates[j].id # id
      BY <2>2 DEF IdsApart
    <3>2. sel2[p.plates[j].id] = sel[p.plates[j].id]
      BY <3>1, <1>3
    <3> QED BY <3>1, <3>2 DEF SelectionOK
  <2> QED BY <2>1, <2>2
<1> QED BY <1>1, <1>2, <1>4 DEF SelectionOK

(* The objects went from the active plate, and nothing else changed but the pool. *)
Deleted(s, t, ids) ==
  LET p == s.project
      q == t.project
  IN /\ t.fresh = s.fresh /\ q.active = p.active /\ q.lastObject = p.lastObject /\ DOMAIN q.plates = DOMAIN p.plates
     /\ \A j \in DOMAIN p.plates : j # p.active => q.plates[j] = p.plates[j]
     /\ q.plates[q.active].printer = p.plates[p.active].printer
     /\ IdsOn(q.plates[q.active]) = IdsOn(p.plates[p.active]) \ ids

(* The bindings of what went are candidates, or excused. *)
Unneeded(p, plate, gone, e, cand) ==
  \A m \in UsesIn(p, Taken(plate, gone)) : m \in cand \/ <<plate.id, m>> \in e

(* A plate is left by some of its objects, and their bindings are pruned. *)
LEMMA LeftPlateIs ==
  ASSUME NEW p, DocumentShape(p), NEW plate, NEW e, NEW c, NEW f, PlateOK(p, plate, e, c, f),
         NEW gone, NEW left, Remains(plate, left, gone), NEW e2, e \subseteq e2, NEW cand,
         Unneeded(p, plate, gone, e2, cand), NEW new, new = Pruned(p, left, cand)
  PROVE  /\ PlateOK(p, new, e2, c, f) /\ new.id = plate.id /\ new.printer = plate.printer
         /\ IdsOn(new) = IdsOn(plate) \ gone /\ GroupsOn(new) \subseteq GroupsOn(plate)
         /\ Names(plate) \subseteq Names(new) \cup MeshesOf(plate, gone)
         /\ new.objects = left.objects /\ new.mods = left.mods
<1>1. PlateShape(plate) /\ Resolves(p, plate) /\ UseIsBound(p, plate, e)
  BY DEF PlateOK
<1>2. Leaves(p, plate, left, gone)
  BY <1>1, LeavesIs
<1>3. Covers(p, left, e2, cand)
  <2> DEFINE use == MaterialsOn(p, plate)
             rest == MaterialsOn(p, left)
             ex1 == {m \in Materials : <<plate.id, m>> \in e}
             ex2 == {m \in Materials : <<plate.id, m>> \in e2}
             taken == UsesIn(p, Taken(plate, gone))
  <2>1. rest \subseteq use /\ use \subseteq rest \cup taken
    BY <1>2 DEF Leaves
  <2>2. left.slots = plate.slots /\ left.printer = plate.printer /\ left.id = plate.id
    BY DEF Remains
  <2>3. Bound(plate) => use \subseteq DOMAIN plate.slots \cup ex1 /\ DOMAIN plate.slots \subseteq use \cup ex1
    BY <1>1 DEF UseIsBound
  <2>4. ex1 \subseteq ex2
    OBVIOUS
  <2>5. DOMAIN plate.slots \subseteq Materials
    BY <1>1 DEF PlateShape
  <2>6. \A m \in taken \cap Materials : m \in cand \cup ex2
    BY DEF Unneeded
  <2>7. Bound(left) <=> Bound(plate)
    BY <2>2 DEF Bound
  <2> HIDE DEF use, rest, ex1, ex2, taken
  <2>8. Bound(left) => rest \subseteq DOMAIN plate.slots \cup ex2 /\ DOMAIN plate.slots \subseteq rest \cup cand \cup ex2
    BY <2>1, <2>3, <2>4, <2>5, <2>6, <2>7
  <2> QED BY <2>2, <2>8 DEF Covers, rest, ex2
<1>4. PlateShape(left)
  BY DEF Remains
<1>5. /\ UseIsBound(p, new, e2) /\ PlateShape(new)
      /\ Fits(left) => Fits(new)
      /\ DOMAIN new = DOMAIN left /\ new.id = left.id /\ new.printer = left.printer
      /\ new.objects = left.objects /\ new.mods = left.mods /\ new.over = left.over /\ new.groups = left.groups
  <2>1. new = Pruned(p, left, cand)
    OBVIOUS
  <2> QED BY ONLY <1>3, <1>4, <2>1, PrunedUse
<1>6. SameObjects(left, new)
  BY <1>5 DEF SameObjects
<1>7. /\ IdsOn(new) = IdsOn(left) /\ GroupsOn(new) = GroupsOn(left) /\ Names(new) = Names(left)
      /\ Resolves(p, left) => Resolves(p, new)
  BY <1>5, <1>6, SameObjectsAre
<1>8. Resolves(p, new)
  BY <1>2, <1>7 DEF Leaves
<1>9. new.id = plate.id /\ new.printer = plate.printer
  BY <1>5 DEF Remains
<1>10. new.id \notin c => Fits(new)
  <2>1. Fits(plate) => Fits(left)
    BY DEF Remains, Fits
  <2> QED BY <1>5, <1>9, <2>1 DEF PlateOK
<1>11. IdsOn(new) = IdsOn(plate) \ gone /\ GroupsOn(new) \subseteq GroupsOn(plate)
       /\ Names(plate) \subseteq Names(new) \cup MeshesOf(plate, gone)
  BY <1>2, <1>7 DEF Leaves
<1>12. GroupsOn(new) \subseteq 1..f
  BY <1>11 DEF PlateOK
<1> QED BY <1>5, <1>8, <1>9, <1>10, <1>11, <1>12 DEF PlateOK

LEMMA DeleteKeeps ==
  ASSUME NEW s, NEW e, NEW c, NEW l, SessionOK(s, e, c, l), NEW ids, NEW t, t = DeleteObjects(s, ids)
  PROVE  Result(s, t, e, c, l) /\ Deleted(s, t, ids)
<1> DEFINE p == s.project
           a == p.active
           plate == ActivePlate(p)
           out == {o \in ObjectsOn(plate) : o.id \in ids}
           outIds == {o.id : o \in out}
           meshes == MeshesOf(plate, outIds)
           mats == {MaterialOf(o) : o \in out} \cup UNION {PaintOf(p, m) : m \in meshes}
           rest == IdsOn(plate) \ ids
           left == [plate EXCEPT !.objects = InOrder(plate, rest), !.mods = Without(@, outIds)]
           q == PruneBindings(EditActive(p, left), a, mats)
           less == s.selection[plate.id] \ outIds
           sel == [s.selection EXCEPT ![plate.id] = less]
           r == [s EXCEPT !.project = q, !.selection = sel]
<1>1. t = PruneMeshes(r, meshes)
  BY Zenon DEF DeleteObjects
<1>2. /\ DocumentShape(p) /\ a \in DOMAIN p.plates /\ plate = p.plates[a] /\ PlateShape(plate) /\ Resolves(p, plate)
      /\ EditActive(p, left) = EditPlate(p, a, left)
  BY Active
<1>3. /\ s.fresh \in Nat /\ DocumentOK(p, e, c, l, s.fresh) /\ SelectionOK(p, s.selection)
      /\ DOMAIN s = {"project", "selection", "cache", "fresh"}
  BY DEF SessionOK
<1>4. PlateOK(p, plate, e, c, s.fresh) /\ IdsApart(p) /\ GroupsApart(p)
  BY <1>2, <1>3 DEF DocumentOK
<1>5. \A x : x \in outIds <=> x \in IdsOn(plate) /\ x \in ids
  BY ObjectsAre
<1>6. rest = IdsOn(plate) \ outIds
  BY <1>5
<1>7. /\ DOMAIN left = DOMAIN plate /\ left.id = plate.id /\ left.printer = plate.printer /\ left.slots = plate.slots
      /\ left.mods = Without(plate.mods, outIds) /\ left.objects = InOrder(plate, rest)
  BY <1>2 DEF PlateShape
<1> HIDE DEF left, outIds, rest
<1>8. Remains(plate, left, outIds)
  BY <1>2, <1>6, <1>7, RemainsIs
<1>9. Unneeded(p, plate, outIds, e, mats)
  <2>1. Taken(plate, outIds) = out
    BY <1>5, ObjectsAre DEF Taken
  <2>2. \A o \in out : o.mesh \in meshes
    BY <2>1 DEF MeshesOf, Taken
  <2> HIDE DEF out, meshes
  <2> QED BY <2>1, <2>2 DEF UsesIn, Unneeded
<1> DEFINE new == Pruned(p, left, mats)
<1>10. q = EditPlate(p, a, new)
  <2>1. PlateShape(left)
    BY <1>8 DEF Remains
  <2> QED BY <1>2, <2>1, PrunedIs
<1> HIDE DEF mats, meshes, out, q
<1>11. /\ PlateOK(p, new, e, c, s.fresh) /\ new.id = plate.id /\ new.printer = plate.printer
       /\ IdsOn(new) = IdsOn(plate) \ outIds /\ GroupsOn(new) \subseteq GroupsOn(plate)
       /\ Names(plate) \subseteq Names(new) \cup MeshesOf(plate, outIds)
  <2>1. new = Pruned(p, left, mats)
    BY DEF new
  <2>2. e \subseteq e
    OBVIOUS
  <2> HIDE DEF plate, p
  <2>3. DocumentShape(p)
    BY <1>2
  <2>4. PlateOK(p, plate, e, c, s.fresh)
    BY <1>4
  <2> QED BY ONLY <1>8, <1>9, <2>1, <2>2, <2>3, <2>4, LeftPlateIs
<1> HIDE DEF new
<1>12. Changes(p, q, a) /\ q.plates[a] = new /\ q.lastObject = p.lastObject
  BY <1>2, <1>10, Edited
<1>13. /\ DOMAIN r = DOMAIN s /\ r.project = q /\ r.selection = sel /\ r.cache = s.cache /\ r.fresh = s.fresh
  BY <1>3
<1> HIDE DEF r
<1>14. SelectionOK(q, sel)
  <2>1. less \subseteq IdsOn(q.plates[a])
    <3>1. s.selection[plate.id] \subseteq IdsOn(plate)
      BY <1>2, <1>3 DEF SelectionOK
    <3> QED BY <3>1, <1>11, <1>12
  <2>2. plate.id = p.plates[a].id /\ q.plates[a].id = plate.id
    BY <1>2, <1>11, <1>12
  <2>3. sel = [s.selection EXCEPT ![plate.id] = less]
    OBVIOUS
  <2>4. DOMAIN q.plates = DOMAIN p.plates /\ \A j \in DOMAIN p.plates : j # a => q.plates[j] = p.plates[j]
    BY <1>12 DEF Changes
  <2> HIDE DEF less, sel, p, a, plate
  <2> QED BY <1>2, <1>3, <1>4, <2>1, <2>2, <2>3, <2>4, SelectionEdited
<1>15. Apart(p, a, new)
  BY <1>2, <1>4, <1>11 DEF Apart, IdsApart, GroupsApart
<1>16. StillNamed(p.plates[a], new, l \cup meshes)
  BY <1>2, <1>11 DEF StillNamed, meshes
<1>17. Allowing(e, c, l, s.fresh, e, c, l \cup meshes, s.fresh, new.id)
  BY <1>3 DEF Allowing
<1> HIDE DEF sel
<1>18. Result(s, r, e, c, l \cup meshes)
  <2>1. r.project = EditPlate(s.project, a, new) /\ new.id = s.project.plates[a].id
    BY <1>2, <1>10, <1>11, <1>13 DEF p
  <2>2. SelectionOK(r.project, r.selection)
    BY <1>13, <1>14
  <2>3. a \in DOMAIN s.project.plates /\ PlateOK(s.project, new, e, c, s.fresh) /\ Apart(s.project, a, new)
        /\ StillNamed(s.project.plates[a], new, l \cup meshes)
    BY <1>2, <1>11, <1>15, <1>16 DEF p
  <2> HIDE DEF a, p
  <2> QED BY <1>13, <1>17, <2>1, <2>2, <2>3, PlateKeeps
<1>19. Result(r, t, e, c, l)
  <2>1. SessionOK(r, e, c, l \cup meshes)
    BY <1>18 DEF Result
  <2> QED BY <1>1, <2>1, PruneKeeps
<1>20. Result(s, t, e, c, l)
  BY <1>18, <1>19, ResultTwice
<1>21. /\ t.fresh = r.fresh /\ t.project.plates = q.plates /\ t.project.active = q.active
       /\ t.project.lastObject = q.lastObject
  <2>1. t = [r EXCEPT !.project = [r.project EXCEPT !.meshes = Without(@, meshes \ Referenced(r.project))],
                      !.cache = Without(@, {k \in DOMAIN @ : @[k] \in meshes \ Referenced(r.project)})]
    BY <1>1, Zenon DEF PruneMeshes
  <2>2. "project" \in DOMAIN r /\ "meshes" \in DOMAIN q /\ "plates" \in DOMAIN q
    BY <1>2, <1>3, <1>12, <1>13 DEF Changes, DocumentShape
  <2>3. t.project = [q EXCEPT !.meshes = Without(@, meshes \ Referenced(q))] /\ t.fresh = r.fresh
    BY <2>1, <2>2, <1>13
  <2> QED BY <2>3
<1>22. Deleted(s, t, ids)
  <2>1. t.project.active = a /\ t.fresh = s.fresh /\ t.project.plates[a] = new
    BY <1>12, <1>13, <1>21 DEF Changes
  <2>2. IdsOn(new) = IdsOn(p.plates[a]) \ ids
    BY <1>2, <1>5, <1>11
  <2>3. new.printer = p.plates[a].printer
    BY <1>2, <1>11
  <2> HIDE DEF plate
  <2> QED BY <2>1, <2>2, <2>3, <1>12, <1>21 DEF Deleted, Changes, p, a
<1> QED BY <1>20, <1>22

-----------------------------------------------------------------------------
(* Moving. *)

(* Meshes that are used need no excuse. *)
LEMMA Unleaked ==
  ASSUME NEW p, NEW e, NEW c, NEW l, NEW f, DocumentOK(p, e, c, l, f),
         NEW l2, \A m \in l : m \in l2 \/ m \in Referenced(p)
  PROVE  DocumentOK(p, e, c, l2, f)
BY DEF DocumentOK

Strangers(src, dst) ==
  IdsOn(src) \cap IdsOn(dst) = {} /\ GroupsOn(src) \cap GroupsOn(dst) = {}

(* new is dst with the objects objs, the `gone` of src. *)
Landed(src, dst, gone, objs, walk, new) ==
  /\ DOMAIN new = DOMAIN dst /\ new.id = dst.id /\ new.printer = dst.printer
  /\ walk \in Walks(dst.printer) /\ new.objects = dst.objects \o objs
  /\ new.mods = Over([x \in gone \cap DOMAIN src.mods |-> src.mods[x]], dst.mods)
  /\ new.slots = EnsureSlots(dst.slots, {MaterialOf(objs[k]) : k \in DOMAIN objs}, walk, src.slots)

PaintExcused(p, src, dst, gone, e) ==
  \A o \in Taken(src, gone) : \A m \in PaintOf(p, o.mesh) : <<dst.id, m>> \in e

Carried(src, dst, c, c2) ==
  dst.id \in c2 \/ (src.printer = dst.printer /\ src.id \notin c /\ dst.id \notin c)

LEMMA TakenAre ==
  ASSUME NEW p, NEW src, PlateShape(src), Resolves(p, src), NEW gone, NEW objs, objs = InOrder(src, gone)
  PROVE  /\ objs \in Seq(Objects) /\ \A k \in DOMAIN objs : objs[k] \in Objects
         /\ \A o : o \in Taken(src, gone) <=> \E k \in DOMAIN objs : o = objs[k]
         /\ \A j, k \in DOMAIN objs : objs[j].id = objs[k].id => j = k
         /\ Taken(src, gone) \subseteq ObjectsOn(src)
         /\ \A k \in DOMAIN objs : objs[k].id \in gone
<1>1. \A j, k \in DOMAIN src.objects : src.objects[j].id = src.objects[k].id => j = k
  BY DEF Resolves
<1>2. /\ objs \in Seq(Objects)
      /\ \A k \in DOMAIN objs : \E j \in DOMAIN src.objects : objs[k] = src.objects[j] /\ objs[k].id \in gone
      /\ \A j \in DOMAIN src.objects : src.objects[j].id \in gone => \E k \in DOMAIN objs : objs[k] = src.objects[j]
      /\ (\A j, k \in DOMAIN src.objects : src.objects[j].id = src.objects[k].id => j = k)
           => \A j, k \in DOMAIN objs : objs[j].id = objs[k].id => j = k
  <2>1. PlateShape(src) /\ objs = InOrder(src, gone)
    OBVIOUS
  <2> QED BY ONLY <2>1, InOrderIs
<1>3. ASSUME NEW o PROVE o \in Taken(src, gone) <=> \E k \in DOMAIN objs : o = objs[k]
  BY <1>2, OnPlate DEF Taken
<1>4. \A k \in DOMAIN objs : objs[k] \in Objects
  BY <1>2
<1> QED BY <1>1, <1>2, <1>3, <1>4 DEF Taken

LEMMA LandedObjects ==
  ASSUME NEW p, NEW src, NEW dst, PlateShape(src), PlateShape(dst), Resolves(p, src), Resolves(p, dst),
         Strangers(src, dst), NEW gone, NEW objs, objs = InOrder(src, gone),
         NEW walk, NEW new, Landed(src, dst, gone, objs, walk, new)
  PROVE  /\ Gains(dst, new, Taken(src, gone)) /\ new.objects \in Seq(Objects)
         /\ \A j, k \in DOMAIN new.objects : new.objects[j].id = new.objects[k].id => j = k
         /\ \A k \in DOMAIN new.objects : new.objects[k].id \in 1..p.lastObject /\ new.objects[k].mesh \in DOMAIN p.meshes
<1> DEFINE old == dst.objects
           all == new.objects
<1>1. /\ objs \in Seq(Objects) /\ \A k \in DOMAIN objs : objs[k] \in Objects
      /\ \A o : o \in Taken(src, gone) <=> \E k \in DOMAIN objs : o = objs[k]
      /\ \A j, k \in DOMAIN objs : objs[j].id = objs[k].id => j = k
      /\ Taken(src, gone) \subseteq ObjectsOn(src)
  BY TakenAre
<1>2. old \in Seq(Objects) /\ all = old \o objs
  BY DEF PlateShape, Landed
<1> HIDE DEF all
<1>3. /\ all \in Seq(Objects) /\ Len(old) \in Nat /\ Len(objs) \in Nat
      /\ DOMAIN all = 1..(Len(old) + Len(objs)) /\ DOMAIN old = 1..Len(old) /\ DOMAIN objs = 1..Len(objs)
      /\ \A k \in DOMAIN old : all[k] = old[k]
      /\ \A k \in DOMAIN objs : all[Len(old) + k] = objs[k]
  BY <1>1, <1>2, Joined
<1> HIDE DEF old
<1>4. ASSUME NEW k PROVE k \in DOMAIN all <=> k \in DOMAIN old \/ \E j \in DOMAIN objs : k = Len(old) + j
  <2>1. ASSUME k \in DOMAIN all, k \notin DOMAIN old PROVE k - Len(old) \in DOMAIN objs /\ k = Len(old) + (k - Len(old))
    BY <1>3, <2>1
  <2>2. k \in DOMAIN old => k \in DOMAIN all
    BY <1>3
  <2>3. \A j \in DOMAIN objs : Len(old) + j \in DOMAIN all
    BY <1>3
  <2> QED BY <2>1, <2>2, <2>3
<1>5. ASSUME NEW k \in DOMAIN all
      PROVE  \/ k \in DOMAIN old /\ all[k] = old[k]
             \/ \E j \in DOMAIN objs : k = Len(old) + j /\ all[k] = objs[j]
  BY <1>3, <1>4
<1>6. ASSUME NEW o PROVE o \in ObjectsOn(new) <=> o \in ObjectsOn(dst) \cup Taken(src, gone)
  <2>1. o \in ObjectsOn(new) <=> \E k \in DOMAIN all : o = all[k]
    BY OnPlate DEF all
  <2>2. o \in ObjectsOn(dst) <=> \E k \in DOMAIN old : o = old[k]
    BY OnPlate DEF old
  <2>3. (\E k \in DOMAIN all : o = all[k]) <=> (\E k \in DOMAIN old : o = old[k]) \/ (\E k \in DOMAIN objs : o = objs[k])
    BY <1>3, <1>4, <1>5
  <2> QED BY <1>1, <2>1, <2>2, <2>3
<1>7. Gains(dst, new, Taken(src, gone))
  BY <1>6 DEF Gains
<1>8. \A j \in DOMAIN objs : objs[j].id \in IdsOn(src) /\ objs[j] \in ObjectsOn(src)
  BY <1>1, ObjectsAre
<1>9. \A k \in DOMAIN old : old[k].id \in IdsOn(dst)
  BY OnPlate DEF old
<1>10. \A j, k \in DOMAIN old : old[j].id = old[k].id => j = k
  BY DEF Resolves, old
<1>11. \A j, k \in DOMAIN all : all[j].id = all[k].id => j = k
  <2> TAKE j, k \in DOMAIN all
  <2> HAVE all[j].id = all[k].id
  <2>1. CASE j \in DOMAIN old /\ k \in DOMAIN old
    BY <1>3, <1>10, <2>1
  <2>2. CASE j \notin DOMAIN old /\ k \notin DOMAIN old
    <3>1. PICK x \in DOMAIN objs : j = Len(old) + x /\ all[j] = objs[x]
      BY <1>5, <2>2
    <3>2. PICK y \in DOMAIN objs : k = Len(old) + y /\ all[k] = objs[y]
      BY <1>5, <2>2
    <3> QED BY <3>1, <3>2, <1>1
  <2>3. CASE j \in DOMAIN old /\ k \notin DOMAIN old
    BY <2>3, <1>5, <1>3, <1>8, <1>9 DEF Strangers
  <2>4. CASE j \notin DOMAIN old /\ k \in DOMAIN old
    BY <2>4, <1>5, <1>3, <1>8, <1>9 DEF Strangers
  <2> QED BY <2>1, <2>2, <2>3, <2>4
<1>12. ASSUME NEW k \in DOMAIN all PROVE all[k].id \in 1..p.lastObject /\ all[k].mesh \in DOMAIN p.meshes
  <2>1. CASE k \in DOMAIN old /\ all[k] = old[k]
    BY <2>1 DEF Resolves, old
  <2>2. CASE \E j \in DOMAIN objs : k = Len(old) + j /\ all[k] = objs[j]
    <3>1. all[k] \in ObjectsOn(src)
      BY <2>2, <1>8
    <3>2. PICK x \in DOMAIN src.objects : all[k] = src.objects[x]
      BY <3>1, OnPlate
    <3> QED BY <3>2 DEF Resolves
  <2> QED BY <2>1, <2>2, <1>5
<1> QED BY <1>3, <1>7, <1>11, <1>12 DEF all

(* The plate the objects land on is whole. *)
LEMMA LandedIs ==
  ASSUME NEW p, DocumentShape(p), NEW src, NEW dst, NEW e, NEW c, NEW f \in Nat,
         PlateOK(p, src, e, c, f), PlateOK(p, dst, e, c, f), Strangers(src, dst),
         NEW gone, gone \subseteq IdsOn(src), NEW objs, objs = InOrder(src, gone),
         NEW walk, NEW new, Landed(src, dst, gone, objs, walk, new),
         NEW e2, e \subseteq e2, PaintExcused(p, src, dst, gone, e2), NEW c2, Carried(src, dst, c, c2)
  PROVE  /\ PlateOK(p, new, e2, c2, f) /\ IdsOn(new) = IdsOn(dst) \cup gone
         /\ GroupsOn(new) = GroupsOn(dst) \cup GroupsIn(Taken(src, gone))
         /\ Names(dst) \subseteq Names(new) /\ MeshesOf(src, gone) \subseteq Names(new)
<1> DEFINE more == Taken(src, gone)
           mats == {MaterialOf(objs[k]) : k \in DOMAIN objs}
<1>1. /\ PlateShape(src) /\ Resolves(p, src) /\ PlateShape(dst) /\ Resolves(p, dst) /\ UseIsBound(p, dst, e)
      /\ dst.id \notin c => Fits(dst)
      /\ src.id \notin c => Fits(src)
      /\ GroupsOn(dst) \subseteq 1..f /\ GroupsOn(src) \subseteq 1..f
  BY DEF PlateOK
<1>2. /\ Gains(dst, new, more) /\ new.objects \in Seq(Objects)
      /\ \A j, k \in DOMAIN new.objects : new.objects[j].id = new.objects[k].id => j = k
      /\ \A k \in DOMAIN new.objects : new.objects[k].id \in 1..p.lastObject /\ new.objects[k].mesh \in DOMAIN p.meshes
  BY <1>1, LandedObjects
<1>3. /\ objs \in Seq(Objects) /\ \A k \in DOMAIN objs : objs[k] \in Objects
      /\ \A o : o \in more <=> \E k \in DOMAIN objs : o = objs[k]
      /\ more \subseteq ObjectsOn(src)
  BY <1>1, TakenAre
<1>4. /\ IdsOn(new) = IdsOn(dst) \cup IdsIn(more)
      /\ GroupsOn(new) = GroupsOn(dst) \cup GroupsIn(more)
      /\ MaterialsOn(p, new) = MaterialsOn(p, dst) \cup UsesIn(p, more)
  BY <1>2, MoreObjects
<1>5. IdsIn(more) = gone
  BY ObjectsAre DEF IdsIn, Taken
<1>6. GroupsIn(more) \subseteq GroupsOn(src)
  BY <1>3, ObjectsAre DEF GroupsIn
<1>7. mats \subseteq Materials
  BY <1>3, MaterialIs DEF Objects
<1>8. dst.printer \in Instances \cup {Unbound} /\ new.slots = EnsureSlots(dst.slots, mats, walk, src.slots)
      /\ new.id = dst.id /\ new.printer = dst.printer
  BY <1>1 DEF PlateShape, Landed
<1>9. walk \in Seq(SlotsOf(dst.printer)) /\ (Bound(dst) => walk # << >>)
  BY <1>8, WalkIs DEF Bound, Landed
<1> HIDE DEF more, mats
<1>10. Grown(dst.slots, new.slots, mats, walk, src.slots, SlotsOf(dst.printer))
  <2> DEFINE slots == dst.slots
             r == new.slots
             S == SlotsOf(dst.printer)
             given == src.slots
  <2>1. mats \in SUBSET Materials /\ walk \in Seq(S) /\ r = EnsureSlots(slots, mats, walk, given)
    BY <1>7, <1>8, <1>9
  <2> HIDE DEF slots, r, S, given
  <2>2. Grown(slots, r, mats, walk, given, S)
    BY ONLY <2>1, EnsuredAllIs
  <2> QED BY <2>2 DEF slots, r, S, given
<1>11. DOMAIN new.slots \subseteq Materials
  BY <1>1, <1>7, <1>10 DEF Grown, PlateShape
<1>12. PlateShape(new)
  BY <1>1, <1>2, <1>11 DEF PlateShape, Landed
<1>13. /\ DOMAIN new.mods = DOMAIN dst.mods \cup (gone \cap DOMAIN src.mods)
       /\ \A x \in gone \cap DOMAIN src.mods : new.mods[x] = src.mods[x]
       /\ \A x \in DOMAIN dst.mods : x \notin gone /\ new.mods[x] = dst.mods[x]
  <2> DEFINE add == gone \cap DOMAIN src.mods
             g == [x \in add |-> src.mods[x]]
  <2>1. new.mods = Over(g, dst.mods)
    BY DEF Landed
  <2>2. \A x \in DOMAIN dst.mods : x \notin gone
    BY <1>1 DEF Resolves, Strangers
  <2>3. DOMAIN g = add /\ \A x \in add : g[x] = src.mods[x]
    OBVIOUS
  <2> HIDE DEF g
  <2> QED BY <2>1, <2>2, <2>3 DEF Over
<1>14. DOMAIN new.mods \subseteq IdsOn(new) /\ \A x \in DOMAIN new.mods : new.mods[x] \subseteq DOMAIN p.meshes
  BY <1>1, <1>4, <1>5, <1>13 DEF Resolves
<1>15. Resolves(p, new)
  BY <1>2, <1>14 DEF Resolves
<1>16. UseIsBound(p, new, e2)
  <2> DEFINE use == MaterialsOn(p, dst)
             add == UsesIn(p, more)
             all == MaterialsOn(p, new)
             ex1 == {m \in Materials : <<dst.id, m>> \in e}
             ex2 == {m \in Materials : <<dst.id, m>> \in e2}
  <2>1. mats \subseteq add
    BY <1>3 DEF UsesIn, mats
  <2>2. add \subseteq mats \cup ex2
    <3> SUFFICES ASSUME NEW m \in add PROVE m \in mats \cup ex2
      OBVIOUS
    <3>1. PICK o \in more : m = MaterialOf(o) \/ m \in PaintOf(p, o.mesh)
      BY DEF UsesIn
    <3>2. m = MaterialOf(o) => m \in mats
      BY <1>3, <3>1 DEF mats
    <3>3. m \in PaintOf(p, o.mesh) => m \in Materials /\ <<dst.id, m>> \in e2
      BY <3>1, PaintIs DEF PaintExcused, more
    <3> QED BY <3>1, <3>2, <3>3
  <2>3. Bound(dst) => use \subseteq DOMAIN dst.slots \cup ex1 /\ DOMAIN dst.slots \subseteq use \cup ex1
    BY <1>1 DEF UseIsBound
  <2>4. ex1 \subseteq ex2 /\ all = use \cup add
    BY <1>4
  <2>5. Bound(new) <=> Bound(dst)
    BY <1>8 DEF Bound
  <2>6. /\ DOMAIN dst.slots \subseteq DOMAIN new.slots /\ DOMAIN new.slots \subseteq DOMAIN dst.slots \cup mats
        /\ Bound(dst) => mats \subseteq DOMAIN new.slots
    BY <1>9, <1>10 DEF Grown
  <2> HIDE DEF use, add, all, ex1, ex2
  <2>7. Bound(new) => all \subseteq DOMAIN new.slots \cup ex2 /\ DOMAIN new.slots \subseteq all \cup ex2
    BY <2>1, <2>2, <2>3, <2>4, <2>5, <2>6
  <2> QED BY <2>7, <1>8 DEF UseIsBound, all, ex2
<1>17. new.id \notin c2 => Fits(new)
  <2> HAVE new.id \notin c2
  <2>1. src.printer = dst.printer /\ Fits(src) /\ Fits(dst)
    BY <1>1, <1>8 DEF Carried
  <2> DEFINE given == src.slots
  <2>2. dst.printer # Unbound => \A m \in DOMAIN given : given[m] \in AllSlots[dst.printer]
    BY <2>1 DEF Fits
  <2>3. new.printer = dst.printer
        /\ Grown(dst.slots, new.slots, mats, walk, given, SlotsOf(dst.printer))
    BY <1>8, <1>10
  <2> HIDE DEF given
  <2> QED BY <2>1, <2>2, <2>3, FitsIs
<1>18. GroupsOn(new) \subseteq 1..f
  BY <1>1, <1>4, <1>6
<1>19. Names(dst) \subseteq Names(new)
  <2>1. ObjectsOn(dst) \subseteq ObjectsOn(new)
    BY <1>2 DEF Gains
  <2> QED BY <2>1, <1>13, ObjectsAre
<1>20. MeshesOf(src, gone) \subseteq Names(new)
  <2> SUFFICES ASSUME NEW m \in MeshesOf(src, gone) PROVE m \in Names(new)
    OBVIOUS
  <2>1. CASE \E o \in more : m = o.mesh
    <3>1. \A o \in more : o \in ObjectsOn(new)
      BY <1>2 DEF Gains
    <3> QED BY <2>1, <3>1, ObjectsAre
  <2>2. CASE \E x \in gone \cap DOMAIN src.mods : m \in src.mods[x]
    BY <2>2, <1>13, ObjectsAre
  <2> QED BY <2>1, <2>2 DEF MeshesOf, Taken, more
<1> QED BY <1>4, <1>5, <1>12, <1>15, <1>16, <1>17, <1>18, <1>19, <1>20 DEF PlateOK, more

(* Painted materials stay behind: for both plates they are excused. *)
MoveExcused(p, src, dst, gone, e) ==
  \A o \in Taken(src, gone) : \A m \in PaintOf(p, o.mesh) : <<src.id, m>> \in e /\ <<dst.id, m>> \in e

LEMMA ExpandIs ==
  ASSUME NEW plate, NEW ids
  PROVE  Expand(plate, ids) \subseteq IdsOn(plate)
BY DEF Expand, IdsOn

(* Whole groups go. *)
LEMMA WholeGroupsGo ==
  ASSUME NEW p, NEW plate, Resolves(p, plate), NEW ids, NEW gone, gone = Expand(plate, ids),
         NEW o \in ObjectsOn(plate), o.id \notin gone
  PROVE  o.group \notin GroupsIn(Taken(plate, gone))
<1>1. SUFFICES ASSUME NEW x \in ObjectsOn(plate), x.id \in gone, o.group = x.group, o.group # NoGroup PROVE FALSE
  BY DEF GroupsIn, Taken
<1>2. o.group \notin GroupsOf(plate, ids)
  BY DEF Expand
<1>3. PICK y \in ObjectsOn(plate) : y.id = x.id /\ (y.id \in ids \/ y.group \in GroupsOf(plate, ids))
  BY <1>1 DEF Expand
<1>4. y = x
  <2>1. PICK j \in DOMAIN plate.objects : y = plate.objects[j]
    BY OnPlate
  <2>2. PICK k \in DOMAIN plate.objects : x = plate.objects[k]
    BY OnPlate
  <2>3. j = k
    BY <1>3, <2>1, <2>2 DEF Resolves
  <2> QED BY <2>1, <2>2, <2>3
<1>5. x.id \in ids => x.group \in GroupsOf(plate, ids)
  BY <1>1 DEF GroupsOf
<1> QED BY <1>1, <1>2, <1>3, <1>4, <1>5

(* What the two edits make of the document. *)
LEMMA TwoEdits ==
  ASSUME NEW p, DocumentShape(p), NEW i \in DOMAIN p.plates, NEW j \in DOMAIN p.plates, i # j,
         NEW left, PlateShape(left), NEW landed, PlateShape(landed), NEW cand, NEW new, new = Pruned(p, left, cand),
         NEW q, q = PruneBindings(EditPlate(EditPlate(p, i, left), j, landed), i, cand),
         NEW m, m = EditPlate(p, i, new)
  PROVE  /\ Changes(m, q, j) /\ q.plates[j] = landed /\ q.lastObject = p.lastObject
<1> DEFINE q1 == EditPlate(p, i, left)
           q2 == EditPlate(q1, j, landed)
           last == q2.plates[i]
           gone == cand \ MaterialsOn(q2, last)
           new2 == [last EXCEPT !.slots = Without(@, gone)]
<1>1. Changes(p, q1, i) /\ q1.plates[i] = left /\ q1.lastObject = p.lastObject
  BY Edited
<1>2. DocumentShape(q1) /\ j \in DOMAIN q1.plates
  BY <1>1, ShapeKept DEF Changes
<1> HIDE DEF q1
<1>3. Changes(q1, q2, j) /\ q2.plates[j] = landed /\ q2.lastObject = q1.lastObject
  BY <1>2, Edited
<1>4. DocumentShape(q2) /\ i \in DOMAIN q2.plates
  <2>1. PlateShape(q2.plates[j])
    BY <1>3
  <2>2. i \in DOMAIN q2.plates
    BY <1>1, <1>3 DEF Changes
  <2> HIDE DEF q2
  <2> QED BY <1>2, <1>3, <2>1, <2>2, ShapeKept
<1> HIDE DEF q2
<1>5. q = EditPlate(q2, i, new2)
  BY Zenon DEF PruneBindings, q2, q1
<1>6. Changes(q2, q, i) /\ q.plates[i] = new2 /\ q.lastObject = q2.lastObject
  BY <1>4, <1>5, Edited
<1>7. last = left
  BY <1>1, <1>3 DEF Changes
<1>8. MaterialsOn(q2, left) = MaterialsOn(p, left)
  <2>1. q2.meshes = p.meshes
    BY <1>1, <1>3 DEF Changes
  <2> QED BY <2>1 DEF MaterialsOn, PaintOf
<1>9. new2 = new
  BY <1>7, <1>8 DEF Pruned
<1> HIDE DEF new2, last
<1>10. Changes(p, m, i) /\ m.plates[i] = new /\ m.lastObject = p.lastObject
  BY Edited
<1>11. p.lastObject \in Nat
  BY DEF DocumentShape
<1>12. /\ DOMAIN q = DOMAIN p /\ DOMAIN q.plates = DOMAIN p.plates /\ q.active = p.active
       /\ q.meshes = p.meshes /\ q.lastMesh = p.lastMesh /\ Len(q.plates) = Len(p.plates)
       /\ q.plates \in Seq({q.plates[k] : k \in DOMAIN q.plates})
       /\ q.plates[j] = landed /\ q.plates[i] = new
  BY <1>1, <1>3, <1>6, <1>9 DEF Changes
<1>13. \A k \in DOMAIN p.plates : k # i /\ k # j => q.plates[k] = p.plates[k]
  BY <1>1, <1>3, <1>6 DEF Changes
<1>14. /\ DOMAIN m = DOMAIN p /\ DOMAIN m.plates = DOMAIN p.plates /\ m.active = p.active
       /\ m.meshes = p.meshes /\ m.lastMesh = p.lastMesh /\ Len(m.plates) = Len(p.plates)
       /\ \A k \in DOMAIN p.plates : k # i => m.plates[k] = p.plates[k]
  BY <1>10 DEF Changes
<1>15. \A k \in DOMAIN m.plates : k # j => q.plates[k] = m.plates[k]
  BY <1>10, <1>12, <1>13, <1>14
<1>16. q.lastObject = p.lastObject
  BY <1>1, <1>3, <1>6
<1> QED BY <1>10, <1>11, <1>12, <1>14, <1>15, <1>16 DEF Changes

LEMMA MoveKeeps ==
  ASSUME NEW s, NEW e, NEW c, NEW l, SessionOK(s, e, c, l),
         NEW i \in DOMAIN s.project.plates, NEW j \in DOMAIN s.project.plates, i # j,
         NEW ids, NEW walk, walk \in Walks(s.project.plates[j].printer),
         NEW e2, e \subseteq e2,
         MoveExcused(s.project, s.project.plates[i], s.project.plates[j], Expand(s.project.plates[i], ids), e2),
         NEW c2, c \subseteq c2, Carried(s.project.plates[i], s.project.plates[j], c, c2),
         NEW t, t = MoveObjects(s, i, j, ids, walk)
  PROVE  Result(s, t, e2, c2, l)
<1> DEFINE p == s.project
           src == p.plates[i]
           dst == p.plates[j]
           gone == Expand(src, ids)
           moving == InOrder(src, gone)
           mids == {moving[k].id : k \in DOMAIN moving}
           gs == {moving[k].group : k \in DOMAIN moving} \cap DOMAIN src.groups
           mats == {MaterialOf(moving[k]) : k \in DOMAIN moving}
           pick(f) == [x \in mids \cap DOMAIN f |-> f[x]]
           rest == IdsOn(src) \ mids
           left == [src EXCEPT !.objects = InOrder(src, rest), !.over = Without(@, mids), !.mods = Without(@, mids),
                               !.groups = Without(@, gs)]
           landed == [dst EXCEPT !.objects = @ \o moving,
                                 !.over = Over(pick(src.over), @),
                                 !.mods = Over(pick(src.mods), @),
                                 !.groups = Over([g \in gs |-> src.groups[g]], @),
                                 !.slots = EnsureSlots(@, mats, walk, src.slots)]
           q == PruneBindings(EditPlate(EditPlate(p, i, left), j, landed), i, mats)
           less == s.selection[src.id] \ mids
           sel == [s.selection EXCEPT ![src.id] = less]
<1>1. t = [s EXCEPT !.project = q, !.selection = sel]
  BY Zenon DEF MoveObjects
<1>0. MoveExcused(p, src, dst, gone, e2) /\ Carried(src, dst, c, c2) /\ src = p.plates[i] /\ dst = p.plates[j]
      /\ walk \in Walks(dst.printer)
  OBVIOUS
<1>2. /\ DocumentShape(p) /\ s.fresh \in Nat /\ DocumentOK(p, e, c, l, s.fresh) /\ SelectionOK(p, s.selection)
      /\ DOMAIN s = {"project", "selection", "cache", "fresh"}
  BY Active DEF SessionOK
<1> HIDE DEF src, dst
<1>3. /\ PlateOK(p, src, e, c, s.fresh) /\ PlateOK(p, dst, e, c, s.fresh) /\ IdsApart(p) /\ GroupsApart(p)
      /\ src = p.plates[i] /\ dst = p.plates[j]
  BY <1>0, <1>2 DEF DocumentOK
<1>4. PlateShape(src) /\ Resolves(p, src) /\ PlateShape(dst)
  BY <1>3 DEF PlateOK
<1>5. gone \subseteq IdsOn(src)
  BY ExpandIs
<1>6. /\ moving \in Seq(Objects) /\ \A o : o \in Taken(src, gone) <=> \E k \in DOMAIN moving : o = moving[k]
  <2> HIDE DEF gone, p
  <2> QED BY <1>4, TakenAre
<1>7. mids = gone
  <2>1. \A x : x \in mids <=> \E o \in Taken(src, gone) : x = o.id
    BY <1>6
  <2>2. \A x : x \in gone <=> \E o \in Taken(src, gone) : x = o.id
    BY <1>5, ObjectsAre DEF Taken
  <2> HIDE DEF mids, gone
  <2> QED BY <2>1, <2>2
<1> HIDE DEF mids
<1>8. /\ DOMAIN left = DOMAIN src /\ left.id = src.id /\ left.printer = src.printer /\ left.slots = src.slots
      /\ left.mods = Without(src.mods, gone) /\ left.objects = InOrder(src, rest)
  BY <1>4, <1>7 DEF PlateShape
<1>9. Remains(src, left, gone)
  <2>1. rest = IdsOn(src) \ gone
    BY <1>7
  <2> HIDE DEF rest, gone, left, p
  <2> QED BY <1>4, <1>8, <2>1, RemainsIs
<1>10. Landed(src, dst, gone, moving, walk, landed)
  <2>1. /\ DOMAIN landed = DOMAIN dst /\ landed.id = dst.id /\ landed.printer = dst.printer
        /\ landed.objects = dst.objects \o moving /\ landed.mods = Over(pick(src.mods), dst.mods)
        /\ landed.slots = EnsureSlots(dst.slots, mats, walk, src.slots)
    <3> HIDE DEF moving, mats, gs
    <3> QED BY <1>4 DEF PlateShape
  <2> HIDE DEF landed, moving, gone
  <2> QED BY <2>1, <1>0, <1>7, Zenon DEF Landed
<1> HIDE DEF left, landed, rest, gs
<1> DEFINE new == Pruned(p, left, mats)
<1>11. /\ PlateOK(p, new, e2, c, s.fresh) /\ new.id = src.id /\ new.printer = src.printer
       /\ IdsOn(new) = IdsOn(src) \ gone /\ GroupsOn(new) \subseteq GroupsOn(src)
       /\ Names(src) \subseteq Names(new) \cup MeshesOf(src, gone)
       /\ new.objects = left.objects /\ new.mods = left.mods
  <2>1. Unneeded(p, src, gone, e2, mats)
    <3> SUFFICES ASSUME NEW m \in UsesIn(p, Taken(src, gone)) PROVE m \in mats \/ <<src.id, m>> \in e2
      BY DEF Unneeded
    <3>1. PICK o \in Taken(src, gone) : m = MaterialOf(o) \/ m \in PaintOf(p, o.mesh)
      BY DEF UsesIn
    <3>2. m = MaterialOf(o) => m \in mats
      BY <1>6, <3>1
    <3>3. m \in PaintOf(p, o.mesh) => <<src.id, m>> \in e2
      BY <3>1, <1>0 DEF MoveExcused
    <3> QED BY <3>1, <3>2, <3>3
  <2>2. new = Pruned(p, left, mats)
    OBVIOUS
  <2>3. DocumentShape(p)
    BY <1>2
  <2>4. PlateOK(p, src, e, c, s.fresh)
    BY <1>3
  <2>5. e \subseteq e2
    OBVIOUS
  <2> HIDE DEF gone, new, mats, p
  <2> QED BY ONLY <1>9, <2>1, <2>2, <2>3, <2>4, <2>5, LeftPlateIs
<1>12. Strangers(src, dst)
  BY <1>3 DEF Strangers, IdsApart, GroupsApart
<1>13. /\ PlateOK(p, landed, e2, c2, s.fresh) /\ IdsOn(landed) = IdsOn(dst) \cup gone
       /\ GroupsOn(landed) = GroupsOn(dst) \cup GroupsIn(Taken(src, gone))
       /\ Names(dst) \subseteq Names(landed) /\ MeshesOf(src, gone) \subseteq Names(landed)
  <2>1. PaintExcused(p, src, dst, gone, e2)
    BY <1>0 DEF PaintExcused, MoveExcused
  <2>2. moving = InOrder(src, gone) /\ DocumentShape(p) /\ s.fresh \in Nat
        /\ PlateOK(p, src, e, c, s.fresh) /\ PlateOK(p, dst, e, c, s.fresh) /\ e \subseteq e2 /\ Carried(src, dst, c, c2)
    BY <1>0, <1>2, <1>3
  <2> HIDE DEF gone, moving, p
  <2> QED BY ONLY <1>5, <1>10, <1>12, <2>1, <2>2, LandedIs
<1> DEFINE m == EditPlate(p, i, new)
           meshes == MeshesOf(src, gone)
<1>14. Changes(p, m, i) /\ m.plates[i] = new /\ m.lastObject = p.lastObject
  BY <1>2, Edited
<1>15. Changes(m, q, j) /\ q.plates[j] = landed /\ q.lastObject = p.lastObject
  <2>1. PlateShape(left) /\ PlateShape(landed)
    BY <1>9, <1>13 DEF Remains, PlateOK
  <2>2. q = PruneBindings(EditPlate(EditPlate(p, i, left), j, landed), i, mats) /\ m = EditPlate(p, i, new)
        /\ new = Pruned(p, left, mats) /\ DocumentShape(p) /\ i \in DOMAIN p.plates /\ j \in DOMAIN p.plates /\ i # j
    BY <1>2
  <2> HIDE DEF m, q, mats, p, new
  <2> QED BY ONLY <2>1, <2>2, TwoEdits
<1> HIDE DEF q, m, new, mats, meshes, gone, moving
<1>16. p.lastObject \in Nat
  BY <1>2 DEF DocumentShape
<1>17. PlateOK(m, m.plates[i], e2, c, s.fresh)
  <2>1. \A x \in Names(new) : x \in DOMAIN m.meshes /\ m.meshes[x].paint = p.meshes[x].paint
    <3>1. Resolves(p, new)
      BY <1>11 DEF PlateOK
    <3> QED BY <3>1, <1>14, NamesResolve DEF Changes
  <2>2. e2 \subseteq e2 /\ (\A x \in c \ c : x # new.id) /\ s.fresh <= s.fresh
    BY <1>2
  <2> HIDE DEF p
  <2>3. PlateOK(m, new, e2, c, s.fresh)
    BY <1>2, <1>11, <1>14, <1>16, <2>1, <2>2, OthersKept
  <2> QED BY <2>3, <1>14
<1>18. DocumentOK(m, e2, c, l \cup meshes, s.fresh)
  <2>1. Allowing(e, c, l, s.fresh, e2, c, l \cup meshes, s.fresh, m.plates[i].id)
    BY <1>2 DEF Allowing
  <2>2. Apart(p, i, m.plates[i])
    BY <1>3, <1>11, <1>14 DEF Apart, IdsApart, GroupsApart
  <2>3. StillNamed(p.plates[i], m.plates[i], l \cup meshes)
    BY <1>3, <1>11, <1>14 DEF StillNamed, meshes
  <2>4. m.plates[i].id = p.plates[i].id
    BY <1>3, <1>11, <1>14
  <2>5. DocumentOK(p, e, c, l, s.fresh) /\ s.fresh \in Nat /\ i \in DOMAIN p.plates /\ Changes(p, m, i)
    BY <1>2, <1>14
  <2> HIDE DEF p
  <2> QED BY ONLY <1>17, <2>1, <2>2, <2>3, <2>4, <2>5, ChangeKeeps
<1>19. j \in DOMAIN m.plates /\ m.plates[j] = dst /\ m.meshes = p.meshes /\ DocumentShape(m)
  BY <1>3, <1>14, <1>18 DEF Changes, DocumentOK
<1>20. PlateOK(q, q.plates[j], e2, c2, s.fresh)
  <2>1. \A x \in Names(landed) : x \in DOMAIN q.meshes /\ q.meshes[x].paint = p.meshes[x].paint
    <3>1. Resolves(p, landed)
      BY <1>13 DEF PlateOK
    <3> QED BY <3>1, <1>15, <1>19, NamesResolve DEF Changes
  <2>2. e2 \subseteq e2 /\ (\A x \in c2 \ c2 : x # landed.id) /\ s.fresh <= s.fresh /\ q.lastObject >= p.lastObject
    BY <1>2, <1>15, <1>16
  <2> HIDE DEF p
  <2>3. PlateOK(q, landed, e2, c2, s.fresh)
    BY <1>2, <1>13, <1>15, <1>16, <2>1, <2>2, OthersKept
  <2> QED BY <2>3, <1>15
<1>21. landed.id = dst.id
  BY <1>10 DEF Landed
<1>22. Apart(m, j, landed)
  <2> SUFFICES ASSUME NEW k \in DOMAIN m.plates, k # j
               PROVE IdsOn(landed) \cap IdsOn(m.plates[k]) = {} /\ GroupsOn(landed) \cap GroupsOn(m.plates[k]) = {}
    BY DEF Apart
  <2>1. GroupsIn(Taken(src, gone)) \subseteq GroupsOn(src)
    BY ObjectsAre DEF GroupsIn, Taken
  <2>2. CASE k = i
    <3>1. IdsOn(landed) \cap IdsOn(new) = {}
      BY <1>11, <1>12, <1>13 DEF Strangers
    <3>2. GroupsOn(dst) \cap GroupsOn(new) = {}
      BY <1>11, <1>12 DEF Strangers
    <3>3. \A o \in ObjectsOn(new) : o.group \notin GroupsIn(Taken(src, gone))
      <4>1. ObjectsOn(new) = {o \in ObjectsOn(src) : o.id \notin gone}
        BY <1>9, <1>11 DEF Remains, ObjectsOn
      <4>2. gone = Expand(src, ids)
        BY DEF gone
      <4> HIDE DEF p
      <4> QED BY <4>1, <4>2, <1>4, WholeGroupsGo
    <3>4. GroupsIn(Taken(src, gone)) \cap GroupsOn(new) = {}
      BY <3>3, ObjectsAre
    <3> QED BY <3>1, <3>2, <3>4, <2>2, <1>13, <1>14
  <2>3. CASE k # i
    <3>1. m.plates[k] = p.plates[k] /\ k \in DOMAIN p.plates
      BY <2>3, <1>14 DEF Changes
    <3>2. IdsOn(src) \cap IdsOn(p.plates[k]) = {} /\ IdsOn(dst) \cap IdsOn(p.plates[k]) = {}
      BY <3>1, <2>3, <1>3 DEF IdsApart
    <3>3. GroupsOn(src) \cap GroupsOn(p.plates[k]) = {} /\ GroupsOn(dst) \cap GroupsOn(p.plates[k]) = {}
      BY <3>1, <2>3, <1>3 DEF GroupsApart
    <3> QED BY <3>1, <3>2, <3>3, <2>1, <1>5, <1>13
  <2> QED BY <2>2, <2>3
<1>23. DocumentOK(q, e2, c2, l \cup meshes, s.fresh)
  <2> DEFINE l2 == l \cup meshes
  <2>1. Allowing(e2, c, l2, s.fresh, e2, c2, l2, s.fresh, q.plates[j].id)
    BY <1>2 DEF Allowing
  <2>2. Apart(m, j, q.plates[j]) /\ q.plates[j].id = m.plates[j].id
    BY <1>15, <1>19, <1>21, <1>22
  <2>3. StillNamed(m.plates[j], q.plates[j], l2)
    BY <1>13, <1>15, <1>19 DEF StillNamed
  <2>4. DocumentOK(m, e2, c, l2, s.fresh) /\ s.fresh \in Nat /\ j \in DOMAIN m.plates /\ Changes(m, q, j)
    BY <1>2, <1>15, <1>18, <1>19
  <2> HIDE DEF l2
  <2>5. DocumentOK(q, e2, c2, l2, s.fresh)
    BY ONLY <1>20, <2>1, <2>2, <2>3, <2>4, ChangeKeeps
  <2> QED BY <2>5 DEF l2
<1>24. DocumentOK(q, e2, c2, l, s.fresh)
  <2>1. \A x \in l \cup meshes : x \in l \/ x \in Referenced(q)
    <3>1. j \in DOMAIN q.plates /\ q.plates[j] = landed
      BY <1>15, <1>19 DEF Changes
    <3>2. \A x \in meshes : x \in Names(q.plates[j])
      BY <1>13, <3>1 DEF meshes
    <3>3. \A x \in meshes : x \in Referenced(q)
      BY <3>1, <3>2, ReferencedIs
    <3> QED BY <3>3
  <2> QED BY <1>23, <2>1, Unleaked
<1>25. SelectionOK(m, sel)
  <2>1. less \subseteq IdsOn(m.plates[i])
    <3>1. s.selection[src.id] \subseteq IdsOn(src)
      BY <1>2, <1>3 DEF SelectionOK
    <3> QED BY <3>1, <1>7, <1>11, <1>14
  <2>2. src.id = p.plates[i].id /\ m.plates[i].id = src.id /\ sel = [s.selection EXCEPT ![src.id] = less]
    BY <1>3, <1>11, <1>14
  <2>3. DOMAIN m.plates = DOMAIN p.plates /\ \A k \in DOMAIN p.plates : k # i => m.plates[k] = p.plates[k]
    BY <1>14 DEF Changes
  <2>4. IdsApart(p) /\ SelectionOK(p, s.selection) /\ i \in DOMAIN p.plates
    BY <1>2, <1>3
  <2> HIDE DEF less, sel, p
  <2> QED BY <2>1, <2>2, <2>3, <2>4, SelectionEdited
<1> HIDE DEF sel
<1>26. SelectionOK(q, sel)
  <2>1. DOMAIN q.plates = DOMAIN m.plates
    BY <1>15 DEF Changes
  <2>2. \A k \in DOMAIN m.plates : q.plates[k].id = m.plates[k].id /\ IdsOn(m.plates[k]) \subseteq IdsOn(q.plates[k])
    <3> TAKE k \in DOMAIN m.plates
    <3>1. k # j => q.plates[k] = m.plates[k]
      BY <1>15 DEF Changes
    <3>2. q.plates[j].id = m.plates[j].id /\ IdsOn(m.plates[j]) \subseteq IdsOn(q.plates[j])
      BY <1>13, <1>15, <1>19, <1>21
    <3> QED BY <3>1, <3>2
  <2> QED BY <1>25, <2>1, <2>2, SelectionKept
<1>27. /\ DOMAIN t = DOMAIN s /\ t.project = q /\ t.selection = sel /\ t.cache = s.cache /\ t.fresh = s.fresh
  BY <1>1, <1>2
<1>28. SessionOK(t, e2, c2, l)
  BY <1>2, <1>24, <1>26, <1>27 DEF SessionOK
<1>29. q.meshes = p.meshes /\ q.lastMesh = p.lastMesh
  BY <1>14, <1>15 DEF Changes
<1>30. PoolStep(p, q)
  BY <1>2, <1>29, PoolStays
<1>31. CacheOK(s) => CacheOK(t)
  BY <1>27, <1>29 DEF CacheOK
<1>32. t.fresh >= s.fresh
  BY <1>2, <1>27
<1> QED BY <1>27, <1>28, <1>30, <1>31, <1>32 DEF Result

-----------------------------------------------------------------------------
(* Plates. *)

(* The largest plate id. *)
LEMMA NextIdIs ==
  ASSUME NEW p, DocumentShape(p)
  PROVE  /\ NextPlateId(p) \in Nat /\ \A i \in DOMAIN p.plates : p.plates[i].id < NextPlateId(p)
         /\ \E i \in DOMAIN p.plates : NextPlateId(p) = p.plates[i].id + 1
<1> DEFINE n == Len(p.plates)
           Over2(m, b) == \A i \in 1..m : p.plates[i].id <= b
<1>1. n \in Nat /\ DOMAIN p.plates = 1..n /\ p.active \in 1..n /\ \A i \in 1..n : p.plates[i].id \in Nat
  BY DEF DocumentShape, PlateShape
<1> HIDE DEF n
<1>2. \E b \in Nat : Over2(n, b)
  <2> DEFINE T == {m \in 0..n : \E b \in Nat : Over2(m, b)}
  <2>1. 0 \in T
    <3>1. Over2(0, 0)
      OBVIOUS
    <3> HIDE DEF Over2
    <3> QED BY <3>1, <1>1
  <2>2. ASSUME NEW m \in 1..n, m - 1 \in T PROVE m \in T
    <3>1. PICK b \in Nat : Over2(m - 1, b)
      BY <2>2
    <3> DEFINE x == p.plates[m].id
               y == IF x <= b THEN b ELSE x
    <3>2. x \in Nat
      BY <1>1
    <3>3. y \in Nat /\ b <= y /\ x <= y
      BY <3>2
    <3>4. ASSUME NEW i \in 1..m PROVE p.plates[i].id <= y
      <4>1. i \in 1..(m - 1) \/ i = m
        BY <1>1
      <4>2. p.plates[i].id \in Nat
        BY <1>1
      <4> HIDE DEF y
      <4>3. i \in 1..(m - 1) => p.plates[i].id <= b
        BY <3>1
      <4> QED BY <3>3, <4>1, <4>2, <4>3
    <3>5. Over2(m, y) /\ m \in 0..n
      BY <3>4, <1>1
    <3> HIDE DEF Over2, y
    <3> QED BY <3>3, <3>5
  <2> HIDE DEF T
  <2>3. \A i \in 0..n : i \in T
    BY <1>1, <2>1, <2>2, UpTo, Zenon
  <2>4. n \in T
    BY <2>3, <1>1
  <2> QED BY <2>4 DEF T
<1> DEFINE U == {b \in Nat : Over2(n, b)}
<1>3. U \in SUBSET Nat /\ U # {}
  BY <1>2
<1>4. PICK b \in U : \A k \in U : b <= k
  <2> HIDE DEF U
  <2> QED BY <1>3, LeastOne
<1>5. b \in Nat /\ \A i \in 1..n : p.plates[i].id <= b
  OBVIOUS
<1>6. \E i \in 1..n : p.plates[i].id = b
  <2> SUFFICES ASSUME \A i \in 1..n : p.plates[i].id # b PROVE FALSE
    OBVIOUS
  <2>1. \A i \in 1..n : p.plates[i].id <= b - 1
    BY <1>1, <1>5
  <2>2. b - 1 \in Nat
    BY <1>1, <1>5, <2>1
  <2>3. b - 1 \in U
    BY <2>1, <2>2
  <2> HIDE DEF U
  <2> QED BY <1>4, <1>5, <2>3
<1> HIDE DEF U, Over2
<1> DEFINE ids == {p.plates[i].id : i \in DOMAIN p.plates}
           IsMax(id) == \A i \in DOMAIN p.plates : p.plates[i].id <= id
           top == CHOOSE id \in ids : IsMax(id)
<1>7. b \in ids /\ IsMax(b)
  BY <1>1, <1>5, <1>6
<1>8. top \in ids /\ IsMax(top)
  <2> HIDE DEF ids, IsMax
  <2> QED BY <1>7
<1>9. NextPlateId(p) = 1 + top
  BY Zenon DEF NextPlateId
<1>10. top \in Nat /\ \A i \in DOMAIN p.plates : p.plates[i].id <= top
  BY <1>1, <1>8
<1>11. \E i \in DOMAIN p.plates : top = p.plates[i].id
  BY <1>8
<1> HIDE DEF top, ids, IsMax
<1> QED BY <1>1, <1>9, <1>10, <1>11

LEMMA NewPlateIs ==
  ASSUME NEW id \in Nat, NEW printer \in Instances \cup {Unbound}, NEW plate, plate = NewPlate(id, printer),
         NEW p, NEW e, NEW c, NEW f
  PROVE  /\ PlateOK(p, plate, e, c, f) /\ plate.id = id /\ plate.printer = printer
         /\ IdsOn(plate) = {} /\ GroupsOn(plate) = {} /\ Names(plate) = {}
<1>1. /\ DOMAIN plate = {"id", "printer", "objects", "groups", "over", "mods", "slots"}
      /\ plate.id = id /\ plate.printer = printer /\ plate.objects = << >> /\ plate.mods = << >> /\ plate.slots = << >>
  BY DEF NewPlate
<1>2. DOMAIN plate.objects = {} /\ DOMAIN plate.mods = {} /\ DOMAIN plate.slots = {} /\ plate.objects \in Seq(Objects)
  BY <1>1
<1>3. IdsOn(plate) = {} /\ GroupsOn(plate) = {} /\ Names(plate) = {}
  BY <1>2, OnPlate, NamesIs
<1>4. MaterialsOn(p, plate) = {}
  BY <1>2, MaterialsAre
<1>5. PlateShape(plate)
  BY <1>1, <1>2 DEF PlateShape
<1>6. Resolves(p, plate)
  BY <1>2 DEF Resolves
<1>7. UseIsBound(p, plate, e) /\ Fits(plate)
  BY <1>2, <1>4 DEF UseIsBound, Fits
<1> QED BY <1>1, <1>3, <1>5, <1>6, <1>7 DEF PlateOK

(* q is p with one plate more, an empty one. *)
PlateAdded(p, q, printer) ==
  LET n == Len(q.plates)
  IN /\ n = Len(p.plates) + 1 /\ q.active = p.active /\ q.meshes = p.meshes
     /\ DOMAIN q.plates = DOMAIN p.plates \cup {n} /\ n \notin DOMAIN p.plates
     /\ \A i \in DOMAIN p.plates : q.plates[i] = p.plates[i]
     /\ q.plates[n].id = NextPlateId(p)
     /\ q.plates[n].printer = IF printer = Unbound THEN ActivePlate(p).printer ELSE printer

LEMMA AddPlateKeeps ==
  ASSUME NEW s, NEW e, NEW c, NEW l, SessionOK(s, e, c, l), NEW printer \in Instances \cup {Unbound},
         NEW q, q = AddPlate(s.project, printer), NEW t, t = Reconcile([s EXCEPT !.project = q])
  PROVE  Result(s, t, e, c, l) /\ t.project = q /\ PlateAdded(s.project, q, printer)
<1> DEFINE p == s.project
           bound == IF printer = Unbound THEN ActivePlate(p).printer ELSE printer
           id == NextPlateId(p)
           new == NewPlate(id, bound)
           n == Len(p.plates)
           u == [s EXCEPT !.project = q]
           plates == p.plates
<1>1. /\ DocumentShape(p) /\ s.fresh \in Nat /\ DocumentOK(p, e, c, l, s.fresh) /\ SelectionOK(p, s.selection)
      /\ DOMAIN s = {"project", "selection", "cache", "fresh"} /\ PlateShape(ActivePlate(p))
  BY Active DEF SessionOK
<1>2. q = [p EXCEPT !.plates = Append(@, new)]
  BY Zenon DEF AddPlate
<1>3. id \in Nat /\ \A i \in DOMAIN plates : plates[i].id < id
  <2> HIDE DEF p
  <2> QED BY <1>1, NextIdIs DEF p
<1>4. bound \in Instances \cup {Unbound}
  BY <1>1 DEF PlateShape
<1> HIDE DEF id, bound
<1>5. /\ new.id = id /\ new.printer = bound
      /\ IdsOn(new) = {} /\ GroupsOn(new) = {} /\ Names(new) = {}
      /\ PlateOK(q, new, e, c, s.fresh)
  BY <1>3, <1>4, NewPlateIs
<1> HIDE DEF new
<1>6. /\ DOMAIN q = DOMAIN p /\ q.plates = Append(plates, new) /\ q.active = p.active /\ q.meshes = p.meshes
      /\ q.lastMesh = p.lastMesh /\ q.lastObject = p.lastObject
  BY <1>1, <1>2 DEF DocumentShape
<1>7. /\ plates \in Seq({plates[i] : i \in DOMAIN plates}) /\ n \in Nat /\ DOMAIN plates = 1..n
  BY <1>1 DEF DocumentShape
<1>8. /\ DOMAIN q.plates = 1..(n + 1) /\ \A i \in 1..n : q.plates[i] = plates[i]
      /\ q.plates[n + 1] = new /\ Len(q.plates) = n + 1
      /\ q.plates \in Seq({q.plates[i] : i \in DOMAIN q.plates})
  <2> DEFINE S == {plates[i] : i \in DOMAIN plates} \cup {new}
             r == Append(plates, new)
  <2>1. plates \in Seq(S) /\ new \in S
    BY <1>7
  <2>2. /\ r \in Seq(S) /\ DOMAIN r = 1..(Len(plates) + 1) /\ DOMAIN plates = 1..Len(plates)
        /\ Len(plates) \in Nat /\ r[Len(plates) + 1] = new /\ \A k \in 1..Len(plates) : r[k] = plates[k]
    <3> HIDE DEF S, plates
    <3> QED BY <2>1, Longer
  <2>3. r = [i \in 1..(n + 1) |-> r[i]]
    BY <2>2
  <2> HIDE DEF r, S
  <2>4. r \in Seq({r[i] : i \in 1..(n + 1)}) /\ Len(r) = n + 1
    BY <2>3, <1>7
  <2> QED BY <2>2, <2>4, <1>6 DEF r
<1> HIDE DEF n
<1>80. \A i : i \in 1..(n + 1) <=> i \in 1..n \/ i = n + 1
  BY <1>7
<1>81. n + 1 \notin 1..n
  BY <1>7
<1>9. DocumentShape(q)
  <2>1. \A i \in DOMAIN q.plates : PlateShape(q.plates[i])
    <3> TAKE i \in DOMAIN q.plates
    <3>1. i \in 1..n \/ i = n + 1
      BY <1>7, <1>8
    <3>2. i \in 1..n => PlateShape(plates[i])
      BY <1>1, <1>7 DEF DocumentShape
    <3> QED BY <3>1, <3>2, <1>5, <1>8 DEF PlateOK
  <2>2. q.active \in DOMAIN q.plates
    BY <1>1, <1>6, <1>7, <1>8 DEF DocumentShape
  <2> QED BY <1>1, <1>6, <1>8, <2>1, <2>2 DEF DocumentShape
<1>10. ASSUME NEW i \in 1..(n + 1), NEW j \in 1..(n + 1), i # j
       PROVE  /\ q.plates[i].id # q.plates[j].id
              /\ IdsOn(q.plates[i]) \cap IdsOn(q.plates[j]) = {}
              /\ GroupsOn(q.plates[i]) \cap GroupsOn(q.plates[j]) = {}
  <2>1. CASE i \in 1..n /\ j \in 1..n
    <3>1. IdsApart(p) /\ GroupsApart(p)
      BY <1>1 DEF DocumentOK
    <3> QED BY <2>1, <3>1, <1>7, <1>8, <1>10 DEF IdsApart, GroupsApart
  <2>2. CASE i = n + 1 /\ j \in 1..n
    <3>1. plates[j].id < id /\ plates[j].id \in Nat
      BY <2>2, <1>1, <1>3, <1>7 DEF DocumentShape, PlateShape
    <3>2. plates[j].id # id
      BY <3>1, <1>3
    <3> QED BY <2>2, <3>2, <1>5, <1>8
  <2>3. CASE i \in 1..n /\ j = n + 1
    <3>1. plates[i].id < id /\ plates[i].id \in Nat
      BY <2>3, <1>1, <1>3, <1>7 DEF DocumentShape, PlateShape
    <3>2. plates[i].id # id
      BY <3>1, <1>3
    <3> QED BY <2>3, <3>2, <1>5, <1>8
  <2>4. (i \in 1..n \/ i = n + 1) /\ (j \in 1..n \/ j = n + 1)
    BY <1>10, <1>80
  <2>5. ~ (i = n + 1 /\ j = n + 1)
    BY <1>10
  <2>6. CASE i \in 1..n /\ j \in 1..n
    BY ONLY <2>1, <2>6
  <2>7. CASE i = n + 1 /\ j \in 1..n
    BY ONLY <2>2, <2>7
  <2>8. CASE i \in 1..n /\ j = n + 1
    BY ONLY <2>3, <2>8
  <2> QED BY ONLY <2>4, <2>5, <2>6, <2>7, <2>8
<1>11. IdsApart(q) /\ GroupsApart(q)
  BY ONLY <1>8, <1>10, Zenon DEF IdsApart, GroupsApart
<1>12. ASSUME NEW i \in DOMAIN q.plates PROVE PlateOK(q, q.plates[i], e, c, s.fresh)
  <2>1. CASE i \in 1..n
    <3> DEFINE plate == plates[i]
    <3>1. PlateOK(p, plate, e, c, s.fresh)
      BY <2>1, <1>1, <1>7 DEF DocumentOK
    <3>2. \A x \in Names(plate) : x \in DOMAIN q.meshes /\ q.meshes[x].paint = p.meshes[x].paint
      BY <3>1, <1>6, NamesResolve DEF PlateOK
    <3>3. p.lastObject \in Nat /\ q.lastObject \in Nat /\ q.lastObject >= p.lastObject /\ e \subseteq e
          /\ (\A x \in c \ c : x # plate.id) /\ s.fresh <= s.fresh /\ s.fresh \in Nat
      BY <1>1, <1>6 DEF DocumentShape
    <3>4. q.plates[i] = plate
      BY <2>1, <1>8
    <3> HIDE DEF p, plate
    <3> QED BY <3>1, <3>2, <3>3, <3>4, OthersKept
  <2>2. CASE i = n + 1
    BY <2>2, <1>5, <1>8
  <2> QED BY <2>1, <2>2, <1>7, <1>8
<1>13. \A m \in DOMAIN q.meshes : m \in Referenced(q) \cup l
  <2> TAKE m \in DOMAIN q.meshes
  <2>1. m \in Referenced(p) \cup l
    BY <1>1, <1>6 DEF DocumentOK
  <2>2. ASSUME m \in Referenced(p) PROVE m \in Referenced(q)
    <3>1. PICK i \in DOMAIN p.plates : m \in Names(p.plates[i])
      BY <2>2, ReferencedIs
    <3>2. i \in DOMAIN q.plates /\ q.plates[i] = p.plates[i]
      BY <3>1, <1>7, <1>8, <1>80
    <3> QED BY <3>1, <3>2, ReferencedIs
  <2> QED BY <2>1, <2>2
<1>14. DocumentOK(q, e, c, l, s.fresh)
  BY <1>9, <1>11, <1>12, <1>13 DEF DocumentOK
<1>15. /\ DOMAIN u = DOMAIN s /\ u.project = q /\ u.selection = s.selection /\ u.cache = s.cache /\ u.fresh = s.fresh
  BY <1>1
<1> HIDE DEF u
<1>16. \A i \in DOMAIN q.plates : q.plates[i].id \in DOMAIN s.selection =>
          s.selection[q.plates[i].id] \subseteq IdsOn(q.plates[i])
  <2> TAKE i \in DOMAIN q.plates
  <2>1. i \in 1..n => s.selection[q.plates[i].id] \subseteq IdsOn(q.plates[i])
    BY <1>1, <1>7, <1>8 DEF SelectionOK
  <2>2. id \notin DOMAIN s.selection
    <3>1. \A k \in DOMAIN plates : plates[k].id # id
      <4> TAKE k \in DOMAIN plates
      <4>1. plates[k].id < id /\ plates[k].id \in Nat
        BY <1>1, <1>3, <1>7 DEF DocumentShape, PlateShape
      <4> QED BY <4>1, <1>3
    <3> QED BY <3>1, <1>1 DEF SelectionOK, PlateIdsOf
  <2>3. i = n + 1 => q.plates[i].id \notin DOMAIN s.selection
    BY <2>2, <1>5, <1>8
  <2> QED BY <2>1, <2>3, <1>7, <1>8
<1>17. SessionOK(t, e, c, l) /\ t.project = q /\ t.cache = s.cache /\ t.fresh = s.fresh
  <2>1. DOMAIN u = {"project", "selection", "cache", "fresh"} /\ u.fresh \in Nat /\ t = Reconcile(u)
        /\ DocumentOK(u.project, e, c, l, u.fresh)
    BY <1>1, <1>14, <1>15 DEF u
  <2>2. \A i \in DOMAIN u.project.plates : u.project.plates[i].id \in DOMAIN u.selection =>
          u.selection[u.project.plates[i].id] \subseteq IdsOn(u.project.plates[i])
    BY <1>15, <1>16
  <2>3. SessionOK(t, e, c, l) /\ t.project = u.project /\ t.cache = u.cache /\ t.fresh = u.fresh
    BY <2>1, <2>2, Reconciled
  <2> QED BY <2>3, <1>15
<1>18. PoolStep(p, q)
  BY <1>1, <1>6, PoolStays
<1>19. CacheOK(s) => CacheOK(t)
  BY <1>6, <1>17 DEF CacheOK
<1>20. Result(s, t, e, c, l)
  BY <1>1, <1>17, <1>18, <1>19 DEF Result
<1>21. DOMAIN q.plates = DOMAIN p.plates \cup {Len(q.plates)} /\ Len(q.plates) \notin DOMAIN p.plates
  BY <1>7, <1>8, <1>80, <1>81
<1>22. PlateAdded(p, q, printer)
  BY <1>5, <1>6, <1>7, <1>8, <1>21 DEF bound, id, n, PlateAdded
<1> QED BY <1>17, <1>20, <1>22

(* The plates that are left, each where it stood or one before. *)
LEMMA RemovePlateIs ==
  ASSUME NEW p, DocumentShape(p), NEW idx \in DOMAIN p.plates, Len(p.plates) > 1,
         NEW q, q = RemovePlate(p, idx)
  PROVE  /\ DocumentShape(q) /\ q.meshes = p.meshes /\ q.lastMesh = p.lastMesh /\ q.lastObject = p.lastObject
         /\ \A k \in DOMAIN q.plates : \E i \in DOMAIN p.plates : i # idx /\ q.plates[k] = p.plates[i]
         /\ \A i \in DOMAIN p.plates : i # idx => \E k \in DOMAIN q.plates : q.plates[k] = p.plates[i]
         /\ \A j, k \in DOMAIN q.plates : j # k => \E x, y \in DOMAIN p.plates :
               x # y /\ q.plates[j] = p.plates[x] /\ q.plates[k] = p.plates[y]
<1> DEFINE n == Len(p.plates)
           At(k) == IF k < idx THEN k ELSE k + 1
           new == [k \in 1..(n - 1) |-> IF k < idx THEN p.plates[k] ELSE p.plates[k + 1]]
           act == IF p.active = idx THEN (IF idx = n THEN idx - 1 ELSE idx)
                  ELSE IF p.active > idx THEN p.active - 1 ELSE p.active
<1>1. /\ n \in Nat /\ n > 1 /\ DOMAIN p.plates = 1..n /\ p.active \in 1..n /\ idx \in 1..n
      /\ \A i \in 1..n : PlateShape(p.plates[i])
  BY DEF DocumentShape
<1>2. q = [p EXCEPT !.plates = new, !.active = act]
  BY Zenon DEF RemovePlate
<1>3. /\ DOMAIN q = DOMAIN p /\ q.plates = new /\ q.active = act /\ q.meshes = p.meshes
      /\ q.lastMesh = p.lastMesh /\ q.lastObject = p.lastObject
  BY <1>2 DEF DocumentShape
<1> HIDE DEF n
<1>4. DOMAIN new = 1..(n - 1) /\ \A k \in 1..(n - 1) : new[k] = p.plates[At(k)]
  BY DEF new
<1>5. ASSUME NEW k \in 1..(n - 1) PROVE At(k) \in 1..n /\ At(k) # idx
  BY <1>1
<1>6. act \in 1..(n - 1)
  <2>1. CASE p.active = idx
    BY <1>1, <2>1
  <2>2. CASE p.active > idx
    BY <1>1, <2>2
  <2>3. CASE p.active < idx
    BY <1>1, <2>3
  <2> QED BY <2>1, <2>2, <2>3, <1>1
<1>7. new = [k \in 1..(n - 1) |-> new[k]] /\ n - 1 \in Nat
  BY <1>1, <1>4
<1> HIDE DEF new, act
<1>8. new \in Seq({new[k] : k \in DOMAIN new})
  <2>1. new \in Seq({new[k] : k \in 1..(n - 1)})
    BY <1>7
  <2> QED BY <2>1, <1>4
<1>9. DocumentShape(q)
  <2>1. \A k \in DOMAIN q.plates : PlateShape(q.plates[k])
    <3> TAKE k \in DOMAIN q.plates
    <3>1. k \in 1..(n - 1) /\ q.plates[k] = p.plates[At(k)]
      BY <1>3, <1>4
    <3> HIDE DEF At
    <3> QED BY <3>1, <1>1, <1>5
  <2>2. q.plates \in Seq({q.plates[k] : k \in DOMAIN q.plates}) /\ q.active \in DOMAIN q.plates
    BY <1>3, <1>4, <1>6, <1>8
  <2> QED BY <1>3, <2>1, <2>2 DEF DocumentShape
<1>10. ASSUME NEW k \in DOMAIN q.plates PROVE \E i \in DOMAIN p.plates : i # idx /\ q.plates[k] = p.plates[i]
  <2>1. k \in 1..(n - 1) /\ q.plates[k] = p.plates[At(k)]
    BY <1>3, <1>4
  <2> HIDE DEF At
  <2> QED BY <2>1, <1>1, <1>5
<1>11. ASSUME NEW i \in DOMAIN p.plates, i # idx PROVE \E k \in DOMAIN q.plates : q.plates[k] = p.plates[i]
  <2>1. CASE i < idx
    <3>1. i \in 1..(n - 1) /\ At(i) = i
      BY <2>1, <1>1
    <3> QED BY <3>1, <1>3, <1>4
  <2>2. CASE i > idx
    <3>1. i - 1 \in 1..(n - 1) /\ At(i - 1) = i
      BY <2>2, <1>1
    <3> HIDE DEF At
    <3> QED BY <3>1, <1>3, <1>4
  <2> QED BY <2>1, <2>2, <1>1, <1>11
<1>12. ASSUME NEW j \in DOMAIN q.plates, NEW k \in DOMAIN q.plates, j # k
       PROVE  \E x, y \in DOMAIN p.plates : x # y /\ q.plates[j] = p.plates[x] /\ q.plates[k] = p.plates[y]
  <2>1. j \in 1..(n - 1) /\ k \in 1..(n - 1) /\ q.plates[j] = p.plates[At(j)] /\ q.plates[k] = p.plates[At(k)]
    BY <1>3, <1>4
  <2>2. At(j) # At(k)
    BY <2>1, <1>1, <1>12
  <2>3. At(j) \in DOMAIN p.plates /\ At(k) \in DOMAIN p.plates
    BY <2>1, <1>1, <1>5
  <2> HIDE DEF At
  <2> QED BY <2>1, <2>2, <2>3
<1> QED BY <1>3, <1>9, <1>10, <1>11, <1>12

LEMMA RemovePlateKeeps ==
  ASSUME NEW s, NEW e, NEW c, NEW l, SessionOK(s, e, c, l), NEW idx \in DOMAIN s.project.plates,
         Len(s.project.plates) > 1, NEW l2, l \subseteq l2, Names(s.project.plates[idx]) \subseteq l2,
         NEW t, t = Reconcile([s EXCEPT !.project = RemovePlate(s.project, idx)])
  PROVE  Result(s, t, e, c, l2)
<1> DEFINE p == s.project
           q == RemovePlate(p, idx)
           u == [s EXCEPT !.project = q]
<1>1. /\ DocumentShape(p) /\ s.fresh \in Nat /\ DocumentOK(p, e, c, l, s.fresh) /\ SelectionOK(p, s.selection)
      /\ DOMAIN s = {"project", "selection", "cache", "fresh"}
  BY Active DEF SessionOK
<1>2. /\ DocumentShape(q) /\ q.meshes = p.meshes /\ q.lastMesh = p.lastMesh /\ q.lastObject = p.lastObject
      /\ \A k \in DOMAIN q.plates : \E i \in DOMAIN p.plates : i # idx /\ q.plates[k] = p.plates[i]
      /\ \A i \in DOMAIN p.plates : i # idx => \E k \in DOMAIN q.plates : q.plates[k] = p.plates[i]
      /\ \A j, k \in DOMAIN q.plates : j # k => \E x, y \in DOMAIN p.plates :
            x # y /\ q.plates[j] = p.plates[x] /\ q.plates[k] = p.plates[y]
  BY <1>1, RemovePlateIs
<1>3. /\ DOMAIN u = DOMAIN s /\ u.project = q /\ u.selection = s.selection /\ u.cache = s.cache /\ u.fresh = s.fresh
  BY <1>1
<1>4. t = Reconcile(u)
  OBVIOUS
<1> HIDE DEF q, u
<1>5. IdsApart(q) /\ GroupsApart(q)
  <2>1. ASSUME NEW j \in DOMAIN q.plates, NEW k \in DOMAIN q.plates, j # k
        PROVE  /\ q.plates[j].id # q.plates[k].id
               /\ IdsOn(q.plates[j]) \cap IdsOn(q.plates[k]) = {}
               /\ GroupsOn(q.plates[j]) \cap GroupsOn(q.plates[k]) = {}
    <3>1. PICK x, y \in DOMAIN p.plates : x # y /\ q.plates[j] = p.plates[x] /\ q.plates[k] = p.plates[y]
      BY <1>2, <2>1
    <3>2. IdsApart(p) /\ GroupsApart(p)
      BY <1>1 DEF DocumentOK
    <3> QED BY <3>1, <3>2 DEF IdsApart, GroupsApart
  <2> QED BY <2>1 DEF IdsApart, GroupsApart
<1>6. ASSUME NEW k \in DOMAIN q.plates
      PROVE  PlateOK(q, q.plates[k], e, c, s.fresh) /\
             (q.plates[k].id \in DOMAIN s.selection => s.selection[q.plates[k].id] \subseteq IdsOn(q.plates[k]))
  <2>1. PICK i \in DOMAIN p.plates : i # idx /\ q.plates[k] = p.plates[i]
    BY <1>2
  <2> DEFINE plate == p.plates[i]
  <2>2. PlateOK(p, plate, e, c, s.fresh)
    BY <1>1 DEF DocumentOK
  <2>3. \A x \in Names(plate) : x \in DOMAIN q.meshes /\ q.meshes[x].paint = p.meshes[x].paint
    BY <2>2, <1>2, NamesResolve DEF PlateOK
  <2>4. p.lastObject \in Nat /\ q.lastObject \in Nat /\ q.lastObject >= p.lastObject /\ e \subseteq e
        /\ (\A x \in c \ c : x # plate.id) /\ s.fresh <= s.fresh /\ s.fresh \in Nat
    <3>1. q.lastObject = p.lastObject /\ p.lastObject \in Nat /\ s.fresh \in Nat
      BY <1>1, <1>2 DEF DocumentShape
    <3> QED BY ONLY <3>1
  <2>5. q.plates[k] = plate
    BY <2>1
  <2>6. s.selection[plate.id] \subseteq IdsOn(plate)
    BY <1>1 DEF SelectionOK
  <2> HIDE DEF p, plate
  <2>7. PlateOK(q, plate, e, c, s.fresh)
    BY ONLY <2>2, <2>3, <2>4, OthersKept
  <2> QED BY <2>5, <2>6, <2>7
<1>7. \A m \in DOMAIN q.meshes : m \in Referenced(q) \cup l2
  <2> TAKE m \in DOMAIN q.meshes
  <2>1. m \in Referenced(p) \cup l
    BY <1>1, <1>2 DEF DocumentOK
  <2>2. ASSUME m \in Referenced(p), m \notin l2 PROVE m \in Referenced(q)
    <3>1. PICK i \in DOMAIN p.plates : m \in Names(p.plates[i])
      BY <2>2, ReferencedIs
    <3>2. i # idx
      BY <3>1, <2>2
    <3>3. PICK k \in DOMAIN q.plates : q.plates[k] = p.plates[i]
      BY <3>2, <1>2
    <3> QED BY <3>1, <3>3, ReferencedIs
  <2> QED BY <2>1, <2>2
<1>8. DocumentOK(q, e, c, l2, s.fresh)
  BY <1>2, <1>5, <1>6, <1>7 DEF DocumentOK
<1>9. SessionOK(t, e, c, l2) /\ t.project = q /\ t.cache = s.cache /\ t.fresh = s.fresh
  <2>1. DOMAIN u = {"project", "selection", "cache", "fresh"} /\ u.fresh \in Nat /\ DocumentOK(u.project, e, c, l2, u.fresh)
    BY <1>1, <1>3, <1>8
  <2>2. \A k \in DOMAIN u.project.plates : u.project.plates[k].id \in DOMAIN u.selection =>
          u.selection[u.project.plates[k].id] \subseteq IdsOn(u.project.plates[k])
    BY <1>3, <1>6
  <2>3. SessionOK(t, e, c, l2) /\ t.project = u.project /\ t.cache = u.cache /\ t.fresh = u.fresh
    BY <1>4, <2>1, <2>2, Reconciled
  <2> QED BY <2>3, <1>3
<1>10. PoolStep(p, q)
  BY <1>1, <1>2, PoolStays
<1>11. CacheOK(s) => CacheOK(t)
  BY <1>2, <1>9 DEF CacheOK
<1> QED BY <1>1, <1>9, <1>10, <1>11 DEF Result

-----------------------------------------------------------------------------
(* Selecting, switching plates, painting. *)

LEMMA SelectKeeps ==
  ASSUME NEW s, NEW e, NEW c, NEW l, SessionOK(s, e, c, l), NEW ids, NEW mode \in {"replace", "add", "toggle"},
         NEW t, t = Select(s, ids, mode)
  PROVE  Result(s, t, e, c, l) /\ t.project = s.project
<1> DEFINE p == s.project
           plate == ActivePlate(p)
           present == ids \cap IdsOn(plate)
           old == s.selection[plate.id]
           new == CASE mode = "replace" -> present
                    [] mode = "add" -> old \cup present
                    [] mode = "toggle" -> IF present # {} /\ present \subseteq old
                                          THEN old \ present ELSE old \cup present
           sel == [s.selection EXCEPT ![plate.id] = new]
<1>1. t = [s EXCEPT !.selection = sel]
  BY Zenon DEF Select
<1>2. /\ DocumentShape(p) /\ s.fresh \in Nat /\ DocumentOK(p, e, c, l, s.fresh) /\ SelectionOK(p, s.selection)
      /\ DOMAIN s = {"project", "selection", "cache", "fresh"}
      /\ p.active \in DOMAIN p.plates /\ plate = p.plates[p.active]
  BY Active DEF SessionOK
<1>3. old \subseteq IdsOn(plate)
  BY <1>2 DEF SelectionOK
<1>4. new \subseteq IdsOn(plate)
  <2> HIDE DEF old, plate
  <2> QED BY <1>3
<1>5. DOMAIN t = DOMAIN s /\ t.project = p /\ t.selection = sel /\ t.cache = s.cache /\ t.fresh = s.fresh
  BY <1>1, <1>2, Zenon
<1>6. SelectionOK(p, sel)
  <2> DEFINE id == plate.id
             i == p.active
  <2>1. sel = [s.selection EXCEPT ![id] = new] /\ id = p.plates[i].id /\ new \subseteq IdsOn(p.plates[i])
        /\ IdsApart(p) /\ i \in DOMAIN p.plates
    BY <1>2, <1>4, Zenon DEF DocumentOK
  <2>2. SelectionOK(p, s.selection) /\ \A j \in DOMAIN p.plates : j # i => p.plates[j] = p.plates[j]
    BY <1>2
  <2> HIDE DEF new, sel, p, id, plate, i
  <2> QED BY ONLY <2>1, <2>2, SelectionEdited
<1>7. SessionOK(t, e, c, l)
  BY <1>2, <1>5, <1>6, Zenon DEF SessionOK
<1>8. PoolStep(p, p)
  BY <1>2, PoolStays
<1>9. CacheOK(s) => CacheOK(t)
  BY <1>5 DEF CacheOK
<1>10. t.fresh >= s.fresh /\ t.project = s.project /\ PoolStep(s.project, t.project)
  <2>1. t.fresh = s.fresh /\ t.project = p /\ s.fresh \in Nat /\ p = s.project
    BY <1>2, <1>5, Zenon
  <2> HIDE DEF new, sel, p
  <2> QED BY ONLY <1>8, <2>1
<1> QED BY ONLY <1>7, <1>9, <1>10, Zenon DEF Result

LEMMA ActivateKeeps ==
  ASSUME NEW s, NEW e, NEW c, NEW l, SessionOK(s, e, c, l), NEW i \in DOMAIN s.project.plates,
         NEW t, t = [s EXCEPT !.project.active = i]
  PROVE  Result(s, t, e, c, l)
<1> DEFINE p == s.project
           q == [p EXCEPT !.active = i]
<1>1. /\ DocumentShape(p) /\ s.fresh \in Nat /\ DocumentOK(p, e, c, l, s.fresh) /\ SelectionOK(p, s.selection)
      /\ DOMAIN s = {"project", "selection", "cache", "fresh"}
  BY Active DEF SessionOK
<1>2. DOMAIN t = DOMAIN s /\ t.project = q /\ t.selection = s.selection /\ t.cache = s.cache /\ t.fresh = s.fresh
  BY <1>1
<1>3. /\ DOMAIN q = DOMAIN p /\ q.plates = p.plates /\ q.active = i /\ q.meshes = p.meshes
      /\ q.lastMesh = p.lastMesh /\ q.lastObject = p.lastObject
  BY <1>1 DEF DocumentShape
<1> HIDE DEF q
<1>4. DocumentShape(q)
  BY <1>1, <1>3 DEF DocumentShape
<1>5. IdsApart(q) /\ GroupsApart(q) /\ Referenced(q) = Referenced(p)
  <2>1. IdsApart(q) /\ GroupsApart(q)
    BY <1>1, <1>3 DEF DocumentOK, IdsApart, GroupsApart
  <2>2. Referenced(q) = Referenced(p)
    BY <1>3 DEF Referenced, AllObjects
  <2> QED BY <2>1, <2>2
<1>6. ASSUME NEW k \in DOMAIN q.plates PROVE PlateOK(q, q.plates[k], e, c, s.fresh)
  <2> DEFINE plate == p.plates[k]
  <2>1. PlateOK(p, plate, e, c, s.fresh)
    BY <1>1, <1>3 DEF DocumentOK
  <2>2. \A x \in Names(plate) : x \in DOMAIN q.meshes /\ q.meshes[x].paint = p.meshes[x].paint
    BY <2>1, <1>3, NamesResolve DEF PlateOK
  <2>3. p.lastObject \in Nat /\ q.lastObject \in Nat /\ q.lastObject >= p.lastObject /\ e \subseteq e
        /\ (\A x \in c \ c : x # plate.id) /\ s.fresh <= s.fresh /\ s.fresh \in Nat
    BY <1>1, <1>3 DEF DocumentShape
  <2>4. q.plates[k] = plate
    BY <1>3
  <2> HIDE DEF p, plate
  <2>5. PlateOK(q, plate, e, c, s.fresh)
    BY ONLY <2>1, <2>2, <2>3, OthersKept
  <2> QED BY <2>4, <2>5
<1>7. DocumentOK(q, e, c, l, s.fresh)
  BY <1>1, <1>3, <1>4, <1>5, <1>6 DEF DocumentOK
<1>8. SelectionOK(q, s.selection)
  <2>1. \A k \in DOMAIN p.plates : q.plates[k].id = p.plates[k].id /\ IdsOn(p.plates[k]) \subseteq IdsOn(q.plates[k])
    BY <1>3
  <2> HIDE DEF p
  <2> QED BY <1>1, <1>3, <2>1, SelectionKept
<1>9. SessionOK(t, e, c, l)
  BY <1>1, <1>2, <1>7, <1>8 DEF SessionOK
<1>10. PoolStep(p, q)
  BY <1>1, <1>3, PoolStays
<1>11. CacheOK(s) => CacheOK(t)
  BY <1>2, <1>3 DEF CacheOK
<1> QED BY <1>1, <1>2, <1>9, <1>10, <1>11 DEF Result

LEMMA StrokeKeeps ==
  ASSUME NEW s, NEW e, NEW c, NEW l, SessionOK(s, e, c, l), NEW m \in DOMAIN s.project.meshes, NEW painted,
         NEW t, t = [s EXCEPT !.project.meshes[m].sup = painted]
  PROVE  /\ Result(s, t, e, c, l) /\ DOMAIN t.project.meshes = DOMAIN s.project.meshes
         /\ t.project.lastMesh = s.project.lastMesh
         /\ \A x \in DOMAIN s.project.meshes : t.project.meshes[x].of = s.project.meshes[x].of
<1> DEFINE p == s.project
           pool == [p.meshes EXCEPT ![m] = [p.meshes[m] EXCEPT !.sup = painted]]
           q == [p EXCEPT !.meshes = pool]
<1>1. /\ DocumentShape(p) /\ s.fresh \in Nat /\ DocumentOK(p, e, c, l, s.fresh) /\ SelectionOK(p, s.selection)
      /\ DOMAIN s = {"project", "selection", "cache", "fresh"}
  BY Active DEF SessionOK
<1>2. DOMAIN t = DOMAIN s /\ t.project = q /\ t.selection = s.selection /\ t.cache = s.cache /\ t.fresh = s.fresh
  BY <1>1
<1>3. /\ DOMAIN q = DOMAIN p /\ q.plates = p.plates /\ q.active = p.active /\ q.meshes = pool
      /\ q.lastMesh = p.lastMesh /\ q.lastObject = p.lastObject
  BY <1>1 DEF DocumentShape
<1>4. /\ DOMAIN pool = DOMAIN p.meshes
      /\ \A x \in DOMAIN p.meshes : /\ MeshShape(pool[x]) /\ pool[x].of = p.meshes[x].of
                                    /\ pool[x].paint = p.meshes[x].paint /\ x \in 1..p.lastMesh
  <2>1. \A x \in DOMAIN p.meshes : MeshShape(p.meshes[x]) /\ x \in 1..p.lastMesh
    BY <1>1 DEF DocumentShape, MeshShape
  <2>6. ASSUME NEW x \in DOMAIN p.meshes
        PROVE  /\ MeshShape(pool[x]) /\ pool[x].of = p.meshes[x].of
               /\ pool[x].paint = p.meshes[x].paint /\ x \in 1..p.lastMesh
    <3>2. x # m => pool[x] = p.meshes[x]
      OBVIOUS
    <3>3. DOMAIN pool[m] = DOMAIN p.meshes[m] /\ pool[m].of = p.meshes[m].of /\ pool[m].paint = p.meshes[m].paint
      <4>1. {"of", "paint", "sup"} \subseteq DOMAIN p.meshes[m]
        BY <2>1 DEF MeshShape
      <4> QED BY <4>1
    <3>4. MeshShape(pool[m])
      BY <2>1, <3>3 DEF MeshShape
    <3> HIDE DEF pool
    <3> QED BY <2>1, <3>2, <3>3, <3>4
  <2>7. DOMAIN pool = DOMAIN p.meshes
    OBVIOUS
  <2> HIDE DEF pool
  <2> QED BY <2>6, <2>7
<1> HIDE DEF pool, q
<1>5. DocumentOK(q, e, c, l, s.fresh)
  <2>1. \A x \in DOMAIN q.meshes : x \in 1..q.lastMesh /\ MeshShape(q.meshes[x])
    BY <1>3, <1>4
  <2>2. \A x \in DOMAIN p.meshes : x \in Referenced(p) => x \in DOMAIN q.meshes /\ q.meshes[x].paint = p.meshes[x].paint
    BY <1>3, <1>4
  <2>3. \A x \in DOMAIN q.meshes : x \in Referenced(p) \cup l
    BY <1>1, <1>3, <1>4 DEF DocumentOK
  <2>4. q.lastMesh \in Nat /\ q.lastMesh >= p.lastMesh
    BY <1>1, <1>3 DEF DocumentShape
  <2>5. /\ s.fresh \in Nat /\ DocumentOK(p, e, c, l, s.fresh) /\ DOMAIN q = DOMAIN p
        /\ q.plates = p.plates /\ q.active = p.active /\ q.lastObject = p.lastObject
    BY ONLY <1>1, <1>3
  <2> HIDE DEF p
  <2> QED BY ONLY <2>1, <2>2, <2>3, <2>4, <2>5, PoolChanged
<1>6. SelectionOK(q, s.selection)
  <2>1. \A k \in DOMAIN p.plates : q.plates[k].id = p.plates[k].id /\ IdsOn(p.plates[k]) \subseteq IdsOn(q.plates[k])
    BY <1>3
  <2> HIDE DEF p
  <2> QED BY <1>1, <1>3, <2>1, SelectionKept
<1>7. SessionOK(t, e, c, l)
  BY <1>1, <1>2, <1>5, <1>6 DEF SessionOK
<1>8. PoolStep(p, q)
  BY <1>1, <1>3, <1>4 DEF PoolStep, DocumentShape
<1>9. CacheOK(s) => CacheOK(t)
  BY <1>2, <1>3, <1>4 DEF CacheOK
<1>10. /\ DOMAIN t.project.meshes = DOMAIN s.project.meshes /\ t.project.lastMesh = s.project.lastMesh
       /\ \A x \in DOMAIN s.project.meshes : t.project.meshes[x].of = s.project.meshes[x].of
  BY ONLY <1>2, <1>3, <1>4
<1>11. s.fresh <= t.fresh
  BY ONLY <1>1, <1>2
<1>12. Result(s, t, e, c, l)
  BY ONLY <1>2, <1>7, <1>8, <1>9, <1>11 DEF Result
<1> QED BY ONLY <1>10, <1>12

-----------------------------------------------------------------------------
(* Arranging, filling a plate. *)

LEMMA NextIdSame ==
  ASSUME NEW p, DocumentShape(p), NEW q, DocumentShape(q), DOMAIN q.plates = DOMAIN p.plates,
         \A i \in DOMAIN p.plates : q.plates[i].id = p.plates[i].id
  PROVE  NextPlateId(q) = NextPlateId(p)
<1>1. /\ NextPlateId(p) \in Nat /\ \A i \in DOMAIN p.plates : p.plates[i].id < NextPlateId(p)
      /\ \E i \in DOMAIN p.plates : NextPlateId(p) = p.plates[i].id + 1
  BY NextIdIs
<1>2. /\ NextPlateId(q) \in Nat /\ \A i \in DOMAIN q.plates : q.plates[i].id < NextPlateId(q)
      /\ \E i \in DOMAIN q.plates : NextPlateId(q) = q.plates[i].id + 1
  BY NextIdIs
<1>3. \A i \in DOMAIN p.plates : p.plates[i].id \in Nat
  BY DEF DocumentShape, PlateShape
<1> QED BY <1>1, <1>2, <1>3

(* Object by object the same but for the pose. *)
Posed(plate, new) ==
  /\ DOMAIN new.objects = DOMAIN plate.objects
  /\ \A k \in DOMAIN plate.objects :
       /\ new.objects[k].id = plate.objects[k].id
       /\ new.objects[k].mesh = plate.objects[k].mesh
       /\ new.objects[k].group = plate.objects[k].group

LEMMA PackedIs ==
  ASSUME NEW plate, PlateShape(plate), NEW new, new = Packed(plate)
  PROVE  Like(plate, new) /\ Posed(plate, new) /\ GroupsOn(new) = GroupsOn(plate)
<1> DEFINE objs == [k \in DOMAIN plate.objects |-> [plate.objects[k] EXCEPT !.pose = 0]]
<1>1. /\ DOMAIN new = DOMAIN plate /\ new.id = plate.id /\ new.printer = plate.printer
      /\ new.mods = plate.mods /\ new.slots = plate.slots /\ new.objects = objs
  BY DEF Packed, EditObjects, PlateShape
<1>2. plate.objects \in Seq(Objects) /\ \A k \in DOMAIN plate.objects : plate.objects[k] \in Objects
  BY ShapeObjects
<1>3. ASSUME NEW k \in DOMAIN plate.objects
      PROVE  /\ objs[k] \in Objects /\ objs[k].id = plate.objects[k].id /\ objs[k].mesh = plate.objects[k].mesh
             /\ objs[k].mat = plate.objects[k].mat /\ objs[k].group = plate.objects[k].group
  <2> DEFINE o == plate.objects[k]
             n == [o EXCEPT !.pose = 0]
  <2>1. objs[k] = n /\ o \in Objects
    BY <1>2
  <2> HIDE DEF o, objs
  <2>2. n \in Objects /\ n.id = o.id /\ n.mesh = o.mesh /\ n.mat = o.mat /\ n.group = o.group
    BY <2>1, ObjectEdits
  <2> QED BY <2>1, <2>2 DEF o
<1>4. objs = [k \in DOMAIN plate.objects |-> objs[k]] /\ DOMAIN objs = DOMAIN plate.objects
  OBVIOUS
<1> HIDE DEF objs
<1>5. objs \in Seq(Objects)
  BY <1>2, <1>3, <1>4, Mapped
<1>6. Like(plate, new)
  BY <1>1, <1>3, <1>4, <1>5 DEF Like
<1>7. Posed(plate, new)
  BY <1>1, <1>3, <1>4 DEF Posed
<1>8. GroupsOn(new) = GroupsOn(plate)
  <2>1. \A g : g \in GroupsOn(new) <=> g \in GroupsOn(plate)
    BY <1>7, OnPlate DEF Posed
  <2> QED BY <2>1
<1> QED BY <1>6, <1>7, <1>8

LEMMA PackKeeps ==
  ASSUME NEW s, NEW e, NEW c, NEW l, SessionOK(s, e, c, l), NEW new, new = Packed(ActivePlate(s.project)),
         NEW p, p = EditActive(s.project, new), NEW t, t = [s EXCEPT !.project = p]
  PROVE  /\ Result(s, t, e, c, l) /\ t.project = p /\ Changes(s.project, p, s.project.active)
         /\ p.plates[s.project.active] = new /\ new.id = ActivePlate(s.project).id
         /\ new.printer = ActivePlate(s.project).printer /\ Posed(ActivePlate(s.project), new)
<1> DEFINE a == s.project.active
<1>1. /\ a \in DOMAIN s.project.plates /\ p = EditPlate(s.project, a, new) /\ DocumentShape(s.project)
      /\ ActivePlate(s.project) = s.project.plates[a] /\ PlateShape(s.project.plates[a])
  BY Active
<1>2. Like(s.project.plates[a], new) /\ Posed(s.project.plates[a], new) /\ GroupsOn(new) = GroupsOn(s.project.plates[a])
  BY <1>1, PackedIs
<1>3. GroupsOn(new) \subseteq GroupsOn(s.project.plates[a]) /\ t = [s EXCEPT !.project = EditPlate(s.project, a, new)]
  BY <1>1, <1>2
<1>4. Changes(s.project, p, a) /\ p.plates[a] = new
  BY <1>1, Edited
<1>5. t.project = p
  BY DEF SessionOK
<1> HIDE DEF a
<1>6. Result(s, t, e, c, l)
  BY <1>1, <1>2, <1>3, SettingsKeep
<1>7. new.id = ActivePlate(s.project).id /\ new.printer = ActivePlate(s.project).printer /\ Posed(ActivePlate(s.project), new)
  BY <1>1, <1>2 DEF Like
<1> QED BY <1>4, <1>5, <1>6, <1>7 DEF a

(* Units are whole groups. *)
LEMMA UnitsAreWhole ==
  ASSUME NEW p, NEW plate, Resolves(p, plate), NEW spilled, spilled \subseteq Units(plate),
         NEW new, Posed(plate, new), NEW U, U = UNION spilled
  PROVE  Expand(new, U) \subseteq U
<1> SUFFICES ASSUME NEW x \in Expand(new, U), x \notin U PROVE FALSE
  OBVIOUS
<1>1. PICK o \in ObjectsOn(new) : o.id = x /\ o.group \in GroupsOf(new, U)
  BY DEF Expand
<1>2. PICK y \in ObjectsOn(new) : y.id \in U /\ y.group = o.group /\ o.group # NoGroup
  BY <1>1 DEF GroupsOf
<1>3. PICK S \in spilled : y.id \in S
  BY <1>2
<1>4. PICK id \in IdsOn(plate) : S = Expand(plate, {id})
  BY <1>3 DEF Units
<1>5. PICK k \in DOMAIN new.objects : o = new.objects[k]
  BY OnPlate
<1>6. PICK j \in DOMAIN new.objects : y = new.objects[j]
  BY OnPlate
<1> DEFINE o1 == plate.objects[k]
           y1 == plate.objects[j]
<1>7. /\ o1 \in ObjectsOn(plate) /\ y1 \in ObjectsOn(plate) /\ o1.id = x /\ o1.group = o.group
      /\ y1.id = y.id /\ y1.group = o.group
  BY <1>1, <1>2, <1>5, <1>6, OnPlate DEF Posed
<1>8. PICK z \in ObjectsOn(plate) : z.id = y.id /\ (z.id \in {id} \/ z.group \in GroupsOf(plate, {id}))
  BY <1>3, <1>4 DEF Expand
<1>9. z = y1
  <2>1. PICK i \in DOMAIN plate.objects : z = plate.objects[i]
    BY OnPlate
  <2>2. j \in DOMAIN plate.objects /\ plate.objects[i].id = plate.objects[j].id
    BY <2>1, <1>6, <1>7, <1>8 DEF Posed
  <2>3. i = j
    BY <2>1, <2>2 DEF Resolves
  <2> QED BY <2>1, <2>3
<1> HIDE DEF o1, y1
<1>10. o1.group \in GroupsOf(plate, {id})
  <2>1. CASE y1.id \in {id}
    BY <2>1, <1>2, <1>7 DEF GroupsOf
  <2>2. CASE y1.group \in GroupsOf(plate, {id})
    BY <2>2, <1>7
  <2> QED BY <2>1, <2>2, <1>8, <1>9
<1>11. x \in S
  BY <1>4, <1>7, <1>10 DEF Expand
<1> QED BY <1>11, <1>3

(* The painted materials of what spills are excused on both plates. *)
SpillExcused(p, plate, U, e) ==
  \A o \in Taken(plate, U) : \A m \in PaintOf(p, o.mesh) : <<plate.id, m>> \in e /\ <<NextPlateId(p), m>> \in e

LEMMA ArrangeKeeps ==
  ASSUME NEW s, NEW e, NEW c, NEW l, SessionOK(s, e, c, l), NEW plate, plate = ActivePlate(s.project),
         NEW spilled, spilled \subseteq Units(plate), NEW e2, e \subseteq e2, NEW U, U = UNION spilled,
         SpillExcused(s.project, plate, U, e2),
         NEW c2, c \subseteq c2, spilled # {} /\ plate.id \in c => NextPlateId(s.project) \in c2,
         NEW walk, spilled # {} => walk \in Walks(plate.printer),
         NEW t, t = ApplyArrangement(s, spilled, walk)
  PROVE  Result(s, t, e2, c2, l)
<1> DEFINE p0 == s.project
           new == Packed(ActivePlate(p0))
           p == EditActive(p0, new)
           v == [s EXCEPT !.project = p]
           w == Reconcile([s EXCEPT !.project = AddPlate(p, Unbound)])
           n == Len(w.project.plates)
           a == p.active
<1>1. t = IF spilled = {} THEN v ELSE MoveObjects(w, a, n, UNION spilled, walk)
  BY Zenon DEF ApplyArrangement
<1>2. /\ DocumentShape(p0) /\ p0.active \in DOMAIN p0.plates /\ ActivePlate(p0) = p0.plates[p0.active]
      /\ PlateShape(p0.plates[p0.active]) /\ Resolves(p0, p0.plates[p0.active])
      /\ s.fresh \in Nat /\ DOMAIN s = {"project", "selection", "cache", "fresh"}
  BY Active DEF SessionOK
<1>3. /\ Result(s, v, e, c, l) /\ v.project = p /\ Changes(p0, p, p0.active)
      /\ p.plates[p0.active] = new /\ new.id = plate.id /\ new.printer = plate.printer /\ Posed(plate, new)
  BY PackKeeps
<1>4. w = Reconcile([v EXCEPT !.project = AddPlate(v.project, Unbound)])
  <2>1. [v EXCEPT !.project = AddPlate(v.project, Unbound)] = [s EXCEPT !.project = AddPlate(p, Unbound)]
    BY <1>2
  <2> QED BY <2>1
<1>5. SessionOK(v, e, c, l) /\ DocumentShape(p)
  BY <1>3 DEF Result, SessionOK, DocumentOK
<1>6. a = p0.active /\ a \in DOMAIN p.plates /\ ActivePlate(p) = new
  BY <1>2, <1>3, Zenon DEF Changes, ActivePlate
<1> HIDE DEF v, new, p
<1>7. Unbound \in Instances \cup {Unbound}
  OBVIOUS
<1> DEFINE q == AddPlate(v.project, Unbound)
<1>8. Result(v, w, e, c, l) /\ w.project = q /\ PlateAdded(p, q, Unbound)
  <2> HIDE DEF q, w
  <2>1. q = AddPlate(v.project, Unbound) /\ w = Reconcile([v EXCEPT !.project = q])
    BY <1>4 DEF q
  <2>2. Result(v, w, e, c, l) /\ w.project = q /\ PlateAdded(v.project, q, Unbound)
    BY ONLY <1>5, <1>7, <2>1, AddPlateKeeps
  <2> QED BY <1>3, <2>2
<1> HIDE DEF q, w
<1>9. a \in DOMAIN w.project.plates /\ n \in DOMAIN w.project.plates /\ a # n /\ w.project.plates[a] = new
  BY <1>6, <1>8 DEF ActivePlate, PlateAdded
<1>10. w.project.plates[n].id = NextPlateId(p0) /\ w.project.plates[n].printer = plate.printer
  <2>1. \A i \in DOMAIN p0.plates : p.plates[i].id = p0.plates[i].id
    BY <1>2, <1>3 DEF Changes
  <2>2. DOMAIN p.plates = DOMAIN p0.plates
    BY <1>3 DEF Changes
  <2>3. NextPlateId(p) = NextPlateId(p0)
    <3> HIDE DEF p0
    <3> QED BY <1>2, <1>5, <2>1, <2>2, NextIdSame
  <2> QED BY <2>3, <1>3, <1>6, <1>8 DEF PlateAdded
<1>11. SessionOK(w, e, c, l)
  BY <1>8 DEF Result
<1>12. Expand(new, U) \subseteq U
  BY <1>2, <1>3, UnitsAreWhole
<1>13. MoveExcused(w.project, new, w.project.plates[n], Expand(new, U), e2)
  <2> SUFFICES ASSUME NEW o \in Taken(new, Expand(new, U)), NEW m \in PaintOf(w.project, o.mesh)
               PROVE <<new.id, m>> \in e2 /\ <<w.project.plates[n].id, m>> \in e2
    BY DEF MoveExcused
  <2>1. o \in ObjectsOn(new) /\ o.id \in U
    BY <1>12 DEF Taken
  <2>2. PICK k \in DOMAIN new.objects : o = new.objects[k]
    BY <2>1, OnPlate
  <2>3. plate.objects[k] \in Taken(plate, U) /\ plate.objects[k].mesh = o.mesh
    BY <2>1, <2>2, <1>3, OnPlate DEF Posed, Taken
  <2>4. w.project.meshes = p0.meshes
    <3>1. w.project.meshes = p.meshes
      BY <1>3, <1>8 DEF PlateAdded
    <3>2. p.meshes = p0.meshes
      BY <1>3 DEF Changes
    <3> QED BY <3>1, <3>2
  <2>5. m \in PaintOf(p0, o.mesh)
    BY <2>4 DEF PaintOf
  <2> QED BY <2>3, <2>5, <1>3, <1>10 DEF SpillExcused
<1>14. ASSUME spilled # {} PROVE Carried(new, w.project.plates[n], c, c2)
  <2>1. new.printer = w.project.plates[n].printer /\ new.id = plate.id
    BY <1>3, <1>10
  <2>2. plate.id \in c => w.project.plates[n].id \in c2
    BY <1>10, <1>14
  <2>3. w.project.plates[n].id \in c => w.project.plates[n].id \in c2
    OBVIOUS
  <2> QED BY <2>1, <2>2, <2>3 DEF Carried
<1>15. CASE spilled # {}
  <2>1. t = MoveObjects(w, a, n, U, walk)
    BY <1>1, <1>15
  <2> HIDE DEF a, n
  <2>2. Result(w, t, e2, c2, l)
    <3>1. walk \in Walks(w.project.plates[n].printer)
      BY <1>10, <1>15
    <3>2. a \in DOMAIN w.project.plates /\ n \in DOMAIN w.project.plates /\ a # n
      BY <1>9
    <3>3. MoveExcused(w.project, w.project.plates[a], w.project.plates[n], Expand(w.project.plates[a], U), e2)
      BY <1>9, <1>13
    <3>4. Carried(w.project.plates[a], w.project.plates[n], c, c2)
      BY <1>9, <1>14, <1>15
    <3> QED BY <1>11, <2>1, <3>1, <3>2, <3>3, <3>4, MoveKeeps
  <2>3. Result(s, w, e, c, l)
    BY <1>3, <1>8, ResultTwice
  <2> QED BY <2>2, <2>3, ResultTwice
<1>16. CASE spilled = {}
  <2>1. t = v
    BY <1>1, <1>16
  <2>2. DocumentOK(v.project, e2, c2, l, v.fresh)
    <3>1. DocumentOK(v.project, e, c, l, v.fresh) /\ v.fresh \in Nat
      BY <1>5 DEF SessionOK
    <3> DEFINE x == v.project
    <3>2. \A i \in DOMAIN x.plates : PlateOK(x, x.plates[i], e2, c2, v.fresh)
      <4> TAKE i \in DOMAIN x.plates
      <4>1. PlateOK(x, x.plates[i], e, c, v.fresh)
        BY <3>1 DEF DocumentOK
      <4>2. \A m \in Names(x.plates[i]) : m \in DOMAIN x.meshes /\ x.meshes[m].paint = x.meshes[m].paint
        BY <4>1, NamesResolve DEF PlateOK
      <4>3. x.lastObject \in Nat /\ x.lastObject >= x.lastObject /\ v.fresh <= v.fresh
        BY <3>1 DEF DocumentOK, DocumentShape
      <4>4. \A y \in c \ c2 : y # x.plates[i].id
        OBVIOUS
      <4> QED BY <3>1, <4>1, <4>2, <4>3, <4>4, OthersKept
    <3> QED BY <3>1, <3>2 DEF DocumentOK
  <2>3. Result(s, v, e2, c2, l)
    BY <1>3, <2>2 DEF Result, SessionOK
  <2> QED BY <2>1, <2>3
<1> QED BY <1>15, <1>16

(* Fill plate. *)
LEMMA FillKeeps ==
  ASSUME NEW s, NEW e, NEW c, NEW l, SessionOK(s, e, c, l), NEW src, Copyable(s, src), NEW kept \in Nat,
         NEW walk, walk \in Walks(s.project.plates[s.project.active].printer), NEW t, t = FillPlate(s, src, kept, walk)
  PROVE  Result(s, t, e, c, l)
<1> DEFINE full == CloneTimes(s, src, kept, walk)
           over == CloneOnce(full, src, walk)
           extra == (full.project.lastObject + 1)..over.project.lastObject
           back == DeleteObjects(over, extra)
<1>1. t = IF kept = 0 THEN back ELSE ApplyArrangement(back, {}, walk)
  BY Zenon DEF FillPlate
<1>2. Result(s, full, e, c, l) /\ PoolSame(s, full)
  BY CloneTimesKeeps
<1>3. SessionOK(full, e, c, l) /\ Copyable(full, src) /\ walk \in Walks(full.project.plates[full.project.active].printer)
  BY <1>2, Zenon DEF Result, PoolSame, Copyable, InPool
<1> HIDE DEF full
<1>4. Result(full, over, e, c, l)
  BY <1>3, CloneOnceKeeps
<1>5. SessionOK(over, e, c, l)
  BY <1>4 DEF Result
<1> HIDE DEF over, extra
<1>6. Result(over, back, e, c, l)
  BY <1>5, DeleteKeeps
<1> HIDE DEF back
<1>7. Result(s, back, e, c, l)
  <2>1. Result(s, over, e, c, l)
    BY <1>2, <1>4, ResultTwice
  <2> QED BY <2>1, <1>6, ResultTwice
<1>8. SessionOK(back, e, c, l)
  BY <1>7 DEF Result
<1> DEFINE plate == ActivePlate(back.project)
           u == ApplyArrangement(back, {}, walk)
<1>9. Result(back, u, e, c, l)
  <2> DEFINE none == {}
             U == UNION none
  <2>1. none \subseteq Units(plate) /\ e \subseteq e /\ c \subseteq c /\ U = {}
        /\ (none # {} /\ plate.id \in c => NextPlateId(back.project) \in c)
        /\ (none # {} => walk \in Walks(plate.printer))
    OBVIOUS
  <2>2. SpillExcused(back.project, plate, U, e)
    BY <2>1 DEF SpillExcused, Taken
  <2>3. plate = ActivePlate(back.project) /\ u = ApplyArrangement(back, none, walk) /\ U = UNION none
    OBVIOUS
  <2> HIDE DEF plate, u, U, none
  <2> QED BY <1>8, <2>1, <2>2, <2>3, ArrangeKeeps
<1>10. Result(s, u, e, c, l)
  BY <1>7, <1>9, ResultTwice
<1> QED BY <1>1, <1>7, <1>10

-----------------------------------------------------------------------------
(* Documents that are opened or come back. *)

LEMMA DocumentWeaker ==
  ASSUME NEW p, NEW e, NEW c, NEW l, NEW f \in Nat, DocumentOK(p, e, c, l, f),
         NEW e2, e \subseteq e2, NEW c2, c \subseteq c2, NEW l2, l \subseteq l2, NEW f2 \in Nat, f <= f2
  PROVE  DocumentOK(p, e2, c2, l2, f2)
<1>1. \A i \in DOMAIN p.plates : PlateOK(p, p.plates[i], e2, c2, f2)
  <2> TAKE i \in DOMAIN p.plates
  <2>1. PlateOK(p, p.plates[i], e, c, f)
    BY DEF DocumentOK
  <2>2. \A m \in Names(p.plates[i]) : m \in DOMAIN p.meshes /\ p.meshes[m].paint = p.meshes[m].paint
    BY <2>1, NamesResolve DEF PlateOK
  <2>3. p.lastObject \in Nat /\ p.lastObject >= p.lastObject
    BY DEF DocumentOK, DocumentShape
  <2>4. \A y \in c \ c2 : y # p.plates[i].id
    OBVIOUS
  <2> QED BY <2>1, <2>2, <2>3, <2>4, OthersKept
<1> QED BY <1>1 DEF DocumentOK

LEMMA OpenedIs ==
  ASSUME NEW d, IsDocument(d), NEW f \in Nat, FirstFresh \in Nat, FirstFresh <= f
  PROVE  DocumentOK(d, Unmatched(d), Misfits(d), Unused(d), f)
<1>1. DocumentShape(d) /\ References(d) /\ GroupsApart(d)
  BY DEF IsDocument
<1>2. ASSUME NEW i \in DOMAIN d.plates PROVE PlateOK(d, d.plates[i], Unmatched(d), Misfits(d), f)
  <2> DEFINE plate == d.plates[i]
             e == Unmatched(d)
  <2>1. PlateShape(plate) /\ Resolves(d, plate)
    BY <1>1 DEF DocumentShape, References
  <2>2. GroupsOn(plate) \subseteq 1..f
    BY DEF IsDocument
  <2>3. plate.id \notin Misfits(d) => Fits(plate)
    BY DEF Misfits
  <2>4. \A m \in Materials : m \in MaterialsOn(d, plate) /\ m \notin DOMAIN plate.slots => <<plate.id, m>> \in e
    BY DEF Unmatched
  <2>5. \A m \in Materials : m \notin MaterialsOn(d, plate) /\ m \in DOMAIN plate.slots => <<plate.id, m>> \in e
    BY DEF Unmatched
  <2>6. MaterialsOn(d, plate) \subseteq Materials /\ DOMAIN plate.slots \subseteq Materials
    <3>1. \A k \in DOMAIN plate.objects : plate.objects[k] \in Objects
      <4> HIDE DEF plate
      <4> QED BY <2>1, ShapeObjects
    <3>2. ASSUME NEW m \in MaterialsOn(d, plate) PROVE m \in Materials
      <4>1. PICK k \in DOMAIN plate.objects : \/ m = MaterialOf(plate.objects[k])
                                              \/ m \in PaintOf(d, plate.objects[k].mesh)
        <5> HIDE DEF plate
        <5> QED BY <3>2, MaterialsAre
      <4>2. plate.objects[k].mat \in Materials \cup {NoMaterial}
        BY <3>1 DEF Objects
      <4>3. MaterialOf(plate.objects[k]) \in Materials
        BY <4>2, MaterialIs
      <4>4. PaintOf(d, plate.objects[k].mesh) \subseteq Materials
        BY <1>1, PaintIs
      <4> QED BY <4>1, <4>3, <4>4
    <3> QED BY <2>1, <3>2 DEF PlateShape
  <2> HIDE DEF plate, e
  <2>7. UseIsBound(d, plate, e)
    BY <2>4, <2>5, <2>6 DEF UseIsBound
  <2> QED BY <2>1, <2>2, <2>3, <2>7 DEF PlateOK, plate, e
<1>3. DOMAIN d.meshes \subseteq Referenced(d) \cup Unused(d)
  BY DEF Unused
<1> QED BY <1>1, <1>2, <1>3 DEF DocumentOK, References

LEMMA NewSessionIs ==
  ASSUME NEW d, IsDocument(d), NEW f \in Nat, FirstFresh \in Nat, FirstFresh <= f,
         NEW t, t = NewSession(d, f)
  PROVE  /\ SessionOK(t, Unmatched(d), Misfits(d), Unused(d)) /\ t.project = d /\ t.fresh = f /\ CacheOK(t)
<1> DEFINE s == [project |-> d, selection |-> << >>, cache |-> << >>, fresh |-> f]
           e == Unmatched(d)
           c == Misfits(d)
           l == Unused(d)
<1>1. t = Reconcile(s)
  BY DEF NewSession
<1>2. /\ DOMAIN s = {"project", "selection", "cache", "fresh"} /\ s.fresh \in Nat
      /\ s.project = d /\ s.fresh = f /\ DOMAIN s.selection = {} /\ DOMAIN s.cache = {}
  OBVIOUS
<1> HIDE DEF s, e, c, l
<1>3. DocumentOK(s.project, e, c, l, s.fresh)
  BY <1>2, OpenedIs DEF e, c, l
<1>4. \A i \in DOMAIN s.project.plates : s.project.plates[i].id \in DOMAIN s.selection =>
             s.selection[s.project.plates[i].id] \subseteq IdsOn(s.project.plates[i])
  BY <1>2
<1>5. SessionOK(t, e, c, l) /\ t.project = s.project /\ t.cache = s.cache /\ t.fresh = s.fresh
  BY <1>1, <1>2, <1>3, <1>4, Reconciled
<1>6. CacheOK(t)
  BY <1>2, <1>5 DEF CacheOK
<1> QED BY <1>2, <1>5, <1>6 DEF e, c, l

(* What can come back: a whole document with its selection. *)
SnapOK(snap, e, c, l, f) ==
  /\ DOMAIN snap = {"project", "selection"} /\ snap = [project |-> snap.project, selection |-> snap.selection]
  /\ DocumentOK(snap.project, e, c, l, f)
  /\ SelectionOK(snap.project, snap.selection)

LEMMA CaptureIs ==
  ASSUME NEW s, NEW e, NEW c, NEW l, SessionOK(s, e, c, l)
  PROVE  SnapOK(Capture(s), e, c, l, s.fresh)
BY DEF SessionOK, SnapOK, Capture

LEMMA RestoredIs ==
  ASSUME NEW s, NEW e, NEW c, NEW l, SessionOK(s, e, c, l),
         NEW snap, NEW e2, NEW c2, NEW l2, SnapOK(snap, e2, c2, l2, s.fresh),
         NEW t, t = RestoreInto(s, snap)
  PROVE  SessionOK(t, e2, c2, l2) /\ Capture(t) = snap /\ t.fresh = s.fresh
<1> DEFINE u == [s EXCEPT !.project = snap.project]
           next == Reconcile(u)
           sel == [id \in DOMAIN next.selection |-> IF id \in DOMAIN snap.selection
                                           THEN snap.selection[id] ELSE next.selection[id]]
<1>1. t = [next EXCEPT !.selection = sel]
  BY Zenon DEF RestoreInto
<1>2. /\ DOMAIN u = {"project", "selection", "cache", "fresh"} /\ u.fresh = s.fresh /\ s.fresh \in Nat
      /\ u.project = snap.project /\ u.selection = s.selection
  BY DEF SessionOK
<1>3. /\ DOMAIN next = DOMAIN u /\ next.project = u.project /\ next.fresh = u.fresh
      /\ DOMAIN next.selection = PlateIdsOf(u.project)
  <2> HIDE DEF u
  <2> QED BY <1>2 DEF Reconcile, PlateIdsOf
<1>4. /\ DOMAIN snap.selection = PlateIdsOf(snap.project)
      /\ snap.selection = [x \in DOMAIN snap.selection |-> snap.selection[x]]
  BY DEF SnapOK, SelectionOK
<1> HIDE DEF next, u
<1>5. sel = snap.selection
  <2>1. sel = [id \in DOMAIN snap.selection |-> snap.selection[id]]
    BY <1>2, <1>3, <1>4
  <2> QED BY <2>1, <1>4
<1> HIDE DEF sel
<1>6. /\ DOMAIN t = {"project", "selection", "cache", "fresh"} /\ t.project = snap.project
      /\ t.selection = snap.selection /\ t.fresh = s.fresh
  BY <1>1, <1>2, <1>3, <1>5
<1>7. SessionOK(t, e2, c2, l2)
  BY <1>2, <1>6 DEF SessionOK, SnapOK
<1>8. Capture(t) = snap
  BY <1>6 DEF Capture, SnapOK
<1> QED BY <1>6, <1>7, <1>8

-----------------------------------------------------------------------------
(* Cutting. *)

(* q is p with more meshes in the pool and more objects on the active plate. *)
GrownBy(p, q) ==
  LET a == p.active
  IN /\ DOMAIN q = DOMAIN p /\ q.active = a /\ DOMAIN q.plates = DOMAIN p.plates
     /\ \A j \in DOMAIN p.plates : j # a => q.plates[j] = p.plates[j]
     /\ q.lastMesh \in Nat /\ q.lastMesh >= p.lastMesh /\ q.lastObject \in Nat /\ q.lastObject >= p.lastObject
     /\ \A x \in DOMAIN p.meshes : x \in DOMAIN q.meshes /\ q.meshes[x] = p.meshes[x]
     /\ \A x \in DOMAIN q.meshes : x \in DOMAIN p.meshes \/ (x \in Nat /\ x > p.lastMesh)
     /\ q.plates[a].id = p.plates[a].id /\ q.plates[a].printer = p.plates[a].printer
     /\ IdsOn(q.plates[a]) = IdsOn(p.plates[a]) \cup ((p.lastObject + 1)..q.lastObject)

LEMMA GrownSelf ==
  ASSUME NEW p, DocumentShape(p)
  PROVE  GrownBy(p, p)
<1>1. p.lastMesh \in Nat /\ p.lastObject \in Nat
  BY DEF DocumentShape
<1>2. (p.lastObject + 1)..p.lastObject = {}
  BY <1>1
<1> QED BY <1>1, <1>2 DEF GrownBy

LEMMA GrownByTwice ==
  ASSUME NEW p, DocumentShape(p), NEW q, NEW r, GrownBy(p, q), GrownBy(q, r)
  PROVE  GrownBy(p, r)
<1>1. p.lastMesh \in Nat /\ p.lastObject \in Nat
  BY DEF DocumentShape
<1>2. /\ q.lastMesh \in Nat /\ q.lastMesh >= p.lastMesh /\ q.lastObject \in Nat /\ q.lastObject >= p.lastObject
      /\ r.lastMesh \in Nat /\ r.lastMesh >= q.lastMesh /\ r.lastObject \in Nat /\ r.lastObject >= q.lastObject
  BY DEF GrownBy
<1>3. ((p.lastObject + 1)..q.lastObject) \cup ((q.lastObject + 1)..r.lastObject) = (p.lastObject + 1)..r.lastObject
  BY <1>1, <1>2
<1>4. \A x \in DOMAIN r.meshes : x \in DOMAIN p.meshes \/ (x \in Nat /\ x > p.lastMesh)
  <2> TAKE x \in DOMAIN r.meshes
  <2>1. x \in DOMAIN q.meshes \/ (x \in Nat /\ x > q.lastMesh)
    BY DEF GrownBy
  <2>2. x \in DOMAIN q.meshes => x \in DOMAIN p.meshes \/ (x \in Nat /\ x > p.lastMesh)
    BY DEF GrownBy
  <2>3. x \in Nat /\ x > q.lastMesh => x > p.lastMesh
    BY <1>1, <1>2
  <2> QED BY <2>1, <2>2, <2>3
<1> QED BY <1>1, <1>2, <1>3, <1>4 DEF GrownBy

LEMMA AddedGrows ==
  ASSUME NEW p, DocumentShape(p), NEW q, NEW n \in Nat, NEW m \in Nat, More(p, q, n, m), Has(p, q, m)
  PROVE  GrownBy(p, q) /\ q.lastObject = p.lastObject + m
<1>1. p.lastMesh \in Nat /\ p.lastObject \in Nat
  BY DEF DocumentShape
<1>2. \A x \in DOMAIN q.meshes : x \in DOMAIN p.meshes \/ (x \in Nat /\ x > p.lastMesh)
  BY <1>1 DEF More
<1> QED BY <1>1, <1>2 DEF More, Has, GrownBy

(* What the first lock copied out of an object. *)
TargetOK(t) ==
  /\ t.paint \subseteq Materials /\ t.mat \in Materials \cup {NoMaterial} /\ t.pose \in {0, 1}
  /\ t.group \in Nat /\ t.pegs \in Nat

FreeGroup(q, g, f) == g \in Nat /\ g <= f /\ (g # NoGroup => \A j \in DOMAIN q.plates : j # q.active => g \notin GroupsOn(q.plates[j]))

LEMMA OneRegistered ==
  ASSUME NEW q, NEW e, NEW c, NEW l, NEW f \in Nat, DocumentOK(q, e, c, l, f),
         NEW geom, MeshShape(geom), NEW t, TargetOK(t), NEW g, FreeGroup(q, g, f),
         NEW walk, walk \in Walks(q.plates[q.active].printer),
         NEW r, r = RegisterObjects(RegisterMeshes(q, <<geom>>), <<NewObject(q.lastMesh + 1, t.mat, g, t.pose)>>, walk)
  PROVE  /\ DocumentOK(r, e, c, l, f) /\ More(q, r, 1, 1) /\ Has(q, r, 1)
<1> DEFINE geoms == <<geom>>
           o == NewObject(q.lastMesh + 1, t.mat, g, t.pose)
           objs == <<o>>
           u == RegisterMeshes(q, geoms)
<1>1. q.lastMesh \in Nat
  BY DEF DocumentOK, DocumentShape
<1>2. o \in Objects /\ o.mesh = q.lastMesh + 1 /\ o.group = g
  BY <1>1 DEF NewObject, Objects, TargetOK, FreeGroup
<1>3. Meshes(geoms) /\ Len(geoms) = 1
  BY DEF Meshes
<1>4. objs \in Seq(Objects) /\ Len(objs) = 1 /\ DOMAIN objs = {1} /\ objs[1] = o
  BY <1>2
<1> HIDE DEF o
<1>5. NewMeshes(q, Len(geoms)) = {q.lastMesh + 1}
  BY <1>1, <1>3 DEF NewMeshes
<1> HIDE DEF geoms, objs
<1>6. Placed(q, geoms, objs)
  BY <1>2, <1>4, <1>5 DEF Placed
<1>7. Free(q, objs, f)
  BY <1>2, <1>4 DEF Free, FreeGroup
<1>8. PooledBy(q, u, geoms)
  BY DEF PooledBy
<1>9. r = RegisterObjects(u, objs, walk)
  BY DEF geoms, objs, o
<1> HIDE DEF u
<1>10. /\ DocumentOK(q, e, c, l, f) /\ f \in Nat /\ f <= f /\ Registering(q, geoms, objs, walk, u, r)
       /\ Meshes(geoms) /\ objs \in Seq(Objects)
  BY <1>3, <1>4, <1>8, <1>9 DEF Registering
<1>11. /\ DocumentOK(r, e, c, l, f) /\ More(q, r, Len(geoms), Len(objs)) /\ Has(q, r, Len(objs))
       /\ \A k \in DOMAIN geoms : r.meshes[q.lastMesh + k] = geoms[k]
  BY ONLY <1>6, <1>7, <1>10, ObjectsAdded
<1> QED BY <1>11, <1>3, <1>4

(* One half of a target, with its connector volumes. *)
LEMMA HalfKeeps ==
  ASSUME NEW q, NEW e, NEW c, NEW l, NEW f \in Nat, DocumentOK(q, e, c, l, f),
         NEW t, TargetOK(t), NEW g, FreeGroup(q, g, f), NEW n \in Nat,
         NEW walk, walk \in Walks(q.plates[q.active].printer),
         NEW r, r = RegisterHalf(q, t, g, n, walk)
  PROVE  DocumentOK(r, e, c, l, f) /\ GrownBy(q, r)
<1> DEFINE geom == Geometry("half", t.paint)
           r0 == RegisterObjects(RegisterMeshes(q, <<geom>>), <<NewObject(q.lastMesh + 1, t.mat, g, t.pose)>>, walk)
           pegs == [k \in 1..n |-> Geometry("peg", {})]
           m == RegisterMeshes(r0, pegs)
           volumes == (r0.lastMesh + 1)..m.lastMesh
           new == [ActivePlate(m) EXCEPT !.mods = Put(@, m.lastObject, volumes)]
<1>1. r = IF n = 0 THEN r0 ELSE EditActive(m, new)
  BY Zenon DEF RegisterHalf
<1>2. MeshShape(geom)
  BY DEF MeshShape, Geometry, TargetOK
<1> HIDE DEF geom
<1>3. DocumentOK(r0, e, c, l, f) /\ More(q, r0, 1, 1) /\ Has(q, r0, 1)
  BY <1>2, OneRegistered
<1> HIDE DEF r0
<1>4. DocumentShape(q) /\ DocumentShape(r0) /\ q.lastObject \in Nat /\ q.active \in DOMAIN q.plates
      /\ PlateShape(q.plates[q.active]) /\ Resolves(q, q.plates[q.active])
  BY <1>3 DEF DocumentOK, DocumentShape, PlateOK
<1>5. GrownBy(q, r0) /\ r0.lastObject = q.lastObject + 1
  BY <1>3, <1>4, AddedGrows
<1>6. Len(pegs) = n /\ Meshes(pegs)
  <2>1. DOMAIN pegs = 1..n /\ Len(pegs) = n
    OBVIOUS
  <2>2. \A k \in 1..n : pegs[k] = Geometry("peg", {})
    OBVIOUS
  <2>3. MeshShape(Geometry("peg", {}))
    BY DEF MeshShape, Geometry
  <2> HIDE DEF pegs
  <2> QED BY <2>1, <2>2, <2>3 DEF Meshes
<1> HIDE DEF pegs
<1> DEFINE l2 == l \cup NewMeshes(r0, n)
<1>7. DocumentOK(m, e, c, l2, f) /\ Pooled(r0, m, pegs)
  <2>1. l \subseteq l2 /\ NewMeshes(r0, Len(pegs)) \subseteq l2
    BY <1>6
  <2> HIDE DEF l2
  <2> QED BY <1>3, <1>6, <2>1, MeshesRegistered
<1> HIDE DEF m
<1>8. /\ m.plates = r0.plates /\ m.active = q.active /\ m.lastObject = q.lastObject + 1 /\ m.lastMesh = r0.lastMesh + n
      /\ volumes = NewMeshes(r0, n) /\ r0.lastMesh \in Nat /\ m.active \in DOMAIN m.plates /\ DocumentShape(m)
      /\ DOMAIN m = DOMAIN r0 /\ DOMAIN m.meshes = DOMAIN r0.meshes \cup NewMeshes(r0, n)
      /\ \A x \in DOMAIN r0.meshes : m.meshes[x] = r0.meshes[x]
  BY <1>4, <1>5, <1>6, <1>7 DEF Pooled, GrownBy, DocumentShape, NewMeshes, DocumentOK
<1>9. GrownBy(r0, m)
  <2>1. (r0.lastObject + 1)..m.lastObject = {}
    BY <1>4, <1>5, <1>8
  <2>2. m.lastMesh \in Nat /\ m.lastMesh >= r0.lastMesh /\ m.lastObject \in Nat /\ m.lastObject >= r0.lastObject
    BY <1>4, <1>5, <1>8
  <2>3. \A x \in NewMeshes(r0, n) : x \in Nat /\ x > r0.lastMesh
    BY <1>8 DEF NewMeshes
  <2>4. r0.active = m.active
    BY <1>5, <1>8 DEF GrownBy
  <2> QED BY <1>8, <2>1, <2>2, <2>3, <2>4 DEF GrownBy
<1> HIDE DEF volumes
<1> DEFINE plate == m.plates[m.active]
           x0 == m.lastObject
<1>10. PlateShape(plate) /\ IdsOn(plate) = IdsOn(q.plates[q.active]) \cup {x0} /\ plate.mods = q.plates[q.active].mods
  <2>1. PlateShape(plate)
    BY <1>8 DEF DocumentShape
  <2>2. (q.lastObject + 1)..(q.lastObject + 1) = {x0}
    BY <1>4, <1>8
  <2>3. plate = r0.plates[q.active]
    BY <1>8
  <2> HIDE DEF plate, x0
  <2> QED BY <2>1, <2>2, <2>3, <1>3 DEF Has
<1>11. x0 \notin DOMAIN plate.mods /\ \A x \in DOMAIN plate.mods : plate.mods[x] \subseteq DOMAIN m.meshes
  <2>1. DOMAIN plate.mods \subseteq IdsOn(q.plates[q.active])
    BY <1>4, <1>10 DEF Resolves
  <2>2. \A x \in IdsOn(q.plates[q.active]) : x \in 1..q.lastObject
    BY <1>4, OnPlate DEF Resolves
  <2>3. x0 \notin 1..q.lastObject
    BY <1>4, <1>8
  <2>4. \A x \in DOMAIN plate.mods : plate.mods[x] \subseteq DOMAIN q.meshes
    BY <1>4, <1>10 DEF Resolves
  <2>5. DOMAIN q.meshes \subseteq DOMAIN m.meshes
    BY <1>5, <1>8 DEF GrownBy
  <2> QED BY <2>1, <2>2, <2>3, <2>4, <2>5
<1>12. SameBut(plate, new) /\ new.mods = Put(plate.mods, x0, volumes)
  BY <1>10 DEF SameBut, PlateShape, ActivePlate
<1> HIDE DEF new
<1>13. ModsGrow(m, plate, new)
  <2>1. DOMAIN new.mods = DOMAIN plate.mods \cup {x0} /\ new.mods[x0] = volumes
        /\ \A x \in DOMAIN plate.mods : new.mods[x] = plate.mods[x]
    BY <1>11, <1>12 DEF Put
  <2>2. DOMAIN plate.mods \subseteq IdsOn(plate)
    BY <1>4, <1>10 DEF Resolves
  <2>3. volumes \subseteq DOMAIN m.meshes
    BY <1>8
  <2> HIDE DEF plate, x0
  <2> QED BY <1>10, <1>11, <2>1, <2>2, <2>3 DEF ModsGrow
<1>14. NamesUp(l2, l, new)
  <2>1. x0 \in DOMAIN new.mods /\ new.mods[x0] = volumes
    BY <1>12 DEF Put
  <2>2. \A y \in volumes : y \in Names(new)
    BY <2>1, NamesIs
  <2> QED BY <2>2, <1>8 DEF NamesUp
<1> DEFINE u == EditPlate(m, m.active, new)
<1>15. DocumentOK(u, e, c, l, f) /\ Changes(m, u, m.active) /\ u.plates[m.active] = new /\ IdsOn(new) = IdsOn(plate)
  <2>1. m.active \in DOMAIN m.plates /\ u = EditPlate(m, m.active, new)
    BY <1>8
  <2> HIDE DEF l2, u
  <2> QED BY <1>7, <1>12, <1>13, <1>14, <2>1, ModsChanged
<1>16. u.lastObject = m.lastObject
  <2>1. u = EditPlate(m, m.active, new)
    OBVIOUS
  <2> HIDE DEF u
  <2> QED BY <2>1, <1>8, Edited
<1> HIDE DEF u
<1>17. GrownBy(m, u)
  <2>1. (m.lastObject + 1)..u.lastObject = {}
    BY <1>4, <1>8, <1>16
  <2>2. u.lastMesh = m.lastMesh /\ m.lastMesh \in Nat /\ m.lastObject \in Nat
    BY <1>8, <1>15 DEF Changes, DocumentShape
  <2>3. new.id = plate.id /\ new.printer = plate.printer
    BY <1>12 DEF SameBut
  <2> QED BY <1>15, <1>16, <2>1, <2>2, <2>3 DEF GrownBy, Changes
<1>18. GrownBy(q, u)
  <2>1. GrownBy(q, m)
    BY <1>4, <1>5, <1>9, GrownByTwice
  <2> QED BY <1>4, <1>17, <2>1, GrownByTwice
<1>19. n # 0 => r = u
  BY <1>1 DEF EditActive, u
<1> QED BY <1>1, <1>3, <1>5, <1>15, <1>18, <1>19

LEMMA PinRegistered ==
  ASSUME NEW q, NEW e, NEW c, NEW l, NEW f \in Nat, DocumentOK(q, e, c, l, f), NEW t, TargetOK(t),
         NEW walk, walk \in Walks(q.plates[q.active].printer), NEW r, r = RegisterPin(q, t, walk)
  PROVE  DocumentOK(r, e, c, l, f) /\ GrownBy(q, r)
<1> DEFINE geom == Geometry("pin", {})
<1>1. MeshShape(geom)
  BY DEF MeshShape, Geometry
<1>2. FreeGroup(q, NoGroup, f)
  BY DEF FreeGroup, NoGroup
<1>3. r = RegisterObjects(RegisterMeshes(q, <<geom>>), <<NewObject(q.lastMesh + 1, t.mat, NoGroup, t.pose)>>, walk)
  BY Zenon DEF RegisterPin
<1> HIDE DEF geom
<1>4. DocumentOK(r, e, c, l, f) /\ More(q, r, 1, 1) /\ Has(q, r, 1)
  BY <1>1, <1>2, <1>3, OneRegistered
<1>5. DocumentShape(q)
  BY DEF DocumentOK
<1> QED BY <1>4, <1>5, AddedGrows

TargetsOK(targets) ==
  /\ Len(targets) \in Nat /\ DOMAIN targets = 1..Len(targets)
  /\ \A k \in DOMAIN targets : TargetOK(targets[k])

LEMMA TargetGroups ==
  ASSUME NEW targets, TargetsOK(targets), NEW gs, gs = GroupsAmong(targets)
  PROVE  /\ IsFiniteSet(gs) /\ Cardinality(gs) \in Nat /\ gs \subseteq Nat
         /\ \A g \in gs : Rank(gs, g) \in 1..Cardinality(gs)
<1> DEFINE n == Len(targets)
           all == {targets[k].group : k \in 1..n}
<1>1. n \in Nat /\ DOMAIN targets = 1..n
  BY DEF TargetsOK
<1>2. IsFiniteSet(1..n)
  BY <1>1, FS_Interval
<1>3. IsFiniteSet(all)
  <2> DEFINE g == [k \in 1..n |-> targets[k].group]
  <2>1. g \in [1..n -> all] /\ \A t \in all : \E k \in 1..n : g[k] = t
    OBVIOUS
  <2>2. g \in Surjection(1..n, all)
    BY <2>1 DEF Surjection
  <2> QED BY <1>2, <2>2, FS_Surjection
<1>4. GroupsAmong(targets) \subseteq all
  BY <1>1 DEF GroupsAmong
<1>5. IsFiniteSet(gs)
  BY <1>3, <1>4, FS_Subset
<1>6. gs \subseteq Nat
  BY DEF TargetsOK, TargetOK, GroupsAmong
<1>7. ASSUME NEW g \in gs PROVE Rank(gs, g) \in 1..Cardinality(gs)
  <2>1. g <= g
    BY <1>6
  <2> QED BY <1>5, <2>1, RankIs
<1> QED BY <1>5, <1>6, <1>7, FS_CardinalityType

(* What the halves become part of. *)
LEMMA FreeStays ==
  ASSUME NEW p, NEW e, NEW c, NEW l, NEW f \in Nat, DocumentOK(p, e, c, l, f), NEW q, GrownBy(p, q),
         NEW f2 \in Nat, f <= f2, NEW g, g = NoGroup \/ g \in (f + 1)..f2
  PROVE  FreeGroup(q, g, f2)
<1>1. g \in Nat /\ g <= f2
  BY DEF NoGroup
<1>2. ASSUME g # NoGroup, NEW j \in DOMAIN q.plates, j # q.active PROVE g \notin GroupsOn(q.plates[j])
  <2>1. j \in DOMAIN p.plates /\ q.plates[j] = p.plates[j]
    BY <1>2 DEF GrownBy
  <2>2. GroupsOn(p.plates[j]) \subseteq 1..f
    BY <2>1 DEF DocumentOK, PlateOK
  <2>3. g \notin 1..f
    BY <1>2
  <2> QED BY <2>1, <2>2, <2>3
<1> QED BY <1>1, <1>2 DEF FreeGroup

(* In between, the document is whole and has grown. *)
CutSoFar(p, q, e, c, l, f) == DocumentOK(q, e, c, l, f) /\ GrownBy(p, q)

LEMMA CutHalf ==
  ASSUME NEW p, NEW e, NEW c, NEW l, NEW f \in Nat, DocumentOK(p, e, c, l, f),
         NEW f2 \in Nat, f <= f2, NEW q, CutSoFar(p, q, e, c, l, f2),
         NEW t, TargetOK(t), NEW g, g = NoGroup \/ g \in (f + 1)..f2, NEW n \in Nat,
         NEW walk, walk \in Walks(p.plates[p.active].printer), NEW kept, NEW r,
         r = IF kept THEN q ELSE RegisterHalf(q, t, g, n, walk)
  PROVE  CutSoFar(p, r, e, c, l, f2)
<1>1. DocumentShape(p) /\ DocumentOK(q, e, c, l, f2) /\ GrownBy(p, q)
  BY DEF DocumentOK, CutSoFar
<1> DEFINE h == RegisterHalf(q, t, g, n, walk)
<1>2. FreeGroup(q, g, f2)
  BY <1>1, FreeStays
<1>3. walk \in Walks(q.plates[q.active].printer)
  BY <1>1 DEF GrownBy
<1>4. h = RegisterHalf(q, t, g, n, walk)
  OBVIOUS
<1> HIDE DEF h
<1>5. DocumentOK(h, e, c, l, f2) /\ GrownBy(q, h)
  BY <1>1, <1>2, <1>3, <1>4, HalfKeeps
<1>6. GrownBy(p, h)
  BY <1>1, <1>5, GrownByTwice
<1>7. r = q \/ r = h
  BY <1>4
<1> QED BY <1>1, <1>5, <1>6, <1>7 DEF CutSoFar

LEMMA CutPin ==
  ASSUME NEW p, NEW e, NEW c, NEW l, NEW f \in Nat, DocumentOK(p, e, c, l, f),
         NEW f2 \in Nat, f <= f2, NEW q, CutSoFar(p, q, e, c, l, f2), NEW t, TargetOK(t),
         NEW walk, walk \in Walks(p.plates[p.active].printer), NEW dowel, NEW r,
         r = IF dowel THEN RegisterPin(q, t, walk) ELSE q
  PROVE  CutSoFar(p, r, e, c, l, f2)
<1>1. DocumentShape(p) /\ DocumentOK(q, e, c, l, f2) /\ GrownBy(p, q)
  BY DEF DocumentOK, CutSoFar
<1> DEFINE h == RegisterPin(q, t, walk)
<1>2. walk \in Walks(q.plates[q.active].printer)
  BY <1>1 DEF GrownBy
<1>3. h = RegisterPin(q, t, walk)
  OBVIOUS
<1> HIDE DEF h
<1>4. DocumentOK(h, e, c, l, f2) /\ GrownBy(q, h)
  BY <1>1, <1>2, <1>3, PinRegistered
<1>5. GrownBy(p, h)
  BY <1>1, <1>4, GrownByTwice
<1>6. r = q \/ r = h
  BY <1>3
<1> QED BY <1>1, <1>4, <1>5, <1>6 DEF CutSoFar

(* The sources go, what is new and not a source stays. *)
CutIs(p, q, ids) ==
  LET a == p.active
  IN /\ DOMAIN q.plates = DOMAIN p.plates
     /\ \A j \in DOMAIN p.plates : j # a => IdsOn(q.plates[j]) = IdsOn(p.plates[j])
     /\ IdsOn(q.plates[a]) \cap (1..p.lastObject) = IdsOn(p.plates[a]) \ ids

(* What is done when the halves are there. *)
(* Only its settings are others. *)
Renamed(kept, with) ==
  /\ DOMAIN with = DOMAIN kept /\ with.id = kept.id /\ with.printer = kept.printer
  /\ with.mods = kept.mods /\ with.slots = kept.slots /\ with.objects = kept.objects

WithProject(s, p, f) == [s EXCEPT !.project = p, !.fresh = f]

Tidied(less, groups) ==
  LET plate == DissolveOrphans(ActivePlate(less.project))
  IN [less EXCEPT !.project = EditActive(less.project, [plate EXCEPT !.groups = groups])]

LEMMA CutTidied ==
  ASSUME NEW s, NEW e, NEW c, NEW l, SessionOK(s, e, c, l), NEW f2 \in Nat, s.fresh <= f2,
         NEW done, CutSoFar(s.project, done, e, c, l, f2),
         NEW kept, kept = ActivePlate(done), NEW with, Renamed(kept, with),
         NEW s1, s1 = WithProject(s, EditActive(done, with), f2),
         NEW ids, NEW less, less = DeleteObjects(s1, ids),
         NEW groups, NEW tidy, tidy = Tidied(less, groups),
         NEW new, NEW t, t = Select(tidy, new, "replace")
  PROVE  Result(s, t, e, c, l) /\ CutIs(s.project, t.project, ids)
<1> DEFINE plate == DissolveOrphans(ActivePlate(less.project))
<1>100. /\ s1 = [s EXCEPT !.project = EditActive(done, with), !.fresh = f2]
        /\ tidy = [less EXCEPT !.project = EditActive(less.project, [plate EXCEPT !.groups = groups])]
  BY Zenon DEF WithProject, Tidied
<1>101. /\ DOMAIN with = DOMAIN kept /\ with.id = kept.id /\ with.printer = kept.printer
        /\ with.mods = kept.mods /\ with.slots = kept.slots /\ with.objects = kept.objects
  BY DEF Renamed
<1>102. plate = DissolveOrphans(ActivePlate(less.project))
  OBVIOUS
<1> HIDE DEF plate
<1> DEFINE p == s.project
           a == p.active
           s0 == [s EXCEPT !.project = done, !.fresh = f2]
<1>1. /\ DocumentShape(p) /\ a \in DOMAIN p.plates /\ s.fresh \in Nat /\ DOMAIN s = {"project", "selection", "cache", "fresh"}
      /\ SelectionOK(p, s.selection) /\ \A i \in DOMAIN p.plates : Resolves(p, p.plates[i])
  BY Active DEF SessionOK
<1>2. /\ DOMAIN s0 = DOMAIN s /\ s0.project = done /\ s0.fresh = f2 /\ s0.cache = s.cache /\ s0.selection = s.selection
      /\ s1 = [s0 EXCEPT !.project = EditActive(done, with)]
  BY <1>1, <1>100
<1> HIDE DEF s0
<1>3. DocumentOK(done, e, c, l, f2) /\ GrownBy(p, done)
  BY DEF CutSoFar
<1>4. SelectionOK(done, s.selection)
  <2>1. \A i \in DOMAIN p.plates : done.plates[i].id = p.plates[i].id /\ IdsOn(p.plates[i]) \subseteq IdsOn(done.plates[i])
    BY <1>1, <1>3 DEF GrownBy
  <2>2. DOMAIN done.plates = DOMAIN p.plates
    BY <1>3 DEF GrownBy
  <2> QED BY <1>1, <2>1, <2>2, SelectionKept
<1>5. SessionOK(s0, e, c, l)
  BY <1>1, <1>2, <1>3, <1>4 DEF SessionOK
<1>6. Result(s, s0, e, c, l)
  <2>1. PoolStep(p, done)
    BY <1>3 DEF GrownBy, PoolStep
  <2>2. \A x \in DOMAIN p.meshes : x \in DOMAIN done.meshes /\ done.meshes[x] = p.meshes[x]
    BY <1>3 DEF GrownBy
  <2>3. CacheOK(s) => CacheOK(s0)
    BY <1>2, <2>2 DEF CacheOK
  <2> QED BY <1>1, <1>2, <1>5, <2>1, <2>3 DEF Result
<1>7. /\ done.active \in DOMAIN done.plates /\ kept = done.plates[done.active] /\ done.active = a
      /\ EditActive(done, with) = EditPlate(done, a, with) /\ DocumentShape(done)
  BY <1>3 DEF DocumentOK, DocumentShape, ActivePlate, EditActive, GrownBy
<1>8. Result(s0, s1, e, c, l)
  <2>1. s1 = [s0 EXCEPT !.project = EditPlate(s0.project, a, with)]
    BY <1>2, <1>7
  <2>2. a \in DOMAIN s0.project.plates /\ kept = s0.project.plates[a]
    BY <1>2, <1>7
  <2> HIDE DEF a
  <2> QED BY <1>5, <1>101, <2>1, <2>2, SettingsOnlyKeep
<1>9. /\ s1.project = EditPlate(done, a, with)
  BY <1>2, <1>5, <1>7 DEF SessionOK
<1>10. /\ s1.project.active = a /\ s1.project.lastObject = done.lastObject /\ DOMAIN s1.project.plates = DOMAIN p.plates
       /\ \A j \in DOMAIN p.plates : j # a => s1.project.plates[j] = p.plates[j]
       /\ IdsOn(s1.project.plates[a]) = IdsOn(p.plates[a]) \cup ((p.lastObject + 1)..done.lastObject)
  <2> DEFINE q == s1.project
  <2>1. Changes(done, q, a) /\ q.plates[a] = with /\ q.lastObject = done.lastObject
    <3>1. q = EditPlate(done, a, with) /\ a \in DOMAIN done.plates
      BY <1>7, <1>9
    <3> HIDE DEF q, a
    <3> QED BY <1>7, <3>1, Edited
  <2>2. IdsOn(with) = IdsOn(kept)
    BY <1>101 DEF IdsOn, ObjectsOn
  <2> HIDE DEF q
  <2>3. /\ q.active = a /\ DOMAIN q.plates = DOMAIN p.plates
    BY <1>3, <1>7, <2>1 DEF Changes, GrownBy
  <2>4. \A j \in DOMAIN p.plates : j # a => q.plates[j] = p.plates[j]
    BY <1>3, <1>7, <2>1 DEF Changes, GrownBy
  <2>5. IdsOn(kept) = IdsOn(p.plates[a]) \cup ((p.lastObject + 1)..done.lastObject)
    BY <1>3, <1>7 DEF GrownBy
  <2>6. IdsOn(q.plates[a]) = IdsOn(p.plates[a]) \cup ((p.lastObject + 1)..done.lastObject)
    BY <2>1, <2>2, <2>5
  <2> QED BY <2>1, <2>3, <2>4, <2>6 DEF q
<1>11. SessionOK(s1, e, c, l)
  BY <1>8 DEF Result
<1>12. Result(s1, less, e, c, l) /\ Deleted(s1, less, ids)
  BY <1>11, DeleteKeeps
<1>13. SessionOK(less, e, c, l)
  BY <1>12 DEF Result
<1> DEFINE src == less.project.plates[less.project.active]
           fin == [plate EXCEPT !.groups = groups]
<1>14. /\ less.project.active \in DOMAIN less.project.plates /\ PlateShape(src) /\ ActivePlate(less.project) = src
       /\ EditActive(less.project, fin) = EditPlate(less.project, less.project.active, fin)
  BY <1>13, Active
<1>15. Like(src, plate) /\ GroupsOn(plate) \subseteq GroupsOn(src) /\ PlateShape(plate)
  <2> HIDE DEF src
  <2>1. Like(src, plate) /\ GroupsOn(plate) \subseteq GroupsOn(src)
    BY <1>14, <1>102, DissolvedIs
  <2> QED BY <1>14, <2>1, LikeShape
<1>16. Like(plate, fin) /\ GroupsOn(fin) = GroupsOn(plate)
  <2>1. /\ DOMAIN fin = DOMAIN plate /\ fin.id = plate.id /\ fin.printer = plate.printer
        /\ fin.mods = plate.mods /\ fin.slots = plate.slots /\ fin.objects = plate.objects
    BY <1>15 DEF PlateShape
  <2> HIDE DEF fin
  <2> QED BY <1>15, <2>1, SettingsLike
<1>17. Like(src, fin) /\ GroupsOn(fin) \subseteq GroupsOn(src)
  <2> HIDE DEF src, fin
  <2> QED BY <1>15, <1>16, LikeTwice
<1>18. tidy = [less EXCEPT !.project = EditPlate(less.project, less.project.active, fin)]
  BY <1>14, <1>100
<1> HIDE DEF fin
<1>19. Result(less, tidy, e, c, l)
  <2> DEFINE i == less.project.active
  <2>1. i \in DOMAIN less.project.plates /\ tidy = [less EXCEPT !.project = EditPlate(less.project, i, fin)]
        /\ Like(less.project.plates[i], fin) /\ GroupsOn(fin) \subseteq GroupsOn(less.project.plates[i])
    BY <1>14, <1>17, <1>18
  <2> HIDE DEF i
  <2> QED BY <1>13, <2>1, SettingsKeep
<1>20. SessionOK(tidy, e, c, l)
  BY <1>19 DEF Result
<1>21. Result(tidy, t, e, c, l) /\ t.project = tidy.project
  <2>1. "replace" \in {"replace", "add", "toggle"}
    OBVIOUS
  <2> DEFINE mode == "replace"
  <2>2. mode \in {"replace", "add", "toggle"} /\ t = Select(tidy, new, mode)
    OBVIOUS
  <2> HIDE DEF mode
  <2> QED BY ONLY <1>20, <2>2, SelectKeeps
<1>22. Result(s, t, e, c, l)
  <2>1. Result(s, s1, e, c, l)
    BY <1>6, <1>8, ResultTwice
  <2>2. Result(s, less, e, c, l)
    BY <1>12, <2>1, ResultTwice
  <2>3. Result(s, tidy, e, c, l)
    BY <1>19, <2>2, ResultTwice
  <2> QED BY <1>21, <2>3, ResultTwice
<1>23. CutIs(p, t.project, ids)
  <2> DEFINE q == t.project
             r == less.project
             u == s1.project
  <2>1. r.active = a /\ DOMAIN r.plates = DOMAIN u.plates /\ (\A j \in DOMAIN u.plates : j # a => r.plates[j] = u.plates[j])
        /\ IdsOn(r.plates[a]) = IdsOn(u.plates[a]) \ ids
    BY <1>10, <1>12 DEF Deleted
  <2>2. Changes(r, q, a) /\ q.plates[a] = fin
    <3>1. a \in DOMAIN r.plates /\ q = EditPlate(r, a, fin) /\ DocumentShape(r)
      BY <1>13, <1>14, <1>18, <1>21, <2>1 DEF SessionOK, DocumentOK
    <3> HIDE DEF q, r, a
    <3> QED BY <3>1, Edited
  <2>3. IdsOn(fin) = IdsOn(r.plates[a])
    <3>1. Like(r.plates[a], fin)
      BY <1>17, <2>1
    <3> DEFINE x == r.plates[a]
    <3>2. Like(x, fin)
      BY <3>1
    <3> HIDE DEF x
    <3>3. IdsOn(fin) = IdsOn(x)
      BY <3>2, LikeIs
    <3> QED BY <3>3 DEF x
  <2> HIDE DEF q, r
  <2>4. DOMAIN q.plates = DOMAIN p.plates /\ \A j \in DOMAIN p.plates : j # a => q.plates[j] = p.plates[j]
    BY <1>10, <2>1, <2>2 DEF Changes
  <2>5. IdsOn(q.plates[a]) = (IdsOn(p.plates[a]) \cup ((p.lastObject + 1)..done.lastObject)) \ ids
    BY <1>10, <2>1, <2>2, <2>3
  <2>6. IdsOn(p.plates[a]) \subseteq 1..p.lastObject
    BY <1>1, OnPlate DEF Resolves
  <2>7. ((p.lastObject + 1)..done.lastObject) \cap (1..p.lastObject) = {}
    <3>1. p.lastObject \in Nat
      BY <1>1 DEF DocumentShape
    <3> QED BY <3>1
  <2>8. IdsOn(q.plates[a]) \cap (1..p.lastObject) = IdsOn(p.plates[a]) \ ids
    BY <2>5, <2>6, <2>7
  <2> QED BY <2>4, <2>8 DEF CutIs, q
<1> QED BY <1>22, <1>23

LEMMA ApplyCutKeeps ==
  ASSUME NEW s, NEW e, NEW c, NEW l, SessionOK(s, e, c, l), NEW targets, TargetsOK(targets),
         NEW sides, NEW connector, NEW old, NEW walk, walk \in Walks(s.project.plates[s.project.active].printer),
         NEW t, t = ApplyCut(s, targets, sides, connector, old, walk),
         NEW ids, ids = {targets[k].id : k \in DOMAIN targets}
  PROVE  Result(s, t, e, c, l) /\ CutIs(s.project, t.project, ids)
<1> DEFINE p == s.project
           gs == {targets[k].group : k \in DOMAIN targets} \ {NoGroup}
           remap(g, side) == IF g = NoGroup THEN NoGroup
                          ELSE s.fresh + 2 * Rank(gs, g) - side
           volumes(x, side) == (IF connector = "none" THEN 0 ELSE 1)
                            + (IF side = old THEN x.pegs ELSE 0)
           half(q, k, side) ==
            IF side \notin sides[k] THEN q
            ELSE RegisterHalf(q, targets[k], remap(targets[k].group, side),
                              volumes(targets[k], side), walk)
           halves(q, k) == half(half(q, k, 0), k, 1)
           cutOne(q, k) ==
            IF connector = "dowel" /\ sides[k] = {0, 1}
            THEN RegisterPin(halves(q, k), targets[k], walk) ELSE halves(q, k)
           base == p
           next(v, k) == cutOne(v, k)
           n == Len(targets)
           tail(done) ==
             LET kept == ActivePlate(done)
                 made == {x \in gs \X {0, 1} : \E k \in DOMAIN targets :
                             targets[k].group = x[1] /\ x[2] \in sides[k]}
                 settings == [m \in {remap(x[1], x[2]) : x \in made} |->
                     LET x == CHOOSE y \in made : remap(y[1], y[2]) = m
                     IN IF x[1] \in DOMAIN kept.groups THEN kept.groups[x[1]] ELSE {}]
                 named == EditActive(done, [kept EXCEPT !.groups = Over(settings, @)])
                 less == RemoveSources([s EXCEPT !.project = named, !.fresh = @ + 2 * Cardinality(gs)],
                                       targets)
                 plate == DissolveOrphans(ActivePlate(less.project))
                 live == GroupsOf(plate, IdsOn(plate))
                 tidy == [less EXCEPT !.project = EditActive(less.project,
                            [plate EXCEPT !.groups = Without(@, DOMAIN @ \ live)])]
             IN Select(tidy, (p.lastObject + 1)..done.lastObject, "replace")
           f2 == s.fresh + 2 * Cardinality(gs)
           Good(v, m) == CutSoFar(p, v, e, c, l, f2)
<1>1. n \in Nat
  BY DEF TargetsOK
<1> DEFINE Runs(f, m) == /\ f = [i \in 0..m |-> f[i]]
                         /\ f[0] = base /\ \A i \in 1..m : f[i] = next(f[i - 1], i)
           T == {m \in 0..n : \E f : Runs(f, m)}
<1>2. PICK f : Runs(f, n)
  <2> HIDE DEF next, n, base, tail
  <2>1. 0 \in T
    <3> DEFINE g == [i \in 0..0 |-> base]
    <3>1. g = [i \in 0..0 |-> g[i]] /\ g[0] = base /\ \A i \in 1..0 : FALSE
      OBVIOUS
    <3>2. Runs(g, 0)
      BY <3>1
    <3>3. 0 \in 0..n
      BY <1>1
    <3> HIDE DEF Runs
    <3> QED BY <3>2, <3>3
  <2>2. ASSUME NEW m \in 1..n, m - 1 \in T PROVE m \in T
    <3>1. PICK f : Runs(f, m - 1)
      BY <2>2
    <3> DEFINE g == [i \in 0..m |-> IF i = m THEN next(f[m - 1], m) ELSE f[i]]
    <3>2. g = [i \in 0..m |-> g[i]] /\ g[0] = base
      BY <3>1, <1>1
    <3>3. ASSUME NEW i \in 1..m PROVE g[i] = next(g[i - 1], i)
      <4>1. g[i - 1] = f[i - 1] /\ i \in 0..m
        BY <1>1
      <4>2. i # m => i \in 1..(m - 1) /\ g[i] = f[i]
        BY <1>1, <4>1
      <4> QED BY <3>1, <4>1, <4>2
    <3>4. Runs(g, m)
      BY <3>2, <3>3
    <3>5. m \in 0..n
      BY <1>1
    <3> HIDE DEF Runs
    <3> QED BY <3>4, <3>5
  <2> HIDE DEF T
  <2>3. n \in T
    <3>1. \A i \in 0..n : i \in T
      BY <1>1, <2>1, <2>2, UpTo, Zenon
    <3> QED BY <3>1, <1>1
  <2> QED BY <2>3 DEF T
<1> HIDE DEF T
<1>3. t = tail(f[n])
  <2> DEFINE run == CHOOSE h : h = [k \in 0..n |-> IF k = 0 THEN base ELSE next(h[k - 1], k)]
  <2>1. f = [k \in 0..n |-> IF k = 0 THEN base ELSE next(f[k - 1], k)]
    <3> HIDE DEF n, next, base, tail
    <3>1. \A k \in 0..n : f[k] = IF k = 0 THEN base ELSE next(f[k - 1], k)
      <4> TAKE k \in 0..n
      <4>1. k # 0 => k \in 1..n
        BY <1>1
      <4> QED BY <1>2, <4>1
    <3>2. f = [k \in 0..n |-> f[k]]
      BY <1>2, Zenon
    <3> QED BY <3>1, <3>2, Zenon
  <2>2. run = [k \in 0..n |-> IF k = 0 THEN base ELSE next(run[k - 1], k)]
    <3> HIDE DEF n, next, base, tail
    <3> QED BY <2>1, Zenon
  <2>3. t = tail(run[n])
    BY Zenon DEF ApplyCut
  <2> DEFINE U == {m \in 0..n : run[m] = f[m]}
  <2> HIDE DEF run, n, next, base, tail
  <2>4. 0 \in U
    BY <2>1, <2>2, <1>1
  <2>5. ASSUME NEW m \in 1..n, m - 1 \in U PROVE m \in U
    <3>1. m \in 0..n /\ m # 0 /\ run[m - 1] = f[m - 1]
      BY <2>5, <1>1
    <3> QED BY <3>1, <2>1, <2>2
  <2> HIDE DEF U
  <2>6. \A i \in 0..n : i \in U
    BY <1>1, <2>4, <2>5, UpTo, Zenon
  <2>7. n \in 0..n
    BY <1>1
  <2> QED BY <2>3, <2>6, <2>7 DEF U
<1> DEFINE G == {m \in 0..n : Good(f[m], m)}
<1> HIDE DEF tail
<1>7. /\ s.fresh \in Nat /\ DocumentOK(p, e, c, l, s.fresh) /\ DocumentShape(p) /\ DOMAIN targets = 1..n
      /\ \A k \in 1..n : TargetOK(targets[k]) /\ targets[k].group \in Nat /\ targets[k].pegs \in Nat
      /\ DOMAIN s = {"project", "selection", "cache", "fresh"}
  BY DEF SessionOK, DocumentOK, TargetsOK, TargetOK
<1>8. /\ Cardinality(gs) \in Nat /\ gs = GroupsAmong(targets)
      /\ \A g \in gs : Rank(gs, g) \in 1..Cardinality(gs)
  <2>1. gs = GroupsAmong(targets)
    BY DEF GroupsAmong
  <2> HIDE DEF gs
  <2>2. Cardinality(gs) \in Nat /\ \A g \in gs : Rank(gs, g) \in 1..Cardinality(gs)
    BY <2>1, TargetGroups
  <2> QED BY <2>1, <2>2
<1>9. f2 \in Nat /\ s.fresh <= f2
  BY <1>7, <1>8
<1>10. ASSUME NEW k \in 1..n, NEW side \in {0, 1}
       PROVE  /\ remap(targets[k].group, side) = NoGroup \/ remap(targets[k].group, side) \in (s.fresh + 1)..f2
              /\ volumes(targets[k], side) \in Nat
  <2>1. targets[k].group # NoGroup => targets[k].group \in gs
    BY <1>7
  <2>2. volumes(targets[k], side) \in Nat
    BY <1>7
  <2> HIDE DEF gs
  <2>3. ASSUME targets[k].group # NoGroup PROVE remap(targets[k].group, side) \in (s.fresh + 1)..f2
    <3> DEFINE r == Rank(gs, targets[k].group)
    <3>1. r \in 1..Cardinality(gs)
      BY <2>1, <2>3, <1>8
    <3> HIDE DEF r
    <3>2. s.fresh + 2 * r - side \in (s.fresh + 1)..f2
      BY <3>1, <1>7, <1>8
    <3> QED BY <3>2, <2>3 DEF r
  <2> QED BY <2>2, <2>3
<1> HIDE DEF remap, volumes, gs
<1>4. 0 \in G
  <2>1. f[0] = p
    BY <1>2
  <2>2. DocumentOK(p, e, c, l, f2)
    <3> HIDE DEF f2, p
    <3>1. e \subseteq e /\ c \subseteq c /\ l \subseteq l
      OBVIOUS
    <3> QED BY <1>7, <1>9, <3>1, DocumentWeaker
  <2>3. GrownBy(p, p)
    <3> HIDE DEF p
    <3> QED BY <1>7, GrownSelf
  <2>4. Good(f[0], 0)
    BY <2>1, <2>2, <2>3 DEF CutSoFar
  <2> HIDE DEF Good, Runs
  <2> QED BY <2>4, <1>1
<1>5. ASSUME NEW m \in 1..n, m - 1 \in G PROVE m \in G
  <2> DEFINE v == f[m - 1]
             w == f[m]
             h0 == half(v, m, 0)
             h1 == half(h0, m, 1)
             x == targets[m]
             g0 == remap(x.group, 0)
             g1 == remap(x.group, 1)
             n0 == volumes(x, 0)
             n1 == volumes(x, 1)
  <2>1. CutSoFar(p, v, e, c, l, f2)
    BY <1>5
  <2>2. w = cutOne(v, m)
    <3>1. w = next(v, m)
      <4> HIDE DEF next, base
      <4> QED BY <1>1, <1>2
    <3> QED BY <3>1
  <2>3. w = IF connector = "dowel" /\ sides[m] = {0, 1} THEN RegisterPin(h1, x, walk) ELSE h1
    BY <2>2
  <2>4. h0 = IF 0 \notin sides[m] THEN v ELSE RegisterHalf(v, x, g0, n0, walk)
    OBVIOUS
  <2>5. h1 = IF 1 \notin sides[m] THEN h0 ELSE RegisterHalf(h0, x, g1, n1, walk)
    OBVIOUS
  <2>6. /\ TargetOK(x) /\ n0 \in Nat /\ n1 \in Nat
        /\ g0 = NoGroup \/ g0 \in (s.fresh + 1)..f2
        /\ g1 = NoGroup \/ g1 \in (s.fresh + 1)..f2
    BY <1>7, <1>10
  <2>7. walk \in Walks(p.plates[p.active].printer)
    OBVIOUS
  <2> DEFINE k0 == 0 \notin sides[m]
             k1 == 1 \notin sides[m]
             d == connector = "dowel" /\ sides[m] = {0, 1}
             fr == s.fresh
  <2>8. /\ w = IF d THEN RegisterPin(h1, x, walk) ELSE h1
        /\ h0 = IF k0 THEN v ELSE RegisterHalf(v, x, g0, n0, walk)
        /\ h1 = IF k1 THEN h0 ELSE RegisterHalf(h0, x, g1, n1, walk)
    BY <2>3, <2>4, <2>5
  <2>9. fr \in Nat /\ DocumentOK(p, e, c, l, fr) /\ fr <= f2 /\ f2 \in Nat
        /\ (g0 = NoGroup \/ g0 \in (fr + 1)..f2) /\ (g1 = NoGroup \/ g1 \in (fr + 1)..f2)
    BY <1>7, <1>9, <2>6
  <2> HIDE DEF v, w, h0, h1, x, g0, g1, n0, n1, p, f2, k0, k1, d, fr, Runs, n, next, base, G
  <2>10. CutSoFar(p, h0, e, c, l, f2)
    BY ONLY <2>1, <2>6, <2>7, <2>8, <2>9, CutHalf
  <2>11. CutSoFar(p, h1, e, c, l, f2)
    BY ONLY <2>10, <2>6, <2>7, <2>8, <2>9, CutHalf
  <2>12. CutSoFar(p, w, e, c, l, f2)
    BY ONLY <2>11, <2>6, <2>7, <2>8, <2>9, CutPin
  <2>13. m \in 0..n
    BY <1>1
  <2> QED BY <2>12, <2>13 DEF G, w
<1> HIDE DEF G, Runs, n
<1>6. Good(f[n], n)
  <2>1. \A i \in 0..n : i \in G
    BY <1>1, <1>4, <1>5, UpTo, Zenon
  <2>2. n \in 0..n
    BY <1>1
  <2> QED BY <2>1, <2>2 DEF G
<1> DEFINE done == f[n]
           gone == {targets[k].id : k \in DOMAIN targets}
<1>11. CutSoFar(p, done, e, c, l, f2)
  BY <1>6
<1>12. t = tail(done)
  BY <1>3
<1> DEFINE kept == ActivePlate(done)
           made == {x \in gs \X {0, 1} : \E k \in DOMAIN targets :
                       targets[k].group = x[1] /\ x[2] \in sides[k]}
           settings == [m \in {remap(x[1], x[2]) : x \in made} |->
               LET x == CHOOSE y \in made : remap(y[1], y[2]) = m
               IN IF x[1] \in DOMAIN kept.groups THEN kept.groups[x[1]] ELSE {}]
           with == [kept EXCEPT !.groups = Over(settings, @)]
           s1 == [s EXCEPT !.project = EditActive(done, with), !.fresh = @ + 2 * Cardinality(gs)]
           less == DeleteObjects(s1, gone)
           plate == DissolveOrphans(ActivePlate(less.project))
           live == GroupsOf(plate, IdsOn(plate))
           groups == Without(plate.groups, DOMAIN plate.groups \ live)
           tidy == [less EXCEPT !.project = EditActive(less.project, [plate EXCEPT !.groups = groups])]
           new == (p.lastObject + 1)..done.lastObject
<1> HIDE DEF done
<1>13. t = Select(tidy, new, "replace")
  BY <1>12, Zenon DEF tail, RemoveSources
<1>14. Renamed(kept, with)
  <2> HIDE DEF settings
  <2>1. with = [kept EXCEPT !.groups = Over(settings, @)]
    OBVIOUS
  <2> HIDE DEF with, kept
  <2> QED BY <2>1 DEF Renamed
<1> HIDE DEF with
<1>15. s1 = WithProject(s, EditActive(done, with), f2)
  BY <1>7 DEF WithProject
<1>16. kept = ActivePlate(done) /\ less = DeleteObjects(s1, gone) /\ tidy = Tidied(less, groups)
  BY Zenon DEF Tidied
<1>17. CutSoFar(s.project, done, e, c, l, f2) /\ f2 \in Nat /\ s.fresh <= f2 /\ SessionOK(s, e, c, l)
  BY <1>9, <1>11
<1> HIDE DEF kept, s1, gone, less, plate, groups, tidy, new, f2, live, made, settings, Good, next
<1>18. Result(s, t, e, c, l) /\ CutIs(s.project, t.project, gone)
  BY ONLY <1>13, <1>14, <1>15, <1>16, <1>17, CutTidied
<1> QED BY <1>18 DEF gone

-----------------------------------------------------------------------------
(* The invariant. *)

(* What a record in the making holds, or the history. *)
Whole(snap) == SnapOK(snap, excused, crossed.ever, leaked, session.fresh)

(* A document was loaded, and the history is yet to be told. *)
Loading == main.pc \in {"emitted", "captured"} /\ main.kind = "reset"

MainOK ==
  /\ main.pc \in {"idle", "emitted", "captured", "orienting", "restoring"}
  /\ main.pc \in {"emitted", "captured"} => main.kind \in {"edit", "select", "reset"}
  /\ main.pc = "captured" => DOMAIN main = {"pc", "kind", "snap", "alone"}
  /\ main.pc = "restoring" => DOMAIN main = {"pc", "snap", "alone"} /\ paint = NoPaint
  /\ main.pc \in {"captured", "restoring"} =>
       /\ Whole(main.snap)
       /\ main.alone => ~ CutRecording
  /\ main.pc = "captured" /\ main.alone => main.snap = Capture(session)
  /\ main.pc = "restoring" /\ main.alone => main.snap = snapshots[cursor]

CutOK ==
  /\ cut.pc \in {"idle", "read", "emitted", "captured"}
  /\ "pc" \in DOMAIN cut
  /\ cut.pc = "read" => TargetsOK(cut.targets)
  /\ cut.pc = "captured" =>
       /\ DOMAIN cut = {"pc", "snap", "alone"}
       /\ Whole(cut.snap)
       /\ cut.alone => cut.snap = Capture(session)

StackOK ==
  /\ HistoryOK
  /\ ~ Loading => \A k \in DOMAIN snapshots : Whole(snapshots[k])
  /\ (main.pc \in {"idle", "orienting"} /\ ~ CutRecording /\ ~ overtaken)
       => snapshots[cursor] = Capture(session)

GpuOK ==
  \A m \in DOMAIN gpu : /\ m \in 1..project.lastMesh
                        /\ m \in DOMAIN project.meshes => gpu[m] = project.meshes[m].of

PaintOK ==
  paint # NoPaint =>
    /\ paint.epoch \in 0..epoch
    /\ paint.epoch = epoch =>
         /\ paint.mesh \in 1..project.lastMesh
         /\ paint.mesh \in DOMAIN project.meshes => project.meshes[paint.mesh].of = paint.of

GhostsOK ==
  /\ {poisoned, restored, overtaken} \subseteq BOOLEAN
  /\ epoch \in Nat
  /\ DOMAIN crossed = {"now", "ever"} /\ crossed.now \subseteq crossed.ever
  /\ session.fresh >= FirstFresh

SceneIInv ==
  /\ SessionOK(session, excused, crossed.now, leaked)
  /\ GhostsOK /\ MainOK /\ CutOK /\ StackOK /\ PaintOK
  /\ ~ restored => ~ poisoned /\ CacheOK(session) /\ GpuOK

-----------------------------------------------------------------------------
(* What the frame of a command keeps. *)

LEMMA SnapStays ==
  ASSUME NEW snap, NEW e, NEW c, NEW l, NEW f \in Nat, SnapOK(snap, e, c, l, f),
         NEW e2, e \subseteq e2, NEW c2, c \subseteq c2, NEW l2, l \subseteq l2, NEW f2 \in Nat, f <= f2
  PROVE  SnapOK(snap, e2, c2, l2, f2)
<1>1. DocumentOK(snap.project, e2, c2, l2, f2)
  <2> DEFINE p == snap.project
  <2>1. DocumentOK(p, e, c, l, f)
    BY DEF SnapOK
  <2> HIDE DEF p
  <2> QED BY <2>1, DocumentWeaker DEF p
<1> QED BY <1>1 DEF SnapOK

(* The ghosts remember more and more. *)
Remembers ==
  /\ excused \subseteq excused' /\ leaked \subseteq leaked'
  /\ DOMAIN crossed' = {"now", "ever"} /\ crossed.ever \subseteq crossed'.ever /\ crossed'.now \subseteq crossed'.ever

LEMMA WholeStays ==
  ASSUME SceneIInv, Remembers, session'.fresh \in Nat, session.fresh <= session'.fresh,
         NEW snap, Whole(snap)
  PROVE  SnapOK(snap, excused', crossed'.ever, leaked', session'.fresh)
<1> DEFINE f == session.fresh
           f2 == session'.fresh
           c == crossed.ever
           c2 == crossed'.ever
           e2 == excused'
           l2 == leaked'
<1>1. f \in Nat /\ f2 \in Nat /\ f <= f2 /\ SnapOK(snap, excused, c, leaked, f)
      /\ excused \subseteq e2 /\ c \subseteq c2 /\ leaked \subseteq l2
  BY DEF SceneIInv, SessionOK, Whole, Remembers
<1> HIDE DEF f, f2, c, c2, e2, l2
<1>2. SnapOK(snap, e2, c2, l2, f2)
  BY <1>1, SnapStays
<1> QED BY <1>2 DEF f2, c2, e2, l2

LEMMA CapturedIsWhole ==
  ASSUME SceneIInv
  PROVE  Whole(Capture(session))
<1> DEFINE s == session
           c == crossed.now
           c2 == crossed.ever
           snap == Capture(s)
<1>1. SessionOK(s, excused, c, leaked) /\ c \subseteq c2 /\ s.fresh \in Nat /\ s.fresh <= s.fresh
      /\ excused \subseteq excused /\ leaked \subseteq leaked
  BY DEF SceneIInv, GhostsOK, SessionOK
<1> HIDE DEF s, c, c2, snap
<1>2. SnapOK(snap, excused, c, leaked, s.fresh)
  BY <1>1, CaptureIs DEF snap
<1>3. SnapOK(snap, excused, c2, leaked, s.fresh)
  BY <1>1, <1>2, SnapStays
<1> QED BY <1>3 DEF Whole, s, c2, snap

(* The renderer and the paint tool, when the pool is only added to or pruned. *)
LEMMA GpuStays ==
  ASSUME SceneIInv, GpuOK, UNCHANGED gpu, PoolStep(project, project'), DocumentShape(project')
  PROVE  GpuOK'
<1> SUFFICES ASSUME NEW m \in DOMAIN gpu
             PROVE  /\ m \in 1..project'.lastMesh
                    /\ m \in DOMAIN project'.meshes => gpu[m] = project'.meshes[m].of
  BY DEF GpuOK
<1>1. m \in 1..project.lastMesh /\ (m \in DOMAIN project.meshes => gpu[m] = project.meshes[m].of)
  BY DEF GpuOK
<1>2. project.lastMesh \in Nat /\ project'.lastMesh \in Nat /\ project'.lastMesh >= project.lastMesh
  BY DEF SceneIInv, SessionOK, DocumentOK, DocumentShape, PoolStep, project
<1>3. m \in 1..project'.lastMesh
  BY <1>1, <1>2
<1>4. m \in DOMAIN project'.meshes => m \in DOMAIN project.meshes /\ project'.meshes[m].of = project.meshes[m].of
  BY <1>1, <1>2 DEF PoolStep
<1> QED BY <1>1, <1>3, <1>4

LEMMA PaintStays ==
  ASSUME SceneIInv, paint' = paint \/ paint' = NoPaint, epoch' = epoch,
         PoolStep(project, project'), DocumentShape(project')
  PROVE  PaintOK'
<1> SUFFICES ASSUME paint' = paint, paint # NoPaint
             PROVE  /\ paint.epoch \in 0..epoch
                    /\ paint.epoch = epoch =>
                         /\ paint.mesh \in 1..project'.lastMesh
                         /\ paint.mesh \in DOMAIN project'.meshes => project'.meshes[paint.mesh].of = paint.of
  BY DEF PaintOK, NoPaint
<1> DEFINE m == paint.mesh
<1>1. /\ paint.epoch \in 0..epoch
      /\ paint.epoch = epoch => /\ m \in 1..project.lastMesh
                                /\ m \in DOMAIN project.meshes => project.meshes[m].of = paint.of
  BY DEF SceneIInv, PaintOK
<1>2. project.lastMesh \in Nat /\ project'.lastMesh \in Nat /\ project'.lastMesh >= project.lastMesh
  BY DEF SceneIInv, SessionOK, DocumentOK, DocumentShape, PoolStep, project
<1> HIDE DEF m
<1>3. m \in 1..project.lastMesh => m \in 1..project'.lastMesh
  BY <1>2
<1>4. m \in 1..project.lastMesh /\ m \in DOMAIN project'.meshes
        => m \in DOMAIN project.meshes /\ project'.meshes[m].of = project.meshes[m].of
  BY <1>2 DEF PoolStep
<1> QED BY <1>1, <1>3, <1>4 DEF m

LEMMA FitDocument ==
  ASSUME NEW s, NEW e, NEW c, NEW l, SessionOK(s, e, c, l)
  PROVE  DocumentShape(s.project) /\ s.fresh \in Nat
BY DEF SessionOK, DocumentOK

(* What a command may do to the ghosts and to the rest. *)
Around(kind) ==
  /\ UNCHANGED <<gpu, epoch, restored>>
  /\ paint' = paint \/ paint' = NoPaint
  /\ Remembers
  /\ kind \in {"edit", "select", "quiet"}
  /\ main.pc \in {"idle", "orienting"}

LEMMA LeaveKeeps ==
  ASSUME SceneIInv, NEW next, NEW kind, Leave(next, kind), Around(kind),
         Result(session, next, excused', crossed'.now, leaked')
  PROVE  SceneIInv'
<1>1. /\ session' = next /\ poisoned' = poisoned /\ UNCHANGED <<snapshots, cursor, recent>>
      /\ main' = IF kind = "quiet" THEN Idle ELSE [pc |-> "emitted", kind |-> kind]
      /\ overtaken' = (overtaken \/ (kind = "quiet" /\ Capture(next) # Capture(session)))
      /\ cut' = Overtake(cut)
  BY DEF Leave, historyVars
<1>2. /\ SessionOK(session', excused', crossed'.now, leaked') /\ session'.fresh >= session.fresh
      /\ PoolStep(project, project') /\ (CacheOK(session) => CacheOK(session'))
  BY <1>1 DEF Result, project
<1>3. session.fresh \in Nat /\ session'.fresh \in Nat /\ session.fresh <= session'.fresh /\ DocumentShape(project')
      /\ FirstFresh \in Nat
  <2>1. DocumentShape(session'.project) /\ session'.fresh \in Nat
    <3> DEFINE s == session'
               e == excused'
               c == crossed'.now
               l == leaked'
    <3>1. SessionOK(s, e, c, l)
      BY <1>2
    <3> HIDE DEF s, e, c, l
    <3>2. DocumentShape(s.project) /\ s.fresh \in Nat
      BY <3>1, FitDocument
    <3> QED BY <3>2 DEF s
  <2> QED BY <2>1, <1>2, SceneAssumption DEF SceneIInv, SessionOK, project
<1>4. ASSUME NEW snap, Whole(snap)
      PROVE  SnapOK(snap, excused', crossed'.ever, leaked', session'.fresh)
  BY <1>3, <1>4, WholeStays DEF Around
<1>5. GhostsOK'
  <2>1. restored' = restored /\ epoch' = epoch /\ Remembers
    BY DEF Around
  <2>2. overtaken' \in BOOLEAN /\ poisoned' = poisoned
    BY <1>1
  <2>3. session'.fresh >= FirstFresh
    BY <1>2, <1>3 DEF SceneIInv, GhostsOK
  <2> QED BY <2>1, <2>2, <2>3 DEF SceneIInv, GhostsOK, Remembers
<1>6. main'.pc \in {"idle", "emitted"} /\ (main'.pc = "emitted" => main'.kind \in {"edit", "select"})
      /\ (main'.pc = "idle" => kind = "quiet")
  BY <1>1 DEF Idle, Around
<1>7. MainOK'
  BY <1>6 DEF MainOK
<1>8. cut'.pc = cut.pc /\ CutRecording' = CutRecording /\ CutOK'
  <2>1. CutOK
    BY DEF SceneIInv
  <2>2. CASE cut.pc = "captured"
    <3>1. DOMAIN cut' = {"pc", "snap", "alone"} /\ cut'.pc = "captured" /\ cut'.snap = cut.snap /\ cut'.alone = FALSE
      BY <1>1, <2>1, <2>2 DEF CutOK, Overtake
    <3>2. SnapOK(cut'.snap, excused', crossed'.ever, leaked', session'.fresh)
      BY <2>1, <2>2, <3>1, <1>4 DEF CutOK
    <3> QED BY <2>2, <3>1, <3>2 DEF CutOK, CutRecording, Whole
  <2>3. CASE cut.pc # "captured"
    <3>1. cut' = cut
      BY <1>1, <2>1, <2>3 DEF CutOK, Overtake
    <3> QED BY <2>1, <2>3, <3>1 DEF CutOK, CutRecording
  <2> QED BY <2>2, <2>3
<1>9. StackOK'
  <2>1. StackOK
    BY DEF SceneIInv
  <2>2. HistoryOK'
    BY <1>1, <2>1 DEF StackOK, HistoryOK
  <2>3. \A k \in DOMAIN snapshots' : SnapOK(snapshots'[k], excused', crossed'.ever, leaked', session'.fresh)
    <3>1. ~ Loading
      BY DEF Loading, Around
    <3> QED BY <1>1, <1>4, <2>1, <3>1 DEF StackOK
  <2>4. ASSUME main'.pc \in {"idle", "orienting"}, ~ CutRecording', ~ overtaken'
        PROVE  snapshots'[cursor'] = Capture(session)'
    <3>1. kind = "quiet" /\ ~ overtaken /\ Capture(next) = Capture(session)
      BY <1>1, <1>6, <2>4
    <3>2. snapshots[cursor] = Capture(session)
      BY <1>8, <2>1, <2>4, <3>1 DEF StackOK, Around
    <3>3. Capture(session)' = Capture(next)
      BY <1>1 DEF Capture
    <3> QED BY <1>1, <3>1, <3>2, <3>3
  <2> QED BY <2>2, <2>3, <2>4 DEF StackOK, Whole
<1>10. PaintOK'
  BY <1>2, <1>3, PaintStays DEF Around
<1>11. ~ restored' => ~ poisoned' /\ CacheOK(session)' /\ GpuOK'
  <2> SUFFICES ASSUME ~ restored' PROVE ~ poisoned' /\ CacheOK(session)' /\ GpuOK'
    OBVIOUS
  <2>1. ~ poisoned /\ CacheOK(session) /\ GpuOK
    BY DEF SceneIInv, Around
  <2>2. GpuOK'
    BY <1>2, <1>3, <2>1, GpuStays DEF Around
  <2>3. CacheOK(session)'
    BY <1>2, <2>1 DEF CacheOK
  <2> QED BY <1>1, <2>1, <2>2, <2>3
<1> QED BY <1>2, <1>5, <1>7, <1>8, <1>9, <1>10, <1>11 DEF SceneIInv

-----------------------------------------------------------------------------
(* The undo stack, handed any snapshot by any caller at any time, for every cap *)
(* and every set of snapshots.                                                  *)

CONSTANT Snapshot

StackInit == \E s \in Snapshot : HistoryInit(s)

StackNext ==
    \/ \E s \in Snapshot : Reset(s) \/ RefreshCurrent(s) \/ Record(s)
    \/ UndoStep
    \/ RedoStep
    \/ Lapse

StackSpec == StackInit /\ [][StackNext]_historyVars

-----------------------------------------------------------------------------

\* Recording keeps the cursor on the last of at most MaxDepth snapshots.
LEMMA RecordKeepsRange ==
    ASSUME HistoryOK, NEW s, Record(s)
    PROVE  HistoryOK'
<1> USE DepthAssumption
<1> DEFINE n == IF recent THEN cursor ELSE cursor + 1
           drop == IF n > MaxDepth THEN n - MaxDepth ELSE 0
<1>1. PICK len \in 1..MaxDepth : DOMAIN snapshots = 1..len
  BY DEF HistoryOK
<1>2. cursor \in 1..len
  BY <1>1 DEF HistoryOK
<1>3. n \in 1..(MaxDepth + 1)
  BY <1>1, <1>2
<1>4. n - drop \in 1..MaxDepth
  BY <1>3
<1>5. DOMAIN snapshots' = 1..(n - drop) /\ cursor' = n - drop /\ recent' = TRUE
  BY DEF Record
<1> HIDE DEF n, drop
<1>6. cursor' \in DOMAIN snapshots'
  BY <1>4, <1>5
<1>7. recent' \in BOOLEAN
  BY <1>5
<1>8. \E m \in 1..MaxDepth : DOMAIN snapshots' = 1..m
  BY <1>4, <1>5
<1> QED
  BY <1>6, <1>7, <1>8 DEF HistoryOK

\* Every step keeps the stack in range.
LEMMA StepKeepsRange ==
    ASSUME HistoryOK, [StackNext]_historyVars
    PROVE  HistoryOK'
<1> USE DepthAssumption
<1>1. CASE UNCHANGED historyVars
  BY <1>1 DEF HistoryOK, historyVars
<1>2. ASSUME NEW s \in Snapshot, Reset(s) PROVE HistoryOK'
  <2>1. DOMAIN snapshots' = 1..1 /\ cursor' = 1
    BY <1>2 DEF Reset
  <2>2. recent' \in BOOLEAN
    BY <1>2 DEF Reset
  <2>3. \E n \in 1..MaxDepth : DOMAIN snapshots' = 1..n
    BY <2>1
  <2>4. cursor' \in DOMAIN snapshots'
    BY <2>1
  <2> QED
    BY <2>2, <2>3, <2>4 DEF HistoryOK
<1>3. ASSUME NEW s \in Snapshot, RefreshCurrent(s) PROVE HistoryOK'
  <2>1. DOMAIN snapshots' = DOMAIN snapshots /\ cursor' = cursor /\ recent' = recent
    BY <1>3 DEF RefreshCurrent
  <2> QED
    BY <2>1 DEF HistoryOK
<1>4. ASSUME NEW s \in Snapshot, Record(s) PROVE HistoryOK'
  BY <1>4, RecordKeepsRange
<1>5. CASE UndoStep
  <2>1. PICK len \in 1..MaxDepth : DOMAIN snapshots = 1..len
    BY DEF HistoryOK
  <2>2. cursor' \in 1..len
    BY <1>5, <2>1 DEF HistoryOK, UndoStep, CanUndo
  <2>3. snapshots' = snapshots /\ recent' = FALSE
    BY <1>5 DEF UndoStep
  <2>4. cursor' \in DOMAIN snapshots'
    BY <2>1, <2>2, <2>3
  <2>5. recent' \in BOOLEAN
    BY <2>3
  <2> QED
    BY <2>1, <2>3, <2>4, <2>5 DEF HistoryOK
<1>6. CASE RedoStep
  BY <1>6 DEF HistoryOK, RedoStep, CanRedo
<1>7. CASE Lapse
  BY <1>7 DEF HistoryOK, Lapse
<1> QED
  BY <1>1, <1>2, <1>3, <1>4, <1>5, <1>6, <1>7 DEF StackNext

\* The undo stack's cursor is always in range, whatever the order of edits,
\* selection changes, undos, redos and loads.
THEOREM StackAlwaysOK == StackSpec => []HistoryOK
<1>1. StackInit => HistoryOK
  <2> SUFFICES ASSUME NEW s, HistoryInit(s) PROVE HistoryOK
    BY DEF StackInit
  <2>1. DOMAIN snapshots = 1..1 /\ cursor = 1
    BY DEF HistoryInit
  <2>2. recent \in BOOLEAN
    BY DEF HistoryInit
  <2>3. \E n \in 1..MaxDepth : DOMAIN snapshots = 1..n
    BY <2>1, DepthAssumption
  <2>4. cursor \in DOMAIN snapshots
    BY <2>1
  <2> QED
    BY <2>2, <2>3, <2>4 DEF HistoryOK
<1>2. HistoryOK /\ [StackNext]_historyVars => HistoryOK'
  BY StepKeepsRange
<1> QED
  BY <1>1, <1>2, PTL DEF StackSpec

\* No step but a reset rewrites what can still be undone.
THEOREM UndoTargetsSurvive ==
    StackSpec => [][(\E s \in Snapshot : Reset(s)) \/ UndoTargetsKept]_historyVars
<1> USE DepthAssumption
<1>1. ASSUME HistoryOK, NEW s, Record(s) PROVE UndoTargetsKept
  <2> DEFINE n == IF recent THEN cursor ELSE cursor + 1
             drop == IF n > MaxDepth THEN n - MaxDepth ELSE 0
  <2>1. PICK len \in 1..MaxDepth : DOMAIN snapshots = 1..len
    BY <1>1 DEF HistoryOK
  <2>2. cursor \in 1..len
    BY <1>1, <2>1 DEF HistoryOK
  <2>3. n \in 1..(MaxDepth + 1) /\ drop \in {0, 1} /\ n - drop \in 1..MaxDepth
    BY <2>1, <2>2
  <2>4. cursor' = n - drop
    BY <1>1 DEF Record
  <2>5. \A k \in 1..(n - drop) :
          snapshots'[k] = IF k = n - drop THEN s ELSE snapshots[k + drop]
    BY <1>1 DEF Record
  <2> HIDE DEF n, drop
  <2>6. \A k \in 1..(cursor' - 1) : snapshots'[k] = snapshots[k + drop]
    BY <2>3, <2>4, <2>5
  <2> QED
    BY <2>3, <2>6 DEF UndoTargetsKept
<1>2. ASSUME HistoryOK, NEW s, RefreshCurrent(s) PROVE UndoTargetsKept
  <2>1. \A k \in 1..(cursor' - 1) : snapshots'[k] = snapshots[k + 0]
    BY <1>2 DEF HistoryOK, RefreshCurrent
  <2> QED
    BY <2>1 DEF UndoTargetsKept
<1>3. ASSUME HistoryOK, UndoStep \/ RedoStep \/ Lapse PROVE UndoTargetsKept
  <2>1. \A k \in 1..(cursor' - 1) : snapshots'[k] = snapshots[k + 0]
    BY <1>3 DEF HistoryOK, UndoStep, RedoStep, Lapse, CanUndo, CanRedo
  <2> QED
    BY <2>1 DEF UndoTargetsKept
<1>4. HistoryOK /\ [StackNext]_historyVars
        => [(\E s \in Snapshot : Reset(s)) \/ UndoTargetsKept]_historyVars
  BY <1>1, <1>2, <1>3 DEF StackNext
<1> QED
  BY <1>4, StackAlwaysOK, PTL DEF StackSpec

-----------------------------------------------------------------------------
(* The history, as the session's threads use it. *)

\* The snapshot is under the cursor, and the others were there.
Holds(snap) ==
  /\ HistoryOK' /\ snapshots'[cursor'] = snap
  /\ \A k \in DOMAIN snapshots' : snapshots'[k] = snap \/ \E j \in DOMAIN snapshots : snapshots'[k] = snapshots[j]

LEMMA RecordHolds ==
  ASSUME HistoryOK, NEW s, Record(s)
  PROVE  Holds(s)
<1> USE DepthAssumption
<1> DEFINE n == IF recent THEN cursor ELSE cursor + 1
           drop == IF n > MaxDepth THEN n - MaxDepth ELSE 0
<1>1. PICK len \in 1..MaxDepth : DOMAIN snapshots = 1..len
  BY DEF HistoryOK
<1>2. cursor \in 1..len
  BY <1>1 DEF HistoryOK
<1>3. n \in 1..(MaxDepth + 1) /\ drop \in {0, 1} /\ n - drop \in 1..MaxDepth /\ n <= cursor + 1
  BY <1>1, <1>2
<1>4. cursor' = n - drop /\ DOMAIN snapshots' = 1..(n - drop)
  BY DEF Record
<1>5. \A k \in 1..(n - drop) : snapshots'[k] = IF k = n - drop THEN s ELSE snapshots[k + drop]
  BY DEF Record
<1> HIDE DEF n, drop
<1>6. HistoryOK'
  BY RecordKeepsRange
<1>7. snapshots'[cursor'] = s
  BY <1>3, <1>4, <1>5
<1>8. ASSUME NEW k \in DOMAIN snapshots', snapshots'[k] # s
      PROVE  \E j \in DOMAIN snapshots : snapshots'[k] = snapshots[j]
  <2>1. k \in 1..(n - drop) /\ k # n - drop
    BY <1>4, <1>5, <1>8
  <2>2. k + drop \in DOMAIN snapshots
    BY <2>1, <1>1, <1>2, <1>3
  <2> QED BY <2>1, <2>2, <1>5
<1> QED BY <1>6, <1>7, <1>8 DEF Holds

LEMMA RememberHolds ==
  ASSUME HistoryOK, NEW kind, kind \in {"edit", "select", "reset"}, NEW s, Remember(kind, s)
  PROVE  Holds(s) /\ (kind = "reset" => \A k \in DOMAIN snapshots' : snapshots'[k] = s)
<1>1. CASE kind = "edit"
  BY <1>1, RecordHolds DEF Remember
<1>2. CASE kind = "select"
  <2>1. RefreshCurrent(s)
    BY <1>2 DEF Remember
  <2>2. /\ DOMAIN snapshots' = DOMAIN snapshots /\ cursor' = cursor /\ recent' = recent
        /\ snapshots'[cursor] = s /\ \A k \in DOMAIN snapshots : k # cursor => snapshots'[k] = snapshots[k]
    BY <2>1 DEF RefreshCurrent, HistoryOK
  <2>3. HistoryOK'
    BY <2>2 DEF HistoryOK
  <2> QED BY <1>2, <2>2, <2>3 DEF Holds
<1>3. CASE kind = "reset"
  <2>1. Reset(s)
    BY <1>3 DEF Remember
  <2>2. DOMAIN snapshots' = 1..1 /\ cursor' = 1 /\ recent' = FALSE /\ \A k \in DOMAIN snapshots' : snapshots'[k] = s
    BY <2>1 DEF Reset
  <2>3. HistoryOK'
    <3>1. \E n \in 1..MaxDepth : DOMAIN snapshots' = 1..n
      BY <2>2, DepthAssumption
    <3>2. cursor' \in DOMAIN snapshots'
      BY <2>2
    <3>3. recent' \in BOOLEAN
      BY <2>2
    <3> QED BY <3>1, <3>2, <3>3 DEF HistoryOK
  <2> QED BY <2>2, <2>3 DEF Holds
<1> QED BY <1>1, <1>2, <1>3

-----------------------------------------------------------------------------
(* Steps that leave the session alone. *)

Same == UNCHANGED <<session, poisoned, epoch, restored, excused, crossed, leaked>>

LEMMA SameIs ==
  ASSUME SceneIInv, Same
  PROVE  /\ SessionOK(session', excused', crossed'.now, leaked')
         /\ overtaken' \in BOOLEAN => GhostsOK'
         /\ \A snap : Whole(snap) <=> SnapOK(snap, excused', crossed'.ever, leaked', session'.fresh)
         /\ UNCHANGED gpu => (~ restored' => ~ poisoned' /\ CacheOK(session)' /\ GpuOK')
         /\ UNCHANGED paint => PaintOK'
         /\ Capture(session)' = Capture(session)
<1> QED BY DEF SceneIInv, Same, GhostsOK, Whole, CacheOK, GpuOK, PaintOK, Capture, project

LEMMA TrackCaptureKeeps ==
  ASSUME SceneIInv, TrackCapture
  PROVE  SceneIInv'
<1>1. /\ main.pc = "emitted" /\ Same /\ UNCHANGED <<cut, gpu, paint, snapshots, cursor, recent, overtaken>>
      /\ main' = [pc |-> "captured", kind |-> main.kind, snap |-> Capture(session), alone |-> ~CutRecording]
  BY DEF TrackCapture, Same, ghosts, historyVars
<1>2. /\ SessionOK(session', excused', crossed'.now, leaked') /\ GhostsOK' /\ PaintOK'
      /\ ~ restored' => ~ poisoned' /\ CacheOK(session)' /\ GpuOK'
      /\ \A snap : Whole(snap) <=> SnapOK(snap, excused', crossed'.ever, leaked', session'.fresh)
      /\ Capture(session)' = Capture(session)
  <2>1. overtaken' \in BOOLEAN
    BY <1>1 DEF SceneIInv, GhostsOK
  <2> QED BY <1>1, <2>1, SameIs
<1>3. Whole(Capture(session))
  BY CapturedIsWhole
<1>4. CutOK'
  <2>1. CutOK
    BY DEF SceneIInv
  <2> QED BY <1>1, <1>2, <2>1 DEF CutOK, Whole
<1>5. MainOK'
  <2>1. main.kind \in {"edit", "select", "reset"}
    BY <1>1 DEF SceneIInv, MainOK
  <2>2. main'.pc = "captured" /\ main'.kind = main.kind /\ main'.snap = Capture(session) /\ main'.alone = ~CutRecording
        /\ DOMAIN main' = {"pc", "kind", "snap", "alone"}
    BY <1>1
  <2>3. CutRecording' = CutRecording
    BY <1>1 DEF CutRecording
  <2> QED BY <1>2, <1>3, <2>1, <2>2, <2>3 DEF MainOK, Whole
<1>6. StackOK'
  <2>1. StackOK
    BY DEF SceneIInv
  <2>2. Loading' <=> Loading
    BY <1>1 DEF Loading
  <2>3. HistoryOK'
    BY <1>1, <2>1 DEF StackOK, HistoryOK
  <2>4. main'.pc = "captured"
    BY <1>1
  <2> QED BY <1>1, <1>2, <2>1, <2>2, <2>3, <2>4 DEF StackOK, Whole
<1> QED BY <1>2, <1>4, <1>5, <1>6 DEF SceneIInv

LEMMA TrackRecordKeeps ==
  ASSUME SceneIInv, TrackRecord
  PROVE  SceneIInv'
<1>1. /\ main.pc = "captured" /\ Same /\ UNCHANGED <<cut, gpu, paint>> /\ main' = Idle
      /\ Remember(main.kind, main.snap) /\ overtaken' = (~main.alone \/ CutRecording)
  BY DEF TrackRecord, Same, ghosts
<1>2. /\ SessionOK(session', excused', crossed'.now, leaked') /\ GhostsOK' /\ PaintOK'
      /\ ~ restored' => ~ poisoned' /\ CacheOK(session)' /\ GpuOK'
      /\ \A snap : Whole(snap) <=> SnapOK(snap, excused', crossed'.ever, leaked', session'.fresh)
      /\ Capture(session)' = Capture(session)
  <2>1. overtaken' \in BOOLEAN
    BY <1>1
  <2> QED BY <1>1, <2>1, SameIs
<1>3. CutOK'
  <2>1. CutOK
    BY DEF SceneIInv
  <2> QED BY <1>1, <1>2, <2>1 DEF CutOK, Whole
<1>4. MainOK'
  BY <1>1 DEF MainOK, Idle
<1>5. StackOK'
  <2>1. StackOK /\ MainOK /\ HistoryOK
    BY DEF SceneIInv, StackOK
  <2> DEFINE kind == main.kind
             s == main.snap
  <2>2. kind \in {"edit", "select", "reset"} /\ Remember(kind, s) /\ Whole(s)
        /\ (main.alone => main.snap = Capture(session))
    BY <1>1, <2>1 DEF MainOK
  <2>3. Holds(s) /\ (kind = "reset" => \A k \in DOMAIN snapshots' : snapshots'[k] = s)
    <3> HIDE DEF kind, s
    <3> QED BY <2>1, <2>2, RememberHolds
  <2>4. \A k \in DOMAIN snapshots' : Whole(snapshots'[k])
    <3>1. CASE kind = "reset"
      BY <2>2, <2>3, <3>1
    <3>2. CASE kind # "reset"
      <4>1. \A k \in DOMAIN snapshots : Whole(snapshots[k])
        BY <1>1, <2>1, <3>2 DEF StackOK, Loading
      <4>2. ASSUME NEW k \in DOMAIN snapshots' PROVE Whole(snapshots'[k])
        <5>1. snapshots'[k] = s \/ \E j \in DOMAIN snapshots : snapshots'[k] = snapshots[j]
          BY <2>3 DEF Holds
        <5> QED BY <5>1, <4>1, <2>2
      <4> QED BY <4>2
    <3> QED BY <3>1, <3>2
  <2>5. ~ overtaken' => snapshots'[cursor'] = Capture(session)'
    BY <1>1, <1>2, <2>2, <2>3 DEF Holds
  <2>6. HistoryOK'
    BY <2>3 DEF Holds
  <2> QED BY <1>2, <2>4, <2>5, <2>6 DEF StackOK, Whole
<1> QED BY <1>2, <1>3, <1>4, <1>5 DEF SceneIInv

-----------------------------------------------------------------------------
(* The commands. *)

LEMMA Now ==
  ASSUME SceneIInv, NEW s, s = session
  PROVE  /\ SessionOK(s, excused, crossed.now, leaked)
         /\ project = s.project /\ active = ActivePlate(s.project)
         /\ active.printer = s.project.plates[s.project.active].printer
         /\ s.project.active \in DOMAIN s.project.plates
         /\ s.fresh \in Nat /\ FirstFresh \in Nat /\ FirstFresh <= s.fresh
<1>1. SessionOK(s, excused, crossed.now, leaked) /\ s.fresh \in Nat /\ s.fresh >= FirstFresh
  BY DEF SceneIInv, SessionOK, GhostsOK
<1>2. FirstFresh \in Nat
  BY SceneAssumption
<1>3. s.project.active \in DOMAIN s.project.plates
  BY <1>1 DEF SessionOK, DocumentOK, DocumentShape
<1> QED BY <1>1, <1>2, <1>3 DEF project, active, ActivePlate

LEMMA PlainKeeps ==
  ASSUME SceneIInv, NEW next, NEW kind \in {"edit", "select", "quiet"}, Leave(next, kind),
         main.pc \in {"idle", "orienting"}, UNCHANGED <<gpu, paint, ghosts>>,
         Result(session, next, excused, crossed.now, leaked)
  PROVE  SceneIInv'
<1>1. UNCHANGED <<gpu, paint, epoch, restored, excused, crossed, leaked>>
  BY DEF ghosts
<1>2. Remembers
  BY <1>1 DEF Remembers, SceneIInv, GhostsOK
<1>3. Around(kind)
  BY <1>1, <1>2 DEF Around
<1>4. Result(session, next, excused', crossed'.now, leaked')
  BY <1>1
<1> QED BY <1>3, <1>4, LeaveKeeps

(* An edit whose ghosts stay, and one whose ghosts remember more. *)
LEMMA EditStep ==
  ASSUME SceneIInv, NEW family, NEW next, Edit(family, next), UNCHANGED ghosts,
         Result(session, next, excused, crossed.now, leaked)
  PROVE  SceneIInv'
BY PlainKeeps DEF Edit, Enter, Ready

LEMMA GhostEditStep ==
  ASSUME SceneIInv, NEW family, NEW next, Edit(family, next), UNCHANGED <<epoch, restored>>, Remembers,
         Result(session, next, excused', crossed'.now, leaked')
  PROVE  SceneIInv'
<1>1. Around("edit") /\ Leave(next, "edit")
  BY DEF Around, Edit, Enter, Ready
<1> QED BY <1>1, LeaveKeeps

LEMMA LoadMeshStep ==
  ASSUME SceneIInv, NEW geom \in Geometries, LoadMeshFile(geom)
  PROVE  SceneIInv'
<1>a. PICK walk \in Walks(active.printer) : Edit("add", [session EXCEPT !.project = LoadMesh(project, geom, walk)])
  BY DEF LoadMeshFile, EditProject, project
<1> DEFINE s == session
           e == excused
           c == crossed.now
           l == leaked
           next == [s EXCEPT !.project = LoadMesh(project, geom, walk)]
<1>1. /\ SessionOK(s, e, c, l) /\ project = s.project /\ active = ActivePlate(s.project)
      /\ walk \in Walks(s.project.plates[s.project.active].printer)
  BY <1>a, Now
<1>2. Edit("add", next) /\ UNCHANGED ghosts
  BY <1>a DEF LoadMeshFile, EditProject, project
<1>3. next = [s EXCEPT !.project = LoadMesh(s.project, geom, walk)]
  BY <1>1
<1>4. MeshShape(geom) /\ walk \in Walks(ActivePlate(s.project).printer)
  BY <1>1, SceneAssumption DEF MeshShape
<1> HIDE DEF s, e, c, l, next
<1>5. Result(s, next, e, c, l)
  BY ONLY <1>1, <1>3, <1>4, LoadMeshKeeps
<1> QED BY ONLY SceneIInv, <1>2, <1>5, EditStep DEF s, e, c, l

LEMMA LoadThreeMfStep ==
  ASSUME SceneIInv, NEW geoms \in Geometries \X Geometries, NEW grouped, NEW keys, LoadThreeMfFile(geoms, grouped, keys)
  PROVE  SceneIInv'
<1>a. PICK walk \in Walks(active.printer) : Edit("import", LoadThreeMf(session, geoms, grouped, keys, walk))
  BY DEF LoadThreeMfFile, project
<1> DEFINE s == session
           e == excused
           c == crossed.now
           l == leaked
           next == LoadThreeMf(s, geoms, grouped, keys, walk)
<1>1. /\ SessionOK(s, e, c, l) /\ project = s.project /\ active = ActivePlate(s.project)
      /\ walk \in Walks(s.project.plates[s.project.active].printer)
  BY <1>a, Now
<1>2. Edit("import", next) /\ UNCHANGED ghosts
  BY <1>a DEF LoadThreeMfFile, project
<1>3. next = LoadThreeMf(s, geoms, grouped, keys, walk)
  BY <1>1
<1>4. Meshes(geoms) /\ walk \in Walks(ActivePlate(s.project).printer)
  <2>1. Len(geoms) = 2 /\ DOMAIN geoms = 1..2 /\ \A k \in 1..2 : geoms[k] \in Geometries
    OBVIOUS
  <2>2. Meshes(geoms)
    BY <2>1, SceneAssumption DEF Meshes, MeshShape
  <2> QED BY <1>1, <2>2
<1> HIDE DEF s, e, c, l, next
<1>5. Result(s, next, e, c, l)
  BY ONLY <1>1, <1>3, <1>4, ThreeMfKeeps
<1> QED BY ONLY SceneIInv, <1>2, <1>5, EditStep DEF s, e, c, l

LEMMA PlaceObjectsStep ==
  ASSUME SceneIInv, NEW ids, PlaceObjects(ids)
  PROVE  SceneIInv'
<1> DEFINE s == session
           e == excused
           c == crossed.now
           l == leaked
           next == [s EXCEPT !.project = Pose(project, ids)]
<1>1. /\ SessionOK(s, e, c, l) /\ project = s.project /\ active = ActivePlate(s.project)
  BY Now
<1>2. Edit("place", next) /\ UNCHANGED ghosts
  BY DEF PlaceObjects, EditProject, project
<1>3. next = [s EXCEPT !.project = Pose(s.project, ids)]
  BY <1>1
<1> HIDE DEF s, e, c, l, next
<1>5. Result(s, next, e, c, l)
  BY ONLY <1>1, <1>3, PoseKeeps
<1> QED BY ONLY SceneIInv, <1>2, <1>5, EditStep DEF s, e, c, l

LEMMA UngroupStep ==
  ASSUME SceneIInv, NEW g, Ungroup(g)
  PROVE  SceneIInv'
<1> DEFINE s == session
           e == excused
           c == crossed.now
           l == leaked
           next == [s EXCEPT !.project = UngroupObjects(project, g)]
<1>1. /\ SessionOK(s, e, c, l) /\ project = s.project /\ active = ActivePlate(s.project)
  BY Now
<1>2. Edit("group", next) /\ UNCHANGED ghosts
  BY DEF Ungroup, EditProject, project
<1>3. next = [s EXCEPT !.project = UngroupObjects(s.project, g)]
  BY <1>1
<1> HIDE DEF s, e, c, l, next
<1>5. Result(s, next, e, c, l)
  BY ONLY <1>1, <1>3, UngroupKeeps
<1> QED BY ONLY SceneIInv, <1>2, <1>5, EditStep DEF s, e, c, l

LEMMA NameGroupStep ==
  ASSUME SceneIInv, NEW g, NameGroup(g)
  PROVE  SceneIInv'
<1> DEFINE s == session
           e == excused
           c == crossed.now
           l == leaked
           next == [s EXCEPT !.project = RenameGroup(project, g)]
<1>1. /\ SessionOK(s, e, c, l) /\ project = s.project /\ active = ActivePlate(s.project)
  BY Now
<1>2. Edit("group", next) /\ UNCHANGED ghosts
  BY DEF NameGroup, EditProject, project
<1>3. next = [s EXCEPT !.project = RenameGroup(s.project, g)]
  BY <1>1
<1> HIDE DEF s, e, c, l, next
<1>5. Result(s, next, e, c, l)
  BY ONLY <1>1, <1>3, RenameKeeps
<1> QED BY ONLY SceneIInv, <1>2, <1>5, EditStep DEF s, e, c, l

LEMMA DeleteStep ==
  ASSUME SceneIInv, NEW ids, Delete(ids)
  PROVE  SceneIInv'
<1> DEFINE s == session
           e == excused
           c == crossed.now
           l == leaked
           next == DeleteObjects(s, ids)
<1>1. /\ SessionOK(s, e, c, l) /\ project = s.project /\ active = ActivePlate(s.project)
  BY Now
<1>2. Edit("delete", next) /\ UNCHANGED ghosts
  BY DEF Delete, project
<1>3. next = DeleteObjects(s, ids)
  BY <1>1
<1> HIDE DEF s, e, c, l, next
<1>5. Result(s, next, e, c, l)
  BY ONLY <1>1, <1>3, DeleteKeeps
<1> QED BY ONLY SceneIInv, <1>2, <1>5, EditStep DEF s, e, c, l

LEMMA SetOverrideStep ==
  ASSUME SceneIInv, NEW i \in DOMAIN project.plates, NEW id, NEW key, SetOverride(i, id, key)
  PROVE  SceneIInv'
<1> DEFINE s == session
           e == excused
           c == crossed.now
           l == leaked
           next == [s EXCEPT !.project = ObjectOverrideSet(project, i, id, key)]
<1>1. /\ SessionOK(s, e, c, l) /\ project = s.project /\ active = ActivePlate(s.project)
  BY Now
<1>2. Edit("override", next) /\ UNCHANGED ghosts
  BY DEF SetOverride, EditProject, project
<1>3. next = [s EXCEPT !.project = ObjectOverrideSet(s.project, i, id, key)]
  BY <1>1
<1>4. i \in DOMAIN s.project.plates
  BY <1>1
<1> HIDE DEF s, e, c, l, next
<1>5. Result(s, next, e, c, l)
  BY ONLY <1>1, <1>3, <1>4, OverrideKeeps
<1> QED BY ONLY SceneIInv, <1>2, <1>5, EditStep DEF s, e, c, l

LEMMA ClearOverrideStep ==
  ASSUME SceneIInv, NEW i \in DOMAIN project.plates, NEW id, NEW key, ClearOverride(i, id, key)
  PROVE  SceneIInv'
<1> DEFINE s == session
           e == excused
           c == crossed.now
           l == leaked
           next == [s EXCEPT !.project = ObjectOverrideClear(project, i, id, key)]
<1>1. /\ SessionOK(s, e, c, l) /\ project = s.project /\ active = ActivePlate(s.project)
  BY Now
<1>2. Edit("override", next) /\ UNCHANGED ghosts
  BY DEF ClearOverride, EditProject, project
<1>3. next = [s EXCEPT !.project = ObjectOverrideClear(s.project, i, id, key)]
  BY <1>1
<1>4. i \in DOMAIN s.project.plates
  BY <1>1
<1> HIDE DEF s, e, c, l, next
<1>5. Result(s, next, e, c, l)
  BY ONLY <1>1, <1>3, <1>4, OverrideKeeps
<1> QED BY ONLY SceneIInv, <1>2, <1>5, EditStep DEF s, e, c, l

LEMMA SetMaterialStep ==
  ASSUME SceneIInv, NEW id \in IdsOn(active), NEW mat \in Materials, SetMaterial(id, mat)
  PROVE  SceneIInv'
<1>a. PICK walk \in Walks(active.printer) : Edit("material", [session EXCEPT !.project = SetObjectMaterial(project, id, mat, walk)])
  BY DEF SetMaterial, EditProject, project
<1> DEFINE s == session
           e == excused
           c == crossed.now
           l == leaked
           next == [s EXCEPT !.project = SetObjectMaterial(project, id, mat, walk)]
<1>1. /\ SessionOK(s, e, c, l) /\ project = s.project /\ active = ActivePlate(s.project)
      /\ walk \in Walks(s.project.plates[s.project.active].printer)
  BY <1>a, Now
<1>2. Edit("material", next) /\ UNCHANGED ghosts
  BY <1>a DEF SetMaterial, EditProject, project
<1>3. next = [s EXCEPT !.project = SetObjectMaterial(s.project, id, mat, walk)]
  BY <1>1
<1>4. id \in IdsOn(ActivePlate(s.project)) /\ mat \in Materials /\ walk \in Walks(ActivePlate(s.project).printer)
  BY <1>1
<1> HIDE DEF s, e, c, l, next
<1>5. Result(s, next, e, c, l)
  BY ONLY <1>1, <1>3, <1>4, SetMaterialKeeps
<1> QED BY ONLY SceneIInv, <1>2, <1>5, EditStep DEF s, e, c, l

LEMMA UnbindStep ==
  ASSUME SceneIInv, NEW i \in DOMAIN project.plates, Unbind(i)
  PROVE  SceneIInv'
<1> DEFINE s == session
           e == excused
           c == crossed.now
           l == leaked
           next == Reconcile([s EXCEPT !.project = UnbindPrinter(project, i)])
<1>1. /\ SessionOK(s, e, c, l) /\ project = s.project /\ active = ActivePlate(s.project)
  BY Now
<1>2. Edit("printers", next) /\ UNCHANGED ghosts
  BY DEF Unbind, project
<1>3. next = Reconcile([s EXCEPT !.project = UnbindPrinter(s.project, i)])
  BY <1>1
<1>4. i \in DOMAIN s.project.plates
  BY <1>1
<1> HIDE DEF s, e, c, l, next
<1>5. Result(s, next, e, c, l)
  BY ONLY <1>1, <1>3, <1>4, UnbindKeeps
<1> QED BY ONLY SceneIInv, <1>2, <1>5, EditStep DEF s, e, c, l

LEMMA PrimitiveStep ==
  ASSUME SceneIInv, NEW kind, ~ PrimitivePanics(session, kind), AddPrimitive(kind)
  PROVE  SceneIInv'
<1>a. PICK walk \in Walks(active.printer) : Edit("add", AddFromPrimitive(session, kind, walk))
  BY DEF AddPrimitive, project
<1> DEFINE s == session
           e == excused
           c == crossed.now
           l == leaked
           next == AddFromPrimitive(s, kind, walk)
<1>1. /\ SessionOK(s, e, c, l) /\ project = s.project /\ active = ActivePlate(s.project)
      /\ walk \in Walks(s.project.plates[s.project.active].printer)
  BY <1>a, Now
<1>2. Edit("add", next) /\ UNCHANGED ghosts
  BY <1>a DEF AddPrimitive, project
<1>3. next = AddFromPrimitive(s, kind, walk)
  BY <1>1
<1>4. ~ PrimitivePanics(s, kind) /\ walk \in Walks(ActivePlate(s.project).printer)
  BY <1>1
<1> HIDE DEF s, e, c, l, next
<1>5. Result(s, next, e, c, l)
  BY ONLY <1>1, <1>3, <1>4, PrimitiveKeeps
<1> QED BY ONLY SceneIInv, <1>2, <1>5, EditStep DEF s, e, c, l

LEMMA LeaveStep ==
  ASSUME SceneIInv, NEW family, NEW next, NEW kind \in {"edit", "select", "quiet"}, Enter(family), Leave(next, kind),
         UNCHANGED <<gpu, paint, ghosts>>, Result(session, next, excused, crossed.now, leaked)
  PROVE  SceneIInv'
BY PlainKeeps DEF Enter, Ready

LEMMA CopiedAre ==
  ASSUME NEW s, NEW e, NEW c, NEW l, SessionOK(s, e, c, l), NEW ids, NEW src, src = InOrder(ActivePlate(s.project), ids)
  PROVE  Copyable(s, src)
<1> DEFINE p == s.project
           plate == ActivePlate(p)
<1>1. PlateShape(plate) /\ Resolves(p, plate)
  BY Active
<1>2. src = InOrder(plate, ids)
  OBVIOUS
<1> HIDE DEF p, plate
<1>3. src \in Seq(Objects) /\ \A k \in DOMAIN src : \E j \in DOMAIN plate.objects : src[k] = plate.objects[j]
  BY <1>1, <1>2, InOrderIs
<1>4. \A k \in DOMAIN src : src[k].mesh \in DOMAIN p.meshes
  BY <1>1, <1>3 DEF Resolves
<1> QED BY <1>3, <1>4 DEF Copyable, InPool, p

LEMMA CloneStep ==
  ASSUME SceneIInv, NEW ids, NEW times \in 1..2, CloneObjects(ids, times)
  PROVE  SceneIInv'
<1>a. PICK walk \in Walks(active.printer) : Edit("clone", CloneTimes(session, InOrder(active, Expand(active, ids)), times, walk))
  BY DEF CloneObjects, project
<1> DEFINE s == session
           e == excused
           c == crossed.now
           l == leaked
           src == InOrder(active, Expand(active, ids))
           next == CloneTimes(s, src, times, walk)
<1>1. /\ SessionOK(s, e, c, l) /\ project = s.project /\ active = ActivePlate(s.project)
      /\ walk \in Walks(s.project.plates[s.project.active].printer)
  BY <1>a, Now
<1>2. Edit("clone", next) /\ UNCHANGED ghosts
  BY <1>a DEF CloneObjects, project
<1>3. next = CloneTimes(s, src, times, walk) /\ times \in Nat /\ src = InOrder(ActivePlate(s.project), Expand(active, ids))
  BY <1>1
<1> HIDE DEF s, e, c, l, src, next
<1>4. Copyable(s, src)
  BY ONLY <1>1, <1>3, CopiedAre
<1>6. Result(s, next, e, c, l)
  BY ONLY <1>1, <1>3, <1>4, CloneTimesKeeps
<1> QED BY ONLY SceneIInv, <1>2, <1>6, EditStep DEF s, e, c, l

LEMMA FillStep ==
  ASSUME SceneIInv, NEW ids, NEW kept \in 0..1, FillPlateWith(ids, kept)
  PROVE  SceneIInv'
<1>a. PICK walk \in Walks(active.printer) :
         Leave(FillPlate(session, InOrder(active, Expand(active, ids)), kept, walk),
               IF kept = 0 THEN "quiet" ELSE "edit")
  BY DEF FillPlateWith, project
<1> DEFINE s == session
           e == excused
           c == crossed.now
           l == leaked
           src == InOrder(active, Expand(active, ids))
           kind == IF kept = 0 THEN "quiet" ELSE "edit"
           next == FillPlate(s, src, kept, walk)
<1>1. /\ SessionOK(s, e, c, l) /\ project = s.project /\ active = ActivePlate(s.project)
      /\ walk \in Walks(s.project.plates[s.project.active].printer)
  BY <1>a, Now
<1>2. Enter("clone") /\ Leave(next, kind) /\ UNCHANGED <<gpu, paint, ghosts>> /\ kind \in {"edit", "select", "quiet"}
  BY <1>a DEF FillPlateWith, project
<1>3. next = FillPlate(s, src, kept, walk) /\ kept \in Nat /\ src = InOrder(ActivePlate(s.project), Expand(active, ids))
  BY <1>1
<1> HIDE DEF s, e, c, l, src, next, kind
<1>4. Copyable(s, src)
  BY ONLY <1>1, <1>3, CopiedAre
<1>6. Result(s, next, e, c, l)
  BY ONLY <1>1, <1>3, <1>4, FillKeeps
<1> QED BY ONLY SceneIInv, <1>2, <1>6, LeaveStep DEF s, e, c, l

LEMMA GroupStep ==
  ASSUME SceneIInv, NEW ids, NEW unknown \in BOOLEAN, Group(ids, unknown)
  PROVE  SceneIInv'
<1> DEFINE s == session
           e == excused
           c == crossed.now
           l == leaked
           kind == IF unknown THEN "quiet" ELSE "edit"
           next == GroupObjects(s, ids, unknown)
<1>1. /\ SessionOK(s, e, c, l) /\ project = s.project /\ active = ActivePlate(s.project)
  BY Now
<1>2. Enter("group") /\ Leave(next, kind) /\ UNCHANGED <<gpu, paint, ghosts>> /\ kind \in {"edit", "select", "quiet"}
  BY DEF Group, project
<1>3. next = GroupObjects(s, ids, unknown)
  OBVIOUS
<1> HIDE DEF s, e, c, l, next, kind
<1>6. Result(s, next, e, c, l)
  BY ONLY <1>1, <1>3, GroupKeeps
<1> QED BY ONLY SceneIInv, <1>2, <1>6, LeaveStep DEF s, e, c, l

LEMMA SelectStep ==
  ASSUME SceneIInv, NEW ids, NEW mode \in {"replace", "add", "toggle"}, SelectObjects(ids, mode)
  PROVE  SceneIInv'
<1> DEFINE s == session
           e == excused
           c == crossed.now
           l == leaked
           next == Select(s, ids, mode)
<1>1. /\ SessionOK(s, e, c, l) /\ project = s.project /\ active = ActivePlate(s.project)
  BY Now
<1>2. Enter("select") /\ Leave(next, "select") /\ UNCHANGED <<gpu, paint, ghosts>> /\ "select" \in {"edit", "select", "quiet"}
  BY DEF SelectObjects, project
<1>3. next = Select(s, ids, mode)
  OBVIOUS
<1> HIDE DEF s, e, c, l, next
<1>6. Result(s, next, e, c, l)
  BY ONLY <1>1, <1>3, mode \in {"replace", "add", "toggle"}, SelectKeeps
<1> QED BY ONLY SceneIInv, <1>2, <1>6, LeaveStep DEF s, e, c, l

LEMMA ActivateStep ==
  ASSUME SceneIInv, NEW i \in DOMAIN project.plates, Activate(i)
  PROVE  SceneIInv'
<1> DEFINE s == session
           e == excused
           c == crossed.now
           l == leaked
           next == [s EXCEPT !.project.active = i]
<1>1. /\ SessionOK(s, e, c, l) /\ project = s.project /\ active = ActivePlate(s.project)
  BY Now
<1>2. Enter("plates") /\ Leave(next, "quiet") /\ UNCHANGED <<gpu, paint, ghosts>> /\ "quiet" \in {"edit", "select", "quiet"}
  BY DEF Activate, project
<1>3. next = [s EXCEPT !.project.active = i] /\ i \in DOMAIN s.project.plates
  BY <1>1
<1> HIDE DEF s, e, c, l, next
<1>6. Result(s, next, e, c, l)
  BY ONLY <1>1, <1>3, ActivateKeeps
<1> QED BY ONLY SceneIInv, <1>2, <1>6, LeaveStep DEF s, e, c, l

LEMMA CreatePlateStep ==
  ASSUME SceneIInv, NEW default \in Instances \cup {Unbound}, CreatePlate(default)
  PROVE  SceneIInv'
<1> DEFINE s == session
           e == excused
           c == crossed.now
           l == leaked
           given == IF active.printer = Unbound THEN default ELSE Unbound
           q == AddPlate(project, given)
           kind == IF q.plates[Len(q.plates)].printer = Unbound THEN "quiet" ELSE "edit"
           next == Reconcile([s EXCEPT !.project = q])
<1>1. /\ SessionOK(s, e, c, l) /\ project = s.project /\ active = ActivePlate(s.project)
  BY Now
<1>2. Enter("plates") /\ Leave(next, kind) /\ UNCHANGED <<gpu, paint, ghosts>> /\ kind \in {"edit", "select", "quiet"}
  BY DEF CreatePlate, project
<1>3. next = Reconcile([s EXCEPT !.project = q]) /\ q = AddPlate(s.project, given) /\ given \in Instances \cup {Unbound}
  BY <1>1
<1> HIDE DEF s, e, c, l, next, given, q, kind
<1>6. Result(s, next, e, c, l)
  BY ONLY <1>1, <1>3, AddPlateKeeps
<1> QED BY ONLY SceneIInv, <1>2, <1>6, LeaveStep DEF s, e, c, l

LEMMA PinSlotStep ==
  ASSUME SceneIInv, NEW i \in DOMAIN project.plates, NEW mat \in Materials, NEW slot, PinSlot(i, mat, slot)
  PROVE  SceneIInv'
<1> DEFINE s == session
           e == excused
           c == crossed.now
           l == leaked
           next == [s EXCEPT !.project = SetSlot(project, i, mat, slot)]
           x == {<<project.plates[i].id, mat>>}
<1>0. crossed.now \subseteq crossed.ever /\ DOMAIN crossed = {"now", "ever"}
  BY DEF SceneIInv, GhostsOK
<1>1. /\ SessionOK(s, e, c, l) /\ project = s.project /\ active = ActivePlate(s.project)
  BY Now
<1>2. /\ Edit("material", next) /\ excused' = excused \cup x /\ UNCHANGED <<epoch, restored, crossed, leaked>>
      /\ SlotExists(project.plates[i], slot)
  BY DEF PinSlot, EditProject
<1>3. next = [s EXCEPT !.project = SetSlot(s.project, i, mat, slot)]
      /\ x = {<<s.project.plates[i].id, mat>>} /\ i \in DOMAIN s.project.plates /\ mat \in Materials /\ SlotExists(s.project.plates[i], slot)
  BY <1>1, <1>2
<1>4. Remembers /\ excused' = e \cup x /\ crossed'.now = c /\ leaked' = l
  BY <1>0, <1>2 DEF Remembers
<1> HIDE DEF s, e, c, l, next, x
<1>5. Result(s, next, e \cup x, c, l)
  BY ONLY <1>1, <1>3, PinKeeps
<1>6. Result(session, next, excused', crossed'.now, leaked')
  BY <1>4, <1>5 DEF s
<1> QED BY ONLY SceneIInv, <1>2, <1>4, <1>6, GhostEditStep

LEMMA ClearSlotStep ==
  ASSUME SceneIInv, NEW i \in DOMAIN project.plates, NEW mat, ClearSlot(i, mat)
  PROVE  SceneIInv'
<1> DEFINE s == session
           e == excused
           c == crossed.now
           l == leaked
           next == [s EXCEPT !.project = EditPlate(project, i,
                       [project.plates[i] EXCEPT !.slots = Without(@, {mat})])]
           x == {<<project.plates[i].id, mat>>}
<1>0. crossed.now \subseteq crossed.ever /\ DOMAIN crossed = {"now", "ever"}
  BY DEF SceneIInv, GhostsOK
<1>1. /\ SessionOK(s, e, c, l) /\ project = s.project /\ active = ActivePlate(s.project)
  BY Now
<1>2. /\ Edit("material", next) /\ excused' = excused \cup x /\ UNCHANGED <<epoch, restored, crossed, leaked>>
      /\ i \in DOMAIN project.plates
  BY DEF ClearSlot, EditProject
<1>3. next = [s EXCEPT !.project = EditPlate(s.project, i,
                       [s.project.plates[i] EXCEPT !.slots = Without(@, {mat})])]
      /\ x = {<<s.project.plates[i].id, mat>>} /\ i \in DOMAIN s.project.plates
  BY <1>1, <1>2
<1>4. Remembers /\ excused' = e \cup x /\ crossed'.now = c /\ leaked' = l
  BY <1>0, <1>2 DEF Remembers
<1> HIDE DEF s, e, c, l, next, x
<1>5. Result(s, next, e \cup x, c, l)
  BY ONLY <1>1, <1>3, ClearKeeps
<1>6. Result(session, next, excused', crossed'.now, leaked')
  BY <1>4, <1>5 DEF s
<1> QED BY ONLY SceneIInv, <1>2, <1>4, <1>6, GhostEditStep

LEMMA RebindStep ==
  ASSUME SceneIInv, NEW i \in DOMAIN project.plates, NEW to \in Instances, Rebind(i, to)
  PROVE  SceneIInv'
<1>a. PICK walk \in Walks(to) : Edit("printers", Reconcile([session EXCEPT !.project = RebindPrinter(project, i, to, walk)]))
  BY DEF Rebind, project
<1> DEFINE s == session
           e == excused
           c == crossed.now
           l == leaked
           next == Reconcile([s EXCEPT !.project = RebindPrinter(project, i, to, walk)])
           id == project.plates[i].id
<1>0. crossed.now \subseteq crossed.ever /\ DOMAIN crossed = {"now", "ever"}
  BY DEF SceneIInv, GhostsOK
<1>1. /\ SessionOK(s, e, c, l) /\ project = s.project /\ active = ActivePlate(s.project)
  BY Now
<1>2. /\ Edit("printers", next) /\ crossed' = [crossed EXCEPT !.now = @ \ {id}] /\ UNCHANGED <<epoch, restored, excused, leaked>>
  BY <1>a DEF Rebind, project
<1>3. next = Reconcile([s EXCEPT !.project = RebindPrinter(s.project, i, to, walk)]) /\ id = s.project.plates[i].id
      /\ i \in DOMAIN s.project.plates /\ to \in Instances /\ walk \in Walks(to)
  BY <1>1
<1>4. Remembers /\ excused' = e /\ crossed'.now = c \ {id} /\ leaked' = l
  BY <1>0, <1>2 DEF Remembers
<1> HIDE DEF s, e, c, l, next, id
<1>5. Result(s, next, e, c \ {id}, l)
  BY ONLY <1>1, <1>3, RebindKeeps
<1>6. Result(session, next, excused', crossed'.now, leaked')
  BY <1>4, <1>5 DEF s
<1> QED BY ONLY SceneIInv, <1>2, <1>4, <1>6, GhostEditStep

LEMMA ClosePlateStep ==
  ASSUME SceneIInv, NEW i \in DOMAIN project.plates, ClosePlate(i)
  PROVE  SceneIInv'
<1> DEFINE s == session
           e == excused
           c == crossed.now
           l == leaked
           next == Reconcile([s EXCEPT !.project = RemovePlate(project, i)])
           closed == project.plates[i]
           l2 == leaked'
<1>0. crossed.now \subseteq crossed.ever /\ DOMAIN crossed = {"now", "ever"}
  BY DEF SceneIInv, GhostsOK
<1>1. /\ SessionOK(s, e, c, l) /\ project = s.project /\ active = ActivePlate(s.project)
  BY Now
<1>2. /\ Len(project.plates) > 1 /\ main.pc = "idle" /\ Leave(next, "quiet")
      /\ leaked' = leaked \cup {o.mesh : o \in ObjectsOn(closed)} \cup UNION {closed.mods[x] : x \in DOMAIN closed.mods}
      /\ UNCHANGED <<gpu, paint, epoch, restored, excused, crossed>>
  BY DEF ClosePlate, Enter, Ready, project
<1>3. next = Reconcile([s EXCEPT !.project = RemovePlate(s.project, i)]) /\ i \in DOMAIN s.project.plates
      /\ Len(s.project.plates) > 1 /\ closed = s.project.plates[i]
  BY <1>1, <1>2
<1>4. Names(closed) \subseteq l2
  <2> HIDE DEF closed
  <2>1. \A o : o \in ObjectsOn(closed) <=> \E k \in DOMAIN closed.objects : o = closed.objects[k]
    BY OnPlate
  <2>2. \A k \in DOMAIN closed.objects : closed.objects[k].mesh \in leaked'
    BY <1>2, <2>1
  <2>3. \A x \in DOMAIN closed.mods : closed.mods[x] \subseteq leaked'
    BY <1>2
  <2>4. \A m : m \in Names(closed) <=> \/ \E k \in DOMAIN closed.objects : m = closed.objects[k].mesh
                                       \/ \E x \in DOMAIN closed.mods : m \in closed.mods[x]
    BY NamesIs
  <2> QED BY <2>2, <2>3, <2>4
<1>5. Around("quiet") /\ l \subseteq l2 /\ excused' = e /\ crossed'.now = c /\ leaked' = l2
  BY <1>0, <1>2 DEF Around, Remembers
<1>6. Names(s.project.plates[i]) \subseteq l2
  BY <1>3, <1>4
<1> HIDE DEF s, e, c, l, next, closed, l2
<1>7. Result(s, next, e, c, l2)
  BY ONLY <1>1, <1>3, <1>5, <1>6, RemovePlateKeeps
<1>8. Result(session, next, excused', crossed'.now, leaked')
  BY <1>5, <1>7 DEF s
<1> QED BY ONLY SceneIInv, <1>2, <1>5, <1>8, LeaveKeeps

LEMMA PaintedIs ==
  ASSUME NEW p, NEW plate, NEW gone, NEW painted,
         painted = UNION {PaintOf(p, o.mesh) : o \in {q \in ObjectsOn(plate) : q.id \in gone}}
  PROVE  \A o \in Taken(plate, gone) : PaintOf(p, o.mesh) \subseteq painted
BY DEF Taken

LEMMA MoveStep ==
  ASSUME SceneIInv, NEW i \in DOMAIN project.plates, NEW j \in DOMAIN project.plates, NEW ids, Move(i, j, ids)
  PROVE  SceneIInv'
<1>a. PICK walk \in Walks(project.plates[j].printer) : Edit("move", MoveObjects(session, i, j, ids, walk))
  BY DEF Move
<1> DEFINE s == session
           e == excused
           c == crossed.now
           l == leaked
           src == project.plates[i]
           dst == project.plates[j]
           gone == Expand(src, ids)
           painted == UNION {PaintOf(project, o.mesh) : o \in {q \in ObjectsOn(src) : q.id \in gone}}
           next == MoveObjects(s, i, j, ids, walk)
           e2 == excused'
           c2 == crossed'.now
<1>0. crossed.now \subseteq crossed.ever /\ DOMAIN crossed = {"now", "ever"}
  BY DEF SceneIInv, GhostsOK
<1>1. SessionOK(s, e, c, l) /\ project = s.project
  BY Now
<1>2. /\ i # j /\ Edit("move", next) /\ excused' = excused \cup ({src.id, dst.id} \X painted)
      /\ crossed' = IF src.printer = dst.printer /\ src.id \notin crossed.now THEN crossed ELSE Crossing(dst.id)
      /\ UNCHANGED <<epoch, restored, leaked>>
  BY <1>a DEF Move
<1>3. /\ next = MoveObjects(s, i, j, ids, walk)
      /\ i \in DOMAIN s.project.plates /\ j \in DOMAIN s.project.plates
      /\ src = s.project.plates[i] /\ dst = s.project.plates[j]
  BY <1>1
<1>4. Crossing(dst.id).now = crossed.now \cup {dst.id} /\ Crossing(dst.id).ever = crossed.ever \cup {dst.id}
      /\ DOMAIN Crossing(dst.id) = {"now", "ever"}
  BY DEF Crossing
<1>5. Remembers /\ e \subseteq e2 /\ c \subseteq c2 /\ leaked' = l
  BY <1>0, <1>2, <1>4 DEF Remembers
<1>6. Carried(src, dst, c, c2)
  BY <1>2, <1>4 DEF Carried
<1>7. MoveExcused(s.project, src, dst, gone, e2)
  <2>1. \A o \in Taken(src, gone) : PaintOf(project, o.mesh) \subseteq painted
    BY PaintedIs
  <2> HIDE DEF painted
  <2> QED BY <1>1, <1>2, <2>1 DEF MoveExcused
<1>8. i # j /\ gone = Expand(src, ids)
  BY <1>2
<1>9. MoveExcused(s.project, s.project.plates[i], s.project.plates[j], Expand(s.project.plates[i], ids), e2)
  BY <1>3, <1>7, <1>8
<1>10. Carried(s.project.plates[i], s.project.plates[j], c, c2)
  BY <1>3, <1>6
<1>11. walk \in Walks(s.project.plates[j].printer) /\ next = MoveObjects(s, i, j, ids, walk)
  BY <1>1, <1>a
<1> HIDE DEF s, e, c, l, next, src, dst, gone, painted, e2, c2
<1>12. Result(s, next, e2, c2, l)
  BY ONLY <1>1, <1>3, <1>5, <1>8, <1>9, <1>10, <1>11, MoveKeeps
<1>13. Result(session, next, excused', crossed'.now, leaked')
  BY <1>5, <1>12 DEF s, e2, c2
<1> QED BY ONLY SceneIInv, <1>2, <1>5, <1>13, GhostEditStep

LEMMA ArrangeStep ==
  ASSUME SceneIInv, NEW spilled, spilled \subseteq Units(active), AutoArrange(spilled)
  PROVE  SceneIInv'
<1>a. PICK walk \in Walks(active.printer) : Edit("arrange", ApplyArrangement(session, spilled, walk))
  BY DEF AutoArrange
<1> DEFINE s == session
           e == excused
           c == crossed.now
           l == leaked
           plate == active
           U == UNION spilled
           new == NextPlateId(project)
           painted == UNION {PaintOf(project, o.mesh) : o \in {q \in ObjectsOn(plate) : q.id \in U}}
           next == ApplyArrangement(s, spilled, walk)
           e2 == excused'
           c2 == crossed'.now
<1>0. crossed.now \subseteq crossed.ever /\ DOMAIN crossed = {"now", "ever"}
  BY DEF SceneIInv, GhostsOK
<1>1. SessionOK(s, e, c, l) /\ project = s.project /\ plate = ActivePlate(s.project)
  BY Now
<1>2. /\ Edit("arrange", next) /\ excused' = excused \cup ({plate.id, new} \X painted)
      /\ crossed' = IF spilled # {} /\ plate.id \in crossed.now THEN Crossing(new) ELSE crossed
      /\ UNCHANGED <<epoch, restored, leaked>>
  BY <1>a DEF AutoArrange
<1>3. next = ApplyArrangement(s, spilled, walk) /\ spilled \subseteq Units(plate) /\ U = UNION spilled /\ new = NextPlateId(s.project)
      /\ walk \in Walks(plate.printer)
  BY <1>1, <1>a
<1>4. Crossing(new).now = crossed.now \cup {new} /\ Crossing(new).ever = crossed.ever \cup {new}
      /\ DOMAIN Crossing(new) = {"now", "ever"}
  BY DEF Crossing
<1>5. Remembers /\ e \subseteq e2 /\ c \subseteq c2 /\ leaked' = l
  BY <1>0, <1>2, <1>4 DEF Remembers
<1>6. SpillExcused(s.project, plate, U, e2)
  <2>1. \A o \in Taken(plate, U) : PaintOf(project, o.mesh) \subseteq painted
    BY PaintedIs
  <2>2. new = NextPlateId(s.project) /\ project = s.project
    BY <1>1
  <2> HIDE DEF painted, new
  <2> QED BY <1>2, <2>1, <2>2 DEF SpillExcused
<1>7. spilled # {} /\ plate.id \in c => NextPlateId(s.project) \in c2
  BY <1>1, <1>2, <1>4
<1> HIDE DEF s, e, c, l, next, plate, U, new, painted, e2, c2
<1>8. Result(s, next, e2, c2, l)
  BY ONLY <1>1, <1>3, <1>5, <1>6, <1>7, ArrangeKeeps
<1>9. Result(session, next, excused', crossed'.now, leaked')
  BY <1>5, <1>8 DEF s, e2, c2
<1> QED BY ONLY SceneIInv, <1>2, <1>5, <1>9, GhostEditStep

(* Applying a rotation that was computed without the lock. *)
LEMMA OrientApplyStep ==
  ASSUME SceneIInv, AutoOrientApply
  PROVE  SceneIInv'
<1> DEFINE s == session
           e == excused
           c == crossed.now
           l == leaked
           ids == main.ids
<1>1. SessionOK(s, e, c, l) /\ project = s.project
  BY Now
<1>2. main.pc = "orienting" /\ UNCHANGED <<gpu, paint, ghosts>>
  BY DEF AutoOrientApply
<1>3. CASE ids \subseteq IdsOn(active)
  <2> DEFINE next == [s EXCEPT !.project = Pose(s.project, ids)]
  <2>1. Leave(next, "edit") /\ "edit" \in {"edit", "select", "quiet"}
    BY <1>3 DEF AutoOrientApply
  <2>2. next = [s EXCEPT !.project = Pose(s.project, ids)]
    OBVIOUS
  <2> HIDE DEF s, e, c, l, ids, next
  <2>3. Result(s, next, e, c, l)
    BY ONLY <1>1, <2>2, PoseKeeps
  <2>4. Result(session, next, excused, crossed.now, leaked)
    BY <2>3 DEF s, e, c, l
  <2> QED BY <1>2, <2>1, <2>4, PlainKeeps
<1>4. CASE ~ (ids \subseteq IdsOn(active))
  <2>1. Leave(s, "quiet") /\ "quiet" \in {"edit", "select", "quiet"}
    BY <1>4 DEF AutoOrientApply
  <2> HIDE DEF s, e, c, l, ids
  <2>2. Result(s, s, e, c, l)
    BY ONLY <1>1, ResultSelf
  <2>3. Result(session, s, excused, crossed.now, leaked)
    BY <2>2 DEF s, e, c, l
  <2> QED BY <1>2, <2>1, <2>3, PlainKeeps
<1> QED BY <1>3, <1>4

LEMMA PaintStrokeStep ==
  ASSUME SceneIInv, NEW painted, PaintStroke(painted)
  PROVE  SceneIInv'
<1> DEFINE s == session
           e == excused
           c == crossed.now
           l == leaked
           m == paint.mesh
<1>1. SessionOK(s, e, c, l) /\ project = s.project
  BY Now
<1>2. Enter("paint") /\ UNCHANGED <<gpu, paint, ghosts>> /\ "quiet" \in {"edit", "select", "quiet"}
  BY DEF PaintStroke
<1>3. CASE m \in DOMAIN project.meshes
  <2> DEFINE next == [s EXCEPT !.project.meshes[m].sup = painted]
  <2>1. Leave(next, "quiet")
    BY <1>3 DEF PaintStroke
  <2>2. next = [s EXCEPT !.project.meshes[m].sup = painted] /\ m \in DOMAIN s.project.meshes
    BY <1>1, <1>3
  <2> HIDE DEF s, e, c, l, m, next
  <2>3. Result(s, next, e, c, l)
    BY ONLY <1>1, <2>2, StrokeKeeps
  <2>4. Result(session, next, excused, crossed.now, leaked)
    BY <2>3 DEF s, e, c, l
  <2> QED BY <1>2, <2>1, <2>4, LeaveStep
<1>4. CASE m \notin DOMAIN project.meshes
  <2>1. Leave(s, "quiet")
    BY <1>4 DEF PaintStroke
  <2> HIDE DEF s, e, c, l, m
  <2>2. Result(s, s, e, c, l)
    BY ONLY <1>1, ResultSelf
  <2>3. Result(session, s, excused, crossed.now, leaked)
    BY <2>2 DEF s, e, c, l
  <2> QED BY <1>2, <2>1, <2>3, LeaveStep
<1> QED BY <1>3, <1>4

LEMMA PaintCloseStep ==
  ASSUME SceneIInv, PaintClose
  PROVE  SceneIInv'
<1> DEFINE s == session
           e == excused
           c == crossed.now
           l == leaked
           kind == IF paint.object \in IdsOn(active) THEN "edit" ELSE "quiet"
<1>1. SessionOK(s, e, c, l)
  BY Now
<1>2. main.pc = "idle" /\ Leave(s, kind) /\ paint' = NoPaint /\ UNCHANGED <<gpu, ghosts>> /\ kind \in {"edit", "select", "quiet"}
  BY DEF PaintClose
<1>3. Remembers
  BY <1>2 DEF Remembers, SceneIInv, GhostsOK, ghosts
<1>4. Around(kind)
  BY <1>2, <1>3 DEF Around, ghosts
<1> HIDE DEF s, e, c, l, kind
<1>5. Result(s, s, e, c, l)
  BY ONLY <1>1, ResultSelf
<1>6. Result(session, s, excused', crossed'.now, leaked')
  BY <1>2, <1>5 DEF s, e, c, l, ghosts
<1> QED BY <1>2, <1>4, <1>6, LeaveKeeps

(* With the history and the session as they were, the threads may move on. *)
LEMMA ThreadsMove ==
  ASSUME SceneIInv, Same, UNCHANGED <<gpu, paint, snapshots, cursor, recent, overtaken>>,
         MainOK', CutOK', Loading' <=> Loading,
         main'.pc \in {"idle", "orienting"} /\ ~ CutRecording' => main.pc \in {"idle", "orienting"} /\ ~ CutRecording
  PROVE  SceneIInv'
<1>1. /\ SessionOK(session', excused', crossed'.now, leaked') /\ GhostsOK' /\ PaintOK'
      /\ ~ restored' => ~ poisoned' /\ CacheOK(session)' /\ GpuOK'
      /\ \A snap : Whole(snap) <=> SnapOK(snap, excused', crossed'.ever, leaked', session'.fresh)
      /\ Capture(session)' = Capture(session)
  <2>1. overtaken' \in BOOLEAN
    BY DEF SceneIInv, GhostsOK
  <2> QED BY <2>1, SameIs
<1>2. StackOK'
  <2>1. StackOK
    BY DEF SceneIInv
  <2>2. HistoryOK'
    BY <2>1 DEF StackOK, HistoryOK
  <2>3. ~ Loading' => \A k \in DOMAIN snapshots' : Whole(snapshots'[k])
    BY <2>1 DEF StackOK
  <2>4. main'.pc \in {"idle", "orienting"} /\ ~ CutRecording' /\ ~ overtaken' => snapshots'[cursor'] = Capture(session)'
    BY <1>1, <2>1 DEF StackOK
  <2> QED BY <1>1, <2>2, <2>3, <2>4 DEF StackOK, Whole
<1> QED BY <1>1, <1>2 DEF SceneIInv

LEMMA MainStays ==
  ASSUME SceneIInv, Same, UNCHANGED <<main, paint, snapshots, cursor>>, CutRecording' => CutRecording
  PROVE  MainOK' /\ (Loading' <=> Loading)
<1>1. (\A snap : Whole(snap) <=> SnapOK(snap, excused', crossed'.ever, leaked', session'.fresh))
      /\ Capture(session)' = Capture(session)
  BY SameIs
<1>2. MainOK
  BY DEF SceneIInv
<1> QED BY <1>1, <1>2 DEF MainOK, Whole, Loading

LEMMA CutStays ==
  ASSUME SceneIInv, Same, cut' = cut
  PROVE  CutOK' /\ CutRecording' = CutRecording
<1>1. (\A snap : Whole(snap) <=> SnapOK(snap, excused', crossed'.ever, leaked', session'.fresh))
      /\ Capture(session)' = Capture(session)
  BY SameIs
<1>2. CutOK
  BY DEF SceneIInv
<1> QED BY <1>1, <1>2 DEF CutOK, Whole, CutRecording

LEMMA OrientReadStep ==
  ASSUME SceneIInv, NEW ids, AutoOrientRead(ids)
  PROVE  SceneIInv'
<1>1. /\ Same /\ UNCHANGED <<cut, gpu, paint, snapshots, cursor, recent, overtaken>>
      /\ main.pc = "idle" /\ main'.pc = "orienting"
  BY DEF AutoOrientRead, Enter, Ready, Same, ghosts, historyVars
<1>2. MainOK' /\ (Loading' <=> Loading)
  BY <1>1 DEF MainOK, Loading
<1> QED BY <1>1, <1>2, CutStays, ThreadsMove

LEMMA CutReadStep ==
  ASSUME SceneIInv, NEW ids, NEW connector, NEW kept, CutRead(ids, connector, kept)
  PROVE  SceneIInv'
<1>1. /\ Same /\ UNCHANGED <<main, gpu, paint, snapshots, cursor, recent, overtaken>>
      /\ cut.pc = "idle" /\ cut'.pc = "read" /\ "pc" \in DOMAIN cut'
      /\ cut'.targets = CutTargets(project, Expand(active, ids))
  BY DEF CutRead, Same, ghosts, historyVars
<1>2. CutRecording' = CutRecording
  BY <1>1 DEF CutRecording
<1>3. TargetsOK(cut'.targets)
  <2> DEFINE p == project
             plate == ActivePlate(p)
             ex == Expand(active, ids)
             src == InOrder(plate, ex)
             targets == CutTargets(p, ex)
             pegs(o) == IF o.id \in DOMAIN plate.mods THEN Cardinality(plate.mods[o.id]) ELSE 0
  <2>1. DocumentShape(p) /\ PlateShape(plate) /\ Resolves(p, plate) /\ src = InOrder(plate, ex)
    <3> DEFINE s == session
    <3>1. SessionOK(s, excused, crossed.now, leaked) /\ p = s.project
      BY Now
    <3> HIDE DEF s, p
    <3>2. DocumentShape(s.project) /\ PlateShape(ActivePlate(s.project)) /\ Resolves(s.project, ActivePlate(s.project))
      BY <3>1, Active
    <3> QED BY <3>1, <3>2 DEF p
  <2>2. /\ DOMAIN targets = DOMAIN src
        /\ \A k \in DOMAIN src : /\ targets[k].paint = PaintOf(p, src[k].mesh) /\ targets[k].mat = src[k].mat
                                 /\ targets[k].pose = src[k].pose /\ targets[k].group = src[k].group
                                 /\ targets[k].pegs = pegs(src[k])
    BY DEF CutTargets
  <2>3. targets = [k \in DOMAIN src |-> targets[k]]
    BY DEF CutTargets
  <2>4. cut'.targets = targets
    BY <1>1
  <2> HIDE DEF p, plate, ex, src, targets
  <2>5. src \in Seq(Objects) /\ \A k \in DOMAIN src : \E j \in DOMAIN plate.objects : src[k] = plate.objects[j]
    BY <2>1, InOrderIs
  <2>6. \A k \in DOMAIN src : src[k] \in Objects
    BY <2>5
  <2>7. ASSUME NEW k \in DOMAIN src PROVE PaintOf(p, src[k].mesh) \subseteq Materials
    BY <2>1, <2>5 DEF PaintOf, DocumentShape, Resolves
  <2>8. ASSUME NEW k \in DOMAIN src PROVE pegs(src[k]) \in Nat
    <3>1. CASE src[k].id \in DOMAIN plate.mods
      <4> DEFINE V == plate.mods[src[k].id]
      <4>1. V \subseteq 1..p.lastMesh /\ p.lastMesh \in Nat
        BY <2>1, <3>1 DEF Resolves, DocumentShape
      <4> HIDE DEF V
      <4>2. IsFiniteSet(V)
        <5>1. IsFiniteSet(1..p.lastMesh)
          BY <4>1, FS_Interval
        <5> QED BY <4>1, <5>1, FS_Subset
      <4>3. Cardinality(V) \in Nat
        BY <4>2, FS_CardinalityType
      <4> QED BY <3>1, <4>3 DEF V
    <3>2. CASE src[k].id \notin DOMAIN plate.mods
      BY <3>2
    <3> QED BY <3>1, <3>2
  <2> HIDE DEF pegs
  <2>9. \A k \in DOMAIN src : TargetOK(targets[k])
    BY <2>2, <2>6, <2>7, <2>8 DEF TargetOK, Objects
  <2>10. Len(targets) \in Nat /\ DOMAIN targets = 1..Len(targets)
    <3>1. Len(src) \in Nat /\ DOMAIN src = 1..Len(src)
      BY <2>5
    <3>2. targets \in Seq({targets[k] : k \in DOMAIN src})
      BY <2>3, <3>1
    <3> QED BY <3>2
  <2> QED BY <2>2, <2>4, <2>9, <2>10 DEF TargetsOK
<1>4. CutOK'
  BY <1>1, <1>3 DEF CutOK
<1>5. MainOK' /\ (Loading' <=> Loading)
  BY <1>1, <1>2, MainStays
<1> QED BY <1>1, <1>2, <1>4, <1>5, ThreadsMove

LEMMA CutFailsStep ==
  ASSUME SceneIInv, CutFails
  PROVE  SceneIInv'
<1>1. /\ Same /\ UNCHANGED <<main, gpu, paint, snapshots, cursor, recent, overtaken>>
      /\ cut.pc = "read" /\ cut' = Idle
  BY DEF CutFails, Same, ghosts, historyVars
<1>2. CutRecording' = CutRecording /\ CutOK'
  BY <1>1 DEF CutRecording, CutOK, Idle
<1>3. MainOK' /\ (Loading' <=> Loading)
  BY <1>1, <1>2, MainStays
<1> QED BY <1>1, <1>2, <1>3, ThreadsMove

LEMMA CutCaptureStep ==
  ASSUME SceneIInv, CutCapture
  PROVE  SceneIInv'
<1>1. /\ Same /\ UNCHANGED <<main, gpu, paint, snapshots, cursor, recent, overtaken>> /\ cut.pc = "emitted"
      /\ cut' = [pc |-> "captured", snap |-> Capture(session), alone |-> main.pc = "idle"]
  BY DEF CutCapture, Same, ghosts, historyVars
<1>2. (\A snap : Whole(snap) <=> SnapOK(snap, excused', crossed'.ever, leaked', session'.fresh))
      /\ Capture(session)' = Capture(session)
  BY <1>1, SameIs
<1>3. Whole(Capture(session))
  BY CapturedIsWhole
<1>4. CutRecording' = CutRecording
  BY <1>1 DEF CutRecording
<1>5. CutOK'
  BY <1>1, <1>2, <1>3 DEF CutOK, Whole
<1>6. MainOK' /\ (Loading' <=> Loading)
  BY <1>1, <1>4, MainStays
<1> QED BY <1>1, <1>4, <1>5, <1>6, ThreadsMove

LEMMA TickStep ==
  ASSUME SceneIInv, Tick
  PROVE  SceneIInv'
<1>1. /\ Same /\ UNCHANGED <<main, cut, gpu, paint, overtaken, snapshots, cursor>> /\ recent' = FALSE
  BY DEF Tick, Lapse, Same, ghosts
<1>2. CutOK' /\ CutRecording' = CutRecording
  BY <1>1, CutStays
<1>3. MainOK' /\ (Loading' <=> Loading)
  BY <1>1, <1>2, MainStays
<1>4. /\ SessionOK(session', excused', crossed'.now, leaked') /\ GhostsOK' /\ PaintOK'
      /\ ~ restored' => ~ poisoned' /\ CacheOK(session)' /\ GpuOK'
      /\ \A snap : Whole(snap) <=> SnapOK(snap, excused', crossed'.ever, leaked', session'.fresh)
      /\ Capture(session)' = Capture(session)
  <2>1. overtaken' \in BOOLEAN
    BY <1>1 DEF SceneIInv, GhostsOK
  <2> QED BY <1>1, <2>1, SameIs
<1>5. StackOK'
  <2>1. StackOK
    BY DEF SceneIInv
  <2>2. HistoryOK'
    BY <1>1, <2>1 DEF StackOK, HistoryOK
  <2> QED BY <1>1, <1>2, <1>3, <1>4, <2>1, <2>2 DEF StackOK, Whole
<1> QED BY <1>2, <1>3, <1>4, <1>5 DEF SceneIInv

LEMMA StutterStep ==
  ASSUME SceneIInv, UNCHANGED vars
  PROVE  SceneIInv'
<1>1. Same /\ UNCHANGED <<main, cut, gpu, paint, overtaken, snapshots, cursor, recent>>
  BY DEF vars, Same, ghosts, historyVars
<1>2. CutOK' /\ CutRecording' = CutRecording
  BY <1>1, CutStays
<1>3. MainOK' /\ (Loading' <=> Loading)
  BY <1>1, <1>2, MainStays
<1> QED BY <1>1, <1>2, <1>3, ThreadsMove

(* The session changed under a record in the making. *)
LEMMA CutOvertaken ==
  ASSUME SceneIInv, cut' = Overtake(cut),
         cut.pc = "captured" => \A snap : Whole(snap) => SnapOK(snap, excused', crossed'.ever, leaked', session'.fresh)
  PROVE  CutOK' /\ cut'.pc = cut.pc /\ CutRecording' = CutRecording
<1>1. CutOK
  BY DEF SceneIInv
<1>2. CASE cut.pc = "captured"
  <2>1. DOMAIN cut' = {"pc", "snap", "alone"} /\ cut'.pc = "captured" /\ cut'.snap = cut.snap /\ cut'.alone = FALSE
    BY <1>1, <1>2 DEF CutOK, Overtake
  <2>2. SnapOK(cut'.snap, excused', crossed'.ever, leaked', session'.fresh)
    BY <1>1, <1>2, <2>1 DEF CutOK
  <2> QED BY <1>2, <2>1, <2>2 DEF CutOK, CutRecording, Whole
<1>3. CASE cut.pc # "captured"
  <2>1. cut' = cut
    BY <1>1, <1>3 DEF CutOK, Overtake
  <2> QED BY <1>1, <1>3, <2>1 DEF CutOK, CutRecording
<1> QED BY <1>2, <1>3

LEMMA MainOvertaken ==
  ASSUME SceneIInv, main' = Overtake(main), paint' = paint,
         \A snap : Whole(snap) => SnapOK(snap, excused', crossed'.ever, leaked', session'.fresh)
  PROVE  MainOK' /\ main'.pc = main.pc /\ (Loading' <=> Loading)
<1>1. MainOK
  BY DEF SceneIInv
<1>2. CASE main.pc = "captured"
  <2>1. DOMAIN main' = {"pc", "kind", "snap", "alone"} /\ main'.pc = "captured" /\ main'.kind = main.kind
        /\ main'.snap = main.snap /\ main'.alone = FALSE
    BY <1>1, <1>2 DEF MainOK, Overtake
  <2>2. SnapOK(main'.snap, excused', crossed'.ever, leaked', session'.fresh) /\ main.kind \in {"edit", "select", "reset"}
    BY <1>1, <1>2, <2>1 DEF MainOK
  <2> QED BY <1>2, <2>1, <2>2 DEF MainOK, Whole, Loading
<1>3. CASE main.pc = "restoring"
  <2>1. DOMAIN main' = {"pc", "snap", "alone"} /\ main'.pc = "restoring" /\ main'.snap = main.snap /\ main'.alone = FALSE
    BY <1>1, <1>3 DEF MainOK, Overtake
  <2>2. SnapOK(main'.snap, excused', crossed'.ever, leaked', session'.fresh) /\ paint' = NoPaint
    BY <1>1, <1>3, <2>1 DEF MainOK
  <2> QED BY <1>3, <2>1, <2>2 DEF MainOK, Whole, Loading, NoPaint
<1>4. CASE main.pc \notin {"captured", "restoring"}
  <2>1. main' = main
    BY <1>4 DEF Overtake
  <2> QED BY <1>1, <1>4, <2>1 DEF MainOK, Loading
<1> QED BY <1>2, <1>3, <1>4

LEMMA CutRecordStep ==
  ASSUME SceneIInv, CutRecord
  PROVE  SceneIInv'
<1>1. /\ cut.pc = "captured" /\ Record(cut.snap) /\ overtaken' = (~cut.alone \/ main.pc # "idle")
      /\ main' = Overtake(main) /\ cut' = Idle /\ Same /\ UNCHANGED <<gpu, paint>>
  BY DEF CutRecord, Same, ghosts
<1>2. /\ SessionOK(session', excused', crossed'.now, leaked') /\ GhostsOK' /\ PaintOK'
      /\ ~ restored' => ~ poisoned' /\ CacheOK(session)' /\ GpuOK'
      /\ \A snap : Whole(snap) <=> SnapOK(snap, excused', crossed'.ever, leaked', session'.fresh)
      /\ Capture(session)' = Capture(session)
  <2>1. overtaken' \in BOOLEAN
    BY <1>1
  <2> QED BY <1>1, <2>1, SameIs
<1>3. MainOK' /\ main'.pc = main.pc /\ (Loading' <=> Loading)
  BY <1>1, <1>2, MainOvertaken
<1>4. CutOK' /\ ~ CutRecording'
  BY <1>1 DEF CutOK, CutRecording, Idle
<1>5. StackOK'
  <2>1. StackOK /\ HistoryOK /\ Whole(cut.snap) /\ (cut.alone => cut.snap = Capture(session))
    BY <1>1 DEF SceneIInv, StackOK, CutOK
  <2> DEFINE s == cut.snap
  <2>2. Record(s) /\ Whole(s)
    BY <1>1, <2>1
  <2>3. Holds(s)
    <3> HIDE DEF s
    <3> QED BY <2>1, <2>2, RecordHolds
  <2>4. ~ Loading => \A k \in DOMAIN snapshots' : Whole(snapshots'[k])
    <3> SUFFICES ASSUME ~ Loading, NEW k \in DOMAIN snapshots' PROVE Whole(snapshots'[k])
      OBVIOUS
    <3>1. snapshots'[k] = s \/ \E j \in DOMAIN snapshots : snapshots'[k] = snapshots[j]
      BY <2>3 DEF Holds
    <3>2. \A j \in DOMAIN snapshots : Whole(snapshots[j])
      BY <2>1 DEF StackOK
    <3> QED BY <2>2, <3>1, <3>2
  <2>5. ~ overtaken' => snapshots'[cursor'] = Capture(session)'
    BY <1>1, <1>2, <2>1, <2>3 DEF Holds
  <2>6. HistoryOK'
    BY <2>3 DEF Holds
  <2> QED BY <1>2, <1>3, <2>4, <2>5, <2>6 DEF StackOK, Whole
<1> QED BY <1>2, <1>3, <1>4, <1>5 DEF SceneIInv

LEMMA CutApplyStep ==
  ASSUME SceneIInv, CutApply
  PROVE  SceneIInv'
<1> DEFINE s == session
           e == excused
           c == crossed.now
           l == leaked
           targets == cut.targets
           ids == {targets[k].id : k \in DOMAIN targets}
           t == session'
<1>1. SessionOK(s, e, c, l)
  BY Now
<1>2. PICK sides \in [DOMAIN targets -> {cut.kept, cut.kept \ {0}}], old \in {0, 1},
              walk \in Walks(s.project.plates[s.project.active].printer) :
         t = ApplyCut(s, targets, sides, cut.connector, old, walk)
  BY Now DEF CutApply
<1>3. /\ cut.pc = "read" /\ cut' = [cut EXCEPT !.pc = "emitted"] /\ main' = Overtake(main)
      /\ UNCHANGED <<poisoned, gpu, paint, snapshots, cursor, recent, overtaken, epoch, restored, excused, crossed, leaked>>
  BY DEF CutApply, historyVars, ghosts
<1>4. TargetsOK(targets)
  BY <1>3 DEF SceneIInv, CutOK
<1>5. Result(s, t, e, c, l)
  <2> DEFINE connector == cut.connector
  <2>1. t = ApplyCut(s, targets, sides, connector, old, walk)
        /\ walk \in Walks(s.project.plates[s.project.active].printer)
    BY <1>2
  <2>2. ids = {targets[k].id : k \in DOMAIN targets}
    OBVIOUS
  <2> HIDE DEF s, e, c, l, targets, t, connector, ids
  <2> QED BY ONLY <1>1, <1>4, <2>1, <2>2, ApplyCutKeeps
<1>6. /\ SessionOK(session', excused', crossed'.now, leaked') /\ session'.fresh >= session.fresh
      /\ PoolStep(project, project') /\ (CacheOK(session) => CacheOK(session'))
  BY <1>3, <1>5 DEF Result, project
<1>7. session.fresh \in Nat /\ session'.fresh \in Nat /\ session.fresh <= session'.fresh /\ DocumentShape(project')
      /\ FirstFresh \in Nat
  <2>1. DocumentShape(t.project) /\ t.fresh \in Nat
    <3>1. SessionOK(t, e, c, l)
      BY <1>5 DEF Result
    <3> HIDE DEF t, e, c, l
    <3> QED BY <3>1, FitDocument
  <2> QED BY <2>1, <1>6, SceneAssumption DEF SceneIInv, SessionOK, project
<1> HIDE DEF s, e, c, l, targets, t
<1>8. Remembers
  BY <1>3 DEF Remembers, SceneIInv, GhostsOK
<1>9. \A snap : Whole(snap) => SnapOK(snap, excused', crossed'.ever, leaked', session'.fresh)
  BY <1>7, <1>8, WholeStays
<1>10. MainOK' /\ main'.pc = main.pc /\ (Loading' <=> Loading)
  BY <1>3, <1>9, MainOvertaken
<1>11. CutOK' /\ CutRecording'
  <2>1. "pc" \in DOMAIN cut
    BY DEF SceneIInv, CutOK
  <2>2. cut'.pc = "emitted" /\ "pc" \in DOMAIN cut'
    BY <1>3, <2>1
  <2> QED BY <2>2 DEF CutOK, CutRecording
<1>12. GhostsOK'
  <2>1. session'.fresh >= FirstFresh
    BY <1>7 DEF SceneIInv, GhostsOK
  <2> QED BY <1>3, <2>1 DEF SceneIInv, GhostsOK
<1>13. StackOK'
  <2>1. StackOK
    BY DEF SceneIInv
  <2>2. HistoryOK'
    BY <1>3, <2>1 DEF StackOK, HistoryOK
  <2>3. ~ Loading' => \A k \in DOMAIN snapshots' : SnapOK(snapshots'[k], excused', crossed'.ever, leaked', session'.fresh)
    BY <1>3, <1>9, <1>10, <2>1 DEF StackOK
  <2> QED BY <1>11, <2>2, <2>3 DEF StackOK, Whole
<1>14. PaintOK'
  BY <1>3, <1>6, <1>7, PaintStays
<1>15. ~ restored' => ~ poisoned' /\ CacheOK(session)' /\ GpuOK'
  <2> SUFFICES ASSUME ~ restored' PROVE ~ poisoned' /\ CacheOK(session)' /\ GpuOK'
    OBVIOUS
  <2>1. ~ poisoned /\ CacheOK(session) /\ GpuOK
    BY <1>3 DEF SceneIInv
  <2>2. GpuOK'
    BY <1>3, <1>6, <1>7, <2>1, GpuStays
  <2>3. CacheOK(session)'
    BY <1>6, <2>1 DEF CacheOK
  <2> QED BY <1>3, <2>1, <2>2, <2>3
<1> QED BY <1>6, <1>10, <1>11, <1>12, <1>13, <1>14, <1>15 DEF SceneIInv

-----------------------------------------------------------------------------
(* Undo and redo, and a document that is replaced. *)

LEMMA NavigateStep ==
  ASSUME SceneIInv, UndoStep \/ RedoStep, Navigate
  PROVE  SceneIInv'
<1>1. /\ Same /\ UNCHANGED <<cut, gpu, paint, overtaken>> /\ main.pc = "idle" /\ paint = NoPaint
      /\ main' = [pc |-> "restoring", snap |-> snapshots[cursor'], alone |-> ~CutRecording]
  BY DEF Navigate, UndoEnabled, Enter, Ready, Same, ghosts
<1>2. snapshots' = snapshots /\ HistoryOK' /\ cursor' \in DOMAIN snapshots
  <2>1. HistoryOK
    BY DEF SceneIInv, StackOK
  <2>2. PICK len \in 1..MaxDepth : DOMAIN snapshots = 1..len
    BY <2>1 DEF HistoryOK
  <2>3. cursor \in 1..len
    BY <2>1, <2>2 DEF HistoryOK
  <2>4. cursor' \in 1..len /\ recent' = FALSE /\ snapshots' = snapshots
    BY <2>2, <2>3, DepthAssumption DEF UndoStep, RedoStep, CanUndo, CanRedo
  <2>5. cursor' \in DOMAIN snapshots' /\ recent' \in BOOLEAN /\ \E n \in 1..MaxDepth : DOMAIN snapshots' = 1..n
    BY <2>2, <2>4
  <2> QED BY <2>4, <2>5 DEF HistoryOK
<1>3. /\ SessionOK(session', excused', crossed'.now, leaked') /\ GhostsOK' /\ PaintOK'
      /\ ~ restored' => ~ poisoned' /\ CacheOK(session)' /\ GpuOK'
      /\ \A snap : Whole(snap) <=> SnapOK(snap, excused', crossed'.ever, leaked', session'.fresh)
  <2>1. overtaken' \in BOOLEAN
    BY <1>1 DEF SceneIInv, GhostsOK
  <2> QED BY <1>1, <2>1, SameIs
<1>4. CutOK' /\ CutRecording' = CutRecording
  BY <1>1, CutStays
<1>5. \A k \in DOMAIN snapshots : Whole(snapshots[k])
  BY <1>1 DEF SceneIInv, StackOK, Loading
<1>6. MainOK'
  <2>1. main'.pc = "restoring" /\ DOMAIN main' = {"pc", "snap", "alone"} /\ main'.snap = snapshots'[cursor']
        /\ main'.alone = ~ CutRecording /\ paint' = NoPaint
    BY <1>1, <1>2
  <2>2. SnapOK(main'.snap, excused', crossed'.ever, leaked', session'.fresh)
    BY <1>2, <1>3, <1>5, <2>1
  <2> QED BY <1>4, <2>1, <2>2 DEF MainOK, Whole, NoPaint
<1>7. StackOK'
  BY <1>1, <1>2, <1>3, <1>5 DEF StackOK, Whole
<1> QED BY <1>3, <1>4, <1>6, <1>7 DEF SceneIInv

LEMMA RestoreStep ==
  ASSUME SceneIInv, Restore
  PROVE  SceneIInv'
<1> DEFINE s == session
           e == excused
           c == crossed.now
           c2 == crossed.ever
           l == leaked
           snap == main.snap
           t == session'
<1>1. /\ main.pc = "restoring" /\ t = RestoreInto(s, snap) /\ main' = Idle /\ cut' = Overtake(cut)
      /\ overtaken' = (~main.alone \/ CutRecording) /\ restored' = TRUE
      /\ crossed' = [crossed EXCEPT !.now = crossed.ever]
      /\ UNCHANGED <<poisoned, gpu, paint, snapshots, cursor, recent, epoch, excused, leaked>>
  BY DEF Restore, historyVars
<1>2. /\ DOMAIN crossed = {"now", "ever"} /\ Whole(snap) /\ paint = NoPaint
      /\ (main.alone => snap = snapshots[cursor]) /\ SessionOK(s, e, c, l)
  BY <1>1 DEF SceneIInv, GhostsOK, MainOK
<1>3. DOMAIN crossed' = {"now", "ever"} /\ crossed'.now = c2 /\ crossed'.ever = c2
  BY <1>1, <1>2
<1>4. SnapOK(snap, e, c2, l, s.fresh)
  BY <1>2 DEF Whole
<1>5. SessionOK(t, e, c2, l) /\ Capture(t) = snap /\ t.fresh = s.fresh
  <2>1. t = RestoreInto(s, snap)
    BY <1>1
  <2> HIDE DEF s, e, c, c2, l, snap, t
  <2> QED BY ONLY <1>2, <1>4, <2>1, RestoredIs
<1>6. SessionOK(session', excused', crossed'.now, leaked')
  BY <1>1, <1>3, <1>5
<1>7. \A x : Whole(x) => SnapOK(x, excused', crossed'.ever, leaked', session'.fresh)
  BY <1>1, <1>3, <1>5 DEF Whole
<1>8. GhostsOK'
  BY <1>1, <1>3, <1>5 DEF SceneIInv, GhostsOK
<1>9. MainOK'
  BY <1>1 DEF MainOK, Idle
<1>10. CutOK' /\ CutRecording' = CutRecording
  BY <1>1, <1>7, CutOvertaken
<1>11. StackOK'
  <2>1. StackOK
    BY DEF SceneIInv
  <2>2. HistoryOK'
    BY <1>1, <2>1 DEF StackOK, HistoryOK
  <2>3. \A k \in DOMAIN snapshots' : SnapOK(snapshots'[k], excused', crossed'.ever, leaked', session'.fresh)
    BY <1>1, <1>7, <2>1 DEF StackOK, Loading
  <2>4. ~ overtaken' => snapshots'[cursor'] = Capture(session)'
    BY <1>1, <1>2, <1>5 DEF Capture
  <2> QED BY <2>2, <2>3, <2>4 DEF StackOK, Whole
<1>12. PaintOK'
  BY <1>1, <1>2 DEF PaintOK, NoPaint
<1> QED BY <1>1, <1>6, <1>8, <1>9, <1>10, <1>11, <1>12 DEF SceneIInv

(* A session may be excused more. *)
LEMMA SessionWeaker ==
  ASSUME NEW s, NEW e, NEW c, NEW l, SessionOK(s, e, c, l), NEW e2, e \subseteq e2, NEW l2, l \subseteq l2
  PROVE  SessionOK(s, e2, c, l2)
<1> DEFINE p == s.project
           f == s.fresh
<1>1. DocumentOK(p, e, c, l, f) /\ f \in Nat /\ f <= f /\ c \subseteq c
  BY DEF SessionOK
<1> HIDE DEF p, f
<1>2. DocumentOK(p, e2, c, l2, f)
  BY <1>1, DocumentWeaker
<1> QED BY <1>2 DEF SessionOK, p, f

LEMMA ReplaceStep ==
  ASSUME SceneIInv, NEW d \in Documents, Replace(d)
  PROVE  SceneIInv'
<1> DEFINE f == session.fresh
           t == session'
           e2 == excused'
           c2 == crossed'
           l2 == leaked'
           stale == cut.pc = "captured"
<1>1. /\ main.pc = "idle" /\ ~ poisoned /\ t = NewSession(d, f) /\ main'.pc = "emitted" /\ main'.kind = "reset"
      /\ overtaken' = overtaken /\ cut' = Overtake(cut) /\ gpu' = << >> /\ epoch' = epoch + 1 /\ restored' = FALSE
      /\ UNCHANGED <<poisoned, snapshots, cursor, recent, paint>>
  <2>1. Enter("replace") /\ Leave(NewSession(d, f), "reset") /\ ClearMeshes /\ epoch' = epoch + 1 /\ restored' = FALSE
        /\ paint' = paint
    BY DEF Replace
  <2>2. ~ ("reset" = "quiet")
    OBVIOUS
  <2>3. main' = [pc |-> "emitted", kind |-> "reset"] /\ t = NewSession(d, f) /\ cut' = Overtake(cut)
        /\ UNCHANGED <<poisoned, snapshots, cursor, recent>>
    BY <2>1, <2>2 DEF Leave, historyVars
  <2>4. overtaken' = overtaken
    <3>1. overtaken' = (overtaken \/ FALSE) /\ overtaken \in BOOLEAN
      BY <2>1, <2>2 DEF Leave, SceneIInv, GhostsOK
    <3> QED BY <3>1
  <2> QED BY <2>1, <2>3, <2>4 DEF Enter, Ready, ClearMeshes
<1>2. /\ e2 = Unmatched(d) \cup (IF stale THEN excused ELSE {})
      /\ c2 = [now |-> Misfits(d), ever |-> Misfits(d) \cup (IF stale THEN crossed.ever ELSE {})]
      /\ l2 = Unused(d) \cup (IF stale THEN leaked ELSE {})
  BY DEF Replace, ComesWith
<1>3. c2.now = Misfits(d) /\ c2.ever = Misfits(d) \cup (IF stale THEN crossed.ever ELSE {}) /\ DOMAIN c2 = {"now", "ever"}
  BY <1>2
<1>4. /\ SessionOK(t, Unmatched(d), Misfits(d), Unused(d)) /\ t.project = d /\ t.fresh = f /\ CacheOK(t)
      /\ f \in Nat /\ f >= FirstFresh
  <2>1. IsDocument(d) /\ f \in Nat /\ FirstFresh \in Nat /\ FirstFresh <= f /\ t = NewSession(d, f)
    BY <1>1, SceneAssumption DEF SceneIInv, SessionOK, GhostsOK
  <2> HIDE DEF t, f
  <2> QED BY <2>1, NewSessionIs
<1> HIDE DEF f, t, e2, c2, l2
<1>5. SessionOK(t, e2, c2.now, l2)
  <2> DEFINE e == Unmatched(d)
             c == Misfits(d)
             l == Unused(d)
  <2>1. SessionOK(t, e, c, l) /\ e \subseteq e2 /\ l \subseteq l2 /\ c2.now = c
    BY <1>2, <1>3, <1>4
  <2> HIDE DEF e, c, l
  <2>2. SessionOK(t, e2, c, l2)
    BY ONLY <2>1, SessionWeaker
  <2> QED BY <2>1, <2>2
<1>6. stale => \A snap : Whole(snap) => SnapOK(snap, e2, c2.ever, l2, t.fresh)
  <2> SUFFICES ASSUME stale, NEW snap, Whole(snap) PROVE SnapOK(snap, e2, c2.ever, l2, t.fresh)
    OBVIOUS
  <2> DEFINE ce == crossed.ever
             ce2 == c2.ever
             f2 == t.fresh
  <2>1. /\ SnapOK(snap, excused, ce, leaked, f) /\ f \in Nat /\ f2 \in Nat /\ f <= f2
        /\ excused \subseteq e2 /\ ce \subseteq ce2 /\ leaked \subseteq l2
    BY <1>2, <1>3, <1>4 DEF Whole, f
  <2> HIDE DEF ce, ce2, f2, stale
  <2>2. SnapOK(snap, e2, ce2, l2, f2)
    BY ONLY <2>1, SnapStays
  <2> QED BY <2>2 DEF ce2, f2
<1>7. GhostsOK'
  <2>1. epoch \in Nat /\ poisoned \in BOOLEAN /\ overtaken \in BOOLEAN
    BY DEF SceneIInv, GhostsOK
  <2>2. crossed'.now \subseteq crossed'.ever /\ DOMAIN crossed' = {"now", "ever"} /\ session'.fresh >= FirstFresh
    BY <1>3, <1>4 DEF c2, t
  <2>3. epoch' \in Nat
    BY <1>1, <2>1
  <2>4. poisoned' \in BOOLEAN /\ restored' \in BOOLEAN /\ overtaken' \in BOOLEAN
    BY <1>1, <2>1
  <2> QED BY <2>2, <2>3, <2>4 DEF GhostsOK
<1>8. MainOK' /\ Loading'
  BY <1>1 DEF MainOK, Loading
<1>9. CutOK'
  <2>1. cut.pc = "captured" => \A snap : Whole(snap) => SnapOK(snap, excused', crossed'.ever, leaked', session'.fresh)
    BY <1>6 DEF e2, c2, l2, t
  <2> QED BY <1>1, <2>1, CutOvertaken
<1>10. StackOK'
  <2>1. HistoryOK'
    BY <1>1 DEF SceneIInv, StackOK, HistoryOK
  <2> QED BY <1>1, <1>8, <2>1 DEF StackOK
<1>11. PaintOK'
  <2>1. ASSUME paint # NoPaint PROVE paint.epoch \in 0..epoch /\ epoch \in Nat
    BY <2>1 DEF SceneIInv, PaintOK, GhostsOK
  <2>2. ASSUME paint # NoPaint PROVE paint.epoch \in 0..(epoch + 1) /\ paint.epoch # epoch + 1
    BY <2>1, <2>2
  <2> QED BY <1>1, <2>2 DEF PaintOK, NoPaint
<1>12. GpuOK'
  <2>1. DOMAIN gpu' = {}
    BY <1>1
  <2> QED BY <2>1 DEF GpuOK
<1>13. CacheOK(session)'
  BY <1>4 DEF t, CacheOK
<1>14. SessionOK(session', excused', crossed'.now, leaked')
  BY <1>5 DEF t, e2, c2, l2
<1> QED BY <1>1, <1>7, <1>8, <1>9, <1>10, <1>11, <1>12, <1>13, <1>14 DEF SceneIInv

-----------------------------------------------------------------------------
(* What the renderer, the paint tool and a panic leave. *)

LEMMA ToolsMove ==
  ASSUME SceneIInv, Same, UNCHANGED <<main, cut, snapshots, cursor, recent, overtaken>>,
         PaintOK', MainOK', ~ restored => GpuOK'
  PROVE  SceneIInv'
<1>1. /\ SessionOK(session', excused', crossed'.now, leaked') /\ GhostsOK'
      /\ \A snap : Whole(snap) <=> SnapOK(snap, excused', crossed'.ever, leaked', session'.fresh)
      /\ Capture(session)' = Capture(session)
  <2>1. overtaken' \in BOOLEAN
    BY DEF SceneIInv, GhostsOK
  <2> QED BY <2>1, SameIs
<1>2. CutOK' /\ CutRecording' = CutRecording
  BY CutStays
<1>3. StackOK'
  <2>1. StackOK
    BY DEF SceneIInv
  <2>2. HistoryOK' /\ (Loading' <=> Loading)
    BY <2>1 DEF StackOK, HistoryOK, Loading
  <2> QED BY <1>1, <1>2, <2>1, <2>2 DEF StackOK, Whole
<1>4. ~ restored' => ~ poisoned' /\ CacheOK(session)' /\ GpuOK'
  BY DEF Same, SceneIInv, CacheOK
<1> QED BY <1>1, <1>2, <1>3, <1>4 DEF SceneIInv

LEMMA FrameStep ==
  ASSUME SceneIInv, Frame
  PROVE  SceneIInv'
<1> DEFINE live == DOMAIN gpu \cap DOMAIN project.meshes
           new == (Drawn \cap DOMAIN project.meshes) \ live
<1>1. /\ Same /\ UNCHANGED <<main, cut, paint, snapshots, cursor, recent, overtaken>>
      /\ gpu' = [m \in live \cup new |-> IF m \in live THEN gpu[m] ELSE project.meshes[m].of]
  BY DEF Frame, Same, ghosts, historyVars
<1>2. ASSUME ~ restored PROVE GpuOK'
  <2>1. GpuOK /\ DOMAIN project.meshes \subseteq 1..project.lastMesh
    BY <1>2, Now DEF SceneIInv, SessionOK, DocumentOK, DocumentShape
  <2>2. project' = project
    BY <1>1 DEF Same, project
  <2>3. ASSUME NEW m \in live \cup new
        PROVE  m \in 1..project.lastMesh /\ (m \in DOMAIN project.meshes => gpu'[m] = project.meshes[m].of)
    <3>1. m \in DOMAIN project.meshes /\ gpu'[m] = IF m \in live THEN gpu[m] ELSE project.meshes[m].of
      BY <1>1
    <3> QED BY <2>1, <3>1 DEF GpuOK
  <2>4. DOMAIN gpu' = live \cup new
    BY <1>1
  <2> HIDE DEF live, new
  <2> QED BY <2>2, <2>3, <2>4 DEF GpuOK
<1>3. PaintOK'
  <2>1. overtaken' \in BOOLEAN
    BY <1>1 DEF SceneIInv, GhostsOK
  <2> QED BY <1>1, <2>1, SameIs
<1>4. CutRecording' = CutRecording
  BY <1>1 DEF CutRecording
<1>5. MainOK'
  BY <1>1, <1>4, MainStays
<1> QED BY <1>1, <1>2, <1>3, <1>5, ToolsMove

LEMMA PaintOpenStep ==
  ASSUME SceneIInv, NEW id, PaintOpen(id)
  PROVE  SceneIInv'
<1> DEFINE m == ObjectOn(active, id).mesh
<1>1. /\ Same /\ UNCHANGED <<main, cut, gpu, snapshots, cursor, recent, overtaken>>
      /\ main.pc = "idle" /\ m \in DOMAIN project.meshes
      /\ paint' = [mesh |-> m, object |-> id, of |-> project.meshes[m].of, epoch |-> epoch]
  BY DEF PaintOpen, Enter, Ready, Same, ghosts, historyVars
<1>2. PaintOK'
  <2>1. m \in 1..project.lastMesh
    BY <1>1 DEF SceneIInv, SessionOK, DocumentOK, DocumentShape, project
  <2>2. project' = project /\ epoch' = epoch /\ epoch \in 0..epoch
    BY <1>1 DEF Same, project, SceneIInv, GhostsOK
  <2> HIDE DEF m
  <2>3. paint'.mesh = m /\ paint'.of = project.meshes[m].of /\ paint'.epoch = epoch
    BY <1>1
  <2> QED BY <2>1, <2>2, <2>3 DEF PaintOK
<1>3. MainOK'
  BY <1>1 DEF MainOK
<1>4. ~ restored => GpuOK'
  <2>1. overtaken' \in BOOLEAN
    BY <1>1 DEF SceneIInv, GhostsOK
  <2> QED BY <1>1, <2>1, SameIs DEF Same
<1> QED BY <1>1, <1>2, <1>3, <1>4, ToolsMove

(* An id of the cache is unwrapped that is gone: that takes a restore. *)
LEMMA PanicStep ==
  ASSUME SceneIInv, NEW kind, PrimitivePanics(session, kind), AddPrimitive(kind)
  PROVE  SceneIInv'
<1>1. /\ poisoned' = TRUE
      /\ UNCHANGED <<session, main, cut, gpu, paint, snapshots, cursor, recent, overtaken>>
      /\ UNCHANGED <<epoch, restored, excused, crossed, leaked>>
  BY DEF AddPrimitive, historyVars, ghosts
<1>2. restored
  <2>1. ~ CacheOK(session)
    BY DEF PrimitivePanics, CacheOK
  <2>2. restored \in BOOLEAN /\ (~ restored => CacheOK(session))
    BY DEF SceneIInv, GhostsOK
  <2> QED BY <2>1, <2>2
<1>3. \A snap : Whole(snap) <=> SnapOK(snap, excused', crossed'.ever, leaked', session'.fresh)
  BY <1>1 DEF Whole
<1>4. GhostsOK'
  BY <1>1 DEF SceneIInv, GhostsOK
<1>5. CutRecording' = CutRecording /\ (Loading' <=> Loading) /\ Capture(session)' = Capture(session)
  BY <1>1 DEF CutRecording, Loading, Capture
<1>6. MainOK'
  <2>1. MainOK
    BY DEF SceneIInv
  <2> QED BY <1>1, <1>3, <1>5, <2>1 DEF MainOK, Whole
<1>7. CutOK'
  <2>1. CutOK
    BY DEF SceneIInv
  <2> QED BY <1>1, <1>3, <1>5, <2>1 DEF CutOK, Whole
<1>8. StackOK'
  <2>1. StackOK
    BY DEF SceneIInv
  <2>2. HistoryOK'
    BY <1>1, <2>1 DEF StackOK, HistoryOK
  <2> QED BY <1>1, <1>3, <1>5, <2>1, <2>2 DEF StackOK, Whole
<1>9. PaintOK'
  BY <1>1 DEF SceneIInv, PaintOK, project
<1> QED BY <1>1, <1>2, <1>4, <1>6, <1>7, <1>8, <1>9 DEF SceneIInv

LEMMA InitHolds ==
  ASSUME Init
  PROVE  SceneIInv
<1>1. PICK d \in Starts[work.load] :
         /\ session = NewSession(d, FirstFresh) /\ excused = Unmatched(d)
         /\ crossed = [now |-> Misfits(d), ever |-> Misfits(d)] /\ leaked = Unused(d)
  BY DEF Init
<1> DEFINE s == session
<1>2. /\ SessionOK(s, Unmatched(d), Misfits(d), Unused(d)) /\ s.fresh = FirstFresh /\ CacheOK(s) /\ FirstFresh \in Nat
  <2>1. IsDocument(d)
    <3>1. work.load \in DOMAIN Workloads
      BY DEF Init
    <3> QED BY <1>1, <3>1, SceneAssumption
  <2>2. FirstFresh \in Nat /\ FirstFresh <= FirstFresh /\ s = NewSession(d, FirstFresh)
    BY <1>1, SceneAssumption
  <2> HIDE DEF s
  <2> QED BY <2>1, <2>2, NewSessionIs
<1>3. /\ HistoryInit(Capture(session)) /\ poisoned = FALSE /\ main = Idle /\ cut = Idle /\ gpu = << >> /\ paint = NoPaint
      /\ epoch = 0 /\ restored = FALSE /\ overtaken = FALSE
  BY DEF Init
<1>4. crossed.now = Misfits(d) /\ crossed.ever = Misfits(d) /\ DOMAIN crossed = {"now", "ever"}
  BY <1>1
<1>5. SessionOK(session, excused, crossed.now, leaked)
  BY <1>1, <1>2, <1>4
<1>6. GhostsOK
  <2>1. poisoned \in BOOLEAN /\ restored \in BOOLEAN /\ overtaken \in BOOLEAN
    BY <1>3
  <2>2. epoch \in Nat /\ session.fresh >= FirstFresh
    BY <1>2, <1>3
  <2> QED BY <1>4, <2>1, <2>2 DEF GhostsOK
<1>7. MainOK /\ CutOK /\ PaintOK
  BY <1>3 DEF MainOK, CutOK, PaintOK, Idle
<1>8. GpuOK
  <2>1. DOMAIN gpu = {}
    BY <1>3
  <2> QED BY <2>1 DEF GpuOK
<1>9. StackOK
  <2>1. DOMAIN snapshots = 1..1 /\ cursor = 1 /\ recent = FALSE /\ \A k \in 1..1 : snapshots[k] = Capture(session)
    BY <1>3 DEF HistoryInit
  <2>2. HistoryOK
    <3>0. cursor \in DOMAIN snapshots
      BY <2>1
    <3>1. recent \in BOOLEAN
      BY <2>1
    <3>2. \E n \in 1..MaxDepth : DOMAIN snapshots = 1..n
      BY <2>1, DepthAssumption
    <3> QED BY <3>0, <3>1, <3>2 DEF HistoryOK
  <2>3. \A k \in DOMAIN snapshots : Whole(snapshots[k])
    <3> DEFINE e == Unmatched(d)
               c == Misfits(d)
               l == Unused(d)
    <3>1. SessionOK(s, e, c, l)
      BY <1>2
    <3> HIDE DEF s, e, c, l
    <3>2. SnapOK(Capture(s), e, c, l, s.fresh)
      BY <3>1, CaptureIs
    <3>3. Whole(Capture(session))
      BY <3>2, <1>1, <1>4 DEF Whole, s, e, c, l
    <3> QED BY <2>1, <3>3
  <2> QED BY <2>1, <2>2, <2>3 DEF StackOK
<1> QED BY <1>2, <1>3, <1>5, <1>6, <1>7, <1>8, <1>9 DEF SceneIInv

LEMMA AddingKeeps ==
  ASSUME SceneIInv, Adding
  PROVE  SceneIInv'
<1>1. ASSUME NEW kind \in Kinds, AddPrimitive(kind) PROVE SceneIInv'
  BY <1>1, PrimitiveStep, PanicStep
<1>2. ASSUME NEW geom \in Geometries, LoadMeshFile(geom) PROVE SceneIInv'
  BY <1>2, LoadMeshStep
<1>3. ASSUME NEW geoms \in Geometries \X Geometries, NEW grouped \in BOOLEAN, NEW keys \in SUBSET ObjectKeys,
             LoadThreeMfFile(geoms, grouped, keys)
      PROVE  SceneIInv'
  BY <1>3, LoadThreeMfStep
<1>4. ASSUME NEW ids \in Picks, NEW times \in 1..2, CloneObjects(ids, times) PROVE SceneIInv'
  BY <1>4, CloneStep
<1>5. ASSUME NEW ids \in Picks, NEW kept \in 0..1, FillPlateWith(ids, kept) PROVE SceneIInv'
  BY <1>5, FillStep
<1> QED BY <1>1, <1>2, <1>3, <1>4, <1>5 DEF Adding

LEMMA ChangingKeeps ==
  ASSUME SceneIInv, Changing
  PROVE  SceneIInv'
<1>1. ASSUME NEW ids \in Picks, PlaceObjects(ids) \/ AutoOrientRead(ids) \/ Delete(ids) PROVE SceneIInv'
  BY <1>1, PlaceObjectsStep, OrientReadStep, DeleteStep
<1>2. ASSUME NEW ids \in Picks, NEW unknown \in BOOLEAN, Group(ids, unknown) PROVE SceneIInv'
  BY <1>2, GroupStep
<1>3. ASSUME NEW g \in GroupsOf(active, IdsOn(active)), Ungroup(g) \/ NameGroup(g) PROVE SceneIInv'
  BY <1>3, UngroupStep, NameGroupStep
<1>4. ASSUME NEW i \in DOMAIN project.plates, NEW key \in ObjectKeys \cup RegionKeys, NEW id \in IdsOn(project.plates[i]),
             SetOverride(i, id, key) \/ ClearOverride(i, id, key)
      PROVE  SceneIInv'
  BY <1>4, SetOverrideStep, ClearOverrideStep
<1>5. ASSUME NEW id \in IdsOn(active), NEW mat \in Materials, SetMaterial(id, mat) PROVE SceneIInv'
  BY <1>5, SetMaterialStep
<1>6. ASSUME NEW i \in DOMAIN project.plates, NEW mat \in Materials, ClearSlot(i, mat) PROVE SceneIInv'
  BY <1>6, ClearSlotStep
<1>7. ASSUME NEW i \in DOMAIN project.plates, NEW mat \in Materials, NEW slot, PinSlot(i, mat, slot) PROVE SceneIInv'
  BY <1>7, PinSlotStep
<1>8. ASSUME NEW i \in DOMAIN project.plates, NEW j \in DOMAIN project.plates, NEW ids, Move(i, j, ids) PROVE SceneIInv'
  BY <1>8, MoveStep
<1>9. ASSUME NEW spilled \in SUBSET Units(active), AutoArrange(spilled) PROVE SceneIInv'
  BY <1>9, ArrangeStep
<1> QED BY <1>1, <1>2, <1>3, <1>4, <1>5, <1>6, <1>7, <1>8, <1>9 DEF Changing

LEMMA OthersKeep ==
  ASSUME SceneIInv, Plating \/ Selecting \/ Painting \/ PaintClose
  PROVE  SceneIInv'
<1>1. ASSUME Plating PROVE SceneIInv'
  <2>1. ASSUME NEW default \in Instances \cup {Unbound}, CreatePlate(default) PROVE SceneIInv'
    BY <2>1, CreatePlateStep
  <2>2. ASSUME NEW i \in DOMAIN project.plates, ClosePlate(i) \/ Activate(i) \/ Unbind(i) PROVE SceneIInv'
    BY <2>2, ClosePlateStep, ActivateStep, UnbindStep
  <2>3. ASSUME NEW i \in DOMAIN project.plates, NEW inst \in Instances, Rebind(i, inst) PROVE SceneIInv'
    BY <2>3, RebindStep
  <2> QED BY <1>1, <2>1, <2>2, <2>3 DEF Plating
<1>2. ASSUME Selecting PROVE SceneIInv'
  <2>1. ASSUME NEW ids, NEW mode \in {"replace", "add", "toggle"}, SelectObjects(ids, mode) PROVE SceneIInv'
    BY <2>1, SelectStep
  <2> QED BY <1>2, <2>1 DEF Selecting, DeselectAll
<1>3. ASSUME Painting PROVE SceneIInv'
  BY <1>3, PaintOpenStep, PaintStrokeStep DEF Painting
<1> QED BY <1>1, <1>2, <1>3, PaintCloseStep

LEMMA ThreadsKeep ==
  ASSUME SceneIInv, Cutting \/ Recording
  PROVE  SceneIInv'
<1>1. ASSUME NEW ids, NEW connector, NEW kept, CutRead(ids, connector, kept) PROVE SceneIInv'
  BY <1>1, CutReadStep
<1>2. ASSUME Cutting PROVE SceneIInv'
  BY <1>1, <1>2, CutApplyStep, CutFailsStep, CutCaptureStep, CutRecordStep DEF Cutting
<1>3. ASSUME Undo \/ Redo PROVE SceneIInv'
  BY <1>3, NavigateStep DEF Undo, Redo
<1>4. ASSUME Recording PROVE SceneIInv'
  BY <1>3, <1>4, OrientApplyStep, TrackCaptureKeeps, TrackRecordKeeps, RestoreStep, TickStep DEF Recording
<1> QED BY <1>2, <1>4

LEMMA StepHolds ==
  ASSUME SceneIInv, [Next]_vars
  PROVE  SceneIInv'
<1>1. ASSUME Next PROVE SceneIInv'
  <2>1. ASSUME NEW d \in Documents, Replace(d) PROVE SceneIInv'
    BY <2>1, ReplaceStep
  <2> QED BY <1>1, <2>1, AddingKeeps, ChangingKeeps, OthersKeep, ThreadsKeep, FrameStep DEF Next
<1> QED BY <1>1, StutterStep

(* The inductive invariant holds throughout. *)
THEOREM SceneAlwaysOK == Spec => []SceneIInv
<1>1. Init => SceneIInv
  BY InitHolds
<1>2. SceneIInv /\ [Next]_vars => SceneIInv'
  BY StepHolds
<1> QED BY <1>1, <1>2, PTL DEF Spec

-----------------------------------------------------------------------------
(* What follows. *)

LEMMA ReferencesFollow == SceneIInv => ReferencesHold
<1> SUFFICES ASSUME SceneIInv PROVE ReferencesHold
  OBVIOUS
<1>1. /\ DocumentOK(project, excused, crossed.now, leaked, session.fresh) /\ SelectionOK(project, session.selection)
      /\ GhostsOK /\ MainOK /\ CutOK /\ (~ restored => ~ poisoned /\ CacheOK(session))
  BY DEF SceneIInv, SessionOK, project
<1>2. SceneTypeOK
  BY <1>1 DEF SceneTypeOK, DocumentOK, MainOK, CutOK, GhostsOK
<1>3. RefsResolve
  BY <1>1 DEF RefsResolve, References, DocumentOK, PlateOK
<1>4. PoolIsLive
  BY <1>1 DEF PoolIsLive, DocumentOK
<1>5. SelectionResolves
  BY <1>1 DEF SelectionResolves, SelectionOK, PlateIds, PlateIdsOf
<1>6. CacheResolvesUnlessRestored
  BY <1>1 DEF CacheResolvesUnlessRestored, CacheOK, project
<1> QED BY <1>2, <1>3, <1>4, <1>5, <1>6 DEF ReferencesHold

LEMMA BindingsFollow == SceneIInv => BindingsHold
<1> SUFFICES ASSUME SceneIInv PROVE BindingsHold
  OBVIOUS
<1>1. DocumentOK(project, excused, crossed.now, leaked, session.fresh)
  BY DEF SceneIInv, SessionOK, project
<1>2. GroupOnOnePlate
  BY <1>1 DEF GroupOnOnePlate, DocumentOK
<1>3. BindingsMatchUse
  BY <1>1 DEF BindingsMatchUse, DocumentOK, PlateOK
<1>4. SlotsFitPrinter
  BY <1>1 DEF SlotsFitPrinter, DocumentOK, PlateOK
<1> QED BY <1>2, <1>3, <1>4 DEF BindingsHold

LEMMA RestoreFollows == SceneIInv => RestoreIsWhole /\ HistoryOK
<1> SUFFICES ASSUME SceneIInv PROVE RestoreIsWhole /\ HistoryOK
  OBVIOUS
<1>1. StackOK /\ PaintOK /\ (~ restored => GpuOK)
  BY DEF SceneIInv
<1>2. HistoryMirrors /\ HistoryOK
  BY <1>1 DEF HistoryMirrors, StackOK
<1>3. GpuIsFreshUnlessRestored
  BY <1>1 DEF GpuIsFreshUnlessRestored, GpuOK
<1>4. PaintStaysOnItsMesh
  BY <1>1 DEF PaintStaysOnItsMesh, PaintOK
<1> QED BY <1>2, <1>3, <1>4 DEF RestoreIsWhole

(* No command, undo, redo, cut or document that is opened leaves a reference to what *)
(* is gone, nor a mesh nothing refers to (geometry.rs:1241, model.rs).               *)
THEOREM SceneReferencesHold == Spec => []ReferencesHold
BY SceneAlwaysOK, ReferencesFollow, PTL

(* A group lies on one plate, and a plate binds what it uses to slots its printer *)
(* has (geometry.rs:376, plates.rs:192).                                          *)
THEOREM SceneBindingsHold == Spec => []BindingsHold
BY SceneAlwaysOK, BindingsFollow, PTL

(* Undo and redo bring back what was there, the renderer and the paint tool keep to *)
(* their meshes, the cursor stays on the stack (history.rs:61).                     *)
THEOREM SceneRestoreIsWhole == Spec => [](RestoreIsWhole /\ HistoryOK)
BY SceneAlwaysOK, RestoreFollows, PTL

-----------------------------------------------------------------------------
(* The cut. *)

(* Only the split tool's own thread applies a cut. *)
CutNot == cut.pc = "read" => cut'.pc # "emitted"

LEMMA LeavesCutAlone ==
  ASSUME cut' = cut \/ cut' = Overtake(cut)
  PROVE  CutNot
BY DEF CutNot, Overtake

LEMMA EditLeavesCut ==
  ASSUME NEW family, NEW next, Edit(family, next)
  PROVE  CutNot
BY LeavesCutAlone DEF Edit, Leave

LEMMA OnlyApplyApplies ==
  ASSUME Next, ~ CutApply
  PROVE  CutNot
<1>1. CASE Adding
  BY <1>1, EditLeavesCut, LeavesCutAlone
     DEF Adding, AddPrimitive, LoadMeshFile, EditProject, LoadThreeMfFile, CloneObjects, FillPlateWith, Leave
<1>2. CASE Changing
  <2>1. ASSUME NEW ids, PlaceObjects(ids) \/ AutoOrientRead(ids) \/ Delete(ids) PROVE CutNot
    BY <2>1, EditLeavesCut, LeavesCutAlone DEF PlaceObjects, AutoOrientRead, Delete, EditProject
  <2>2. ASSUME NEW ids, NEW unknown, Group(ids, unknown) PROVE CutNot
    BY <2>2, LeavesCutAlone DEF Group, Leave
  <2>3. ASSUME NEW g, Ungroup(g) \/ NameGroup(g) PROVE CutNot
    BY <2>3, EditLeavesCut DEF Ungroup, NameGroup, EditProject
  <2>4. ASSUME NEW i, NEW key, NEW id, SetOverride(i, id, key) \/ ClearOverride(i, id, key) PROVE CutNot
    BY <2>4, EditLeavesCut DEF SetOverride, ClearOverride, EditProject
  <2>5. ASSUME NEW id, NEW mat, SetMaterial(id, mat) \/ ClearSlot(id, mat) PROVE CutNot
    BY <2>5, EditLeavesCut DEF SetMaterial, ClearSlot, EditProject
  <2>6. ASSUME NEW i, NEW mat, NEW slot, PinSlot(i, mat, slot) PROVE CutNot
    BY <2>6, EditLeavesCut DEF PinSlot, EditProject
  <2>7. ASSUME NEW from, NEW to, NEW ids, Move(from, to, ids) PROVE CutNot
    BY <2>7, EditLeavesCut DEF Move
  <2>8. ASSUME NEW spilled, AutoArrange(spilled) PROVE CutNot
    BY <2>8, EditLeavesCut DEF AutoArrange
  <2> QED BY <1>2, <2>1, <2>2, <2>3, <2>4, <2>5, <2>6, <2>7, <2>8 DEF Changing
<1>3. CASE Plating
  BY <1>3, EditLeavesCut, LeavesCutAlone DEF Plating, CreatePlate, ClosePlate, Activate, Unbind, Rebind, Leave
<1>4. CASE Selecting \/ Painting \/ PaintClose
  BY <1>4, LeavesCutAlone
     DEF Selecting, DeselectAll, SelectObjects, Painting, PaintOpen, PaintStroke, PaintClose, Leave
<1>5. CASE Cutting
  <2>1. ASSUME NEW ids, NEW connector, NEW kept, CutRead(ids, connector, kept) PROVE CutNot
    BY <2>1 DEF CutRead, CutNot
  <2>2. CutFails \/ CutCapture \/ CutRecord => CutNot
    BY DEF CutFails, CutCapture, CutRecord, CutNot, Idle
  <2> QED BY <1>5, <2>1, <2>2 DEF Cutting
<1>6. CASE Recording
  BY <1>6, LeavesCutAlone
     DEF Recording, AutoOrientApply, TrackCapture, TrackRecord, Undo, Redo, Navigate, Restore, Tick, Leave
<1>7. CASE Frame \/ \E d \in Documents : Replace(d)
  BY <1>7, LeavesCutAlone DEF Frame, Replace, Leave
<1> QED BY <1>1, <1>2, <1>3, <1>4, <1>5, <1>6, <1>7 DEF Next

LEMMA AllIdsAre ==
  ASSUME NEW p
  PROVE  \A x : x \in {o.id : o \in AllObjects(p)} <=> \E i \in DOMAIN p.plates : x \in IdsOn(p.plates[i])
<1>1. \A plate : \A o : o \in ObjectsOn(plate) <=> \E k \in DOMAIN plate.objects : o = plate.objects[k]
  BY OnPlate
<1>2. \A plate : \A x : x \in IdsOn(plate) <=> \E k \in DOMAIN plate.objects : x = plate.objects[k].id
  BY OnPlate
<1>3. \A o : o \in AllObjects(p) <=> \E i \in DOMAIN p.plates : o \in ObjectsOn(p.plates[i])
  BY DEF AllObjects
<1> QED BY <1>1, <1>2, <1>3

(* A document that is cut loses the sources, and no other object. *)
LEMMA CutTakesSources ==
  ASSUME NEW p, NEW e, NEW c, NEW l, NEW f, DocumentOK(p, e, c, l, f), NEW q, NEW ids, CutIs(p, q, ids),
         NEW sources, sources = ids \cap IdsOn(p.plates[p.active])
  PROVE  {o.id : o \in AllObjects(p)} \ sources = {o.id : o \in AllObjects(q)} \cap (1..p.lastObject)
<1> DEFINE a == p.active
<1>1. a \in DOMAIN p.plates /\ DOMAIN q.plates = DOMAIN p.plates
  BY DEF DocumentOK, DocumentShape, CutIs
<1>2. ASSUME NEW i \in DOMAIN p.plates PROVE IdsOn(p.plates[i]) \subseteq 1..p.lastObject
  <2> DEFINE plate == p.plates[i]
  <2>1. Resolves(p, plate)
    BY <1>2 DEF DocumentOK, PlateOK
  <2> HIDE DEF plate
  <2>2. \A x : x \in IdsOn(plate) <=> \E k \in DOMAIN plate.objects : x = plate.objects[k].id
    BY OnPlate
  <2>3. IdsOn(plate) \subseteq 1..p.lastObject
    BY <2>1, <2>2 DEF Resolves
  <2> QED BY <2>3 DEF plate
<1>3. ASSUME NEW i \in DOMAIN p.plates, i # a PROVE IdsOn(p.plates[i]) \cap sources = {}
  BY <1>1, <1>3 DEF DocumentOK, IdsApart
<1>4. ASSUME NEW x PROVE (x \in {o.id : o \in AllObjects(p)} \ sources) <=> x \in {o.id : o \in AllObjects(q)} \cap (1..p.lastObject)
  <2>1. \A i \in DOMAIN p.plates : i # a => IdsOn(q.plates[i]) = IdsOn(p.plates[i])
    BY DEF CutIs
  <2>2. IdsOn(q.plates[a]) \cap (1..p.lastObject) = IdsOn(p.plates[a]) \ ids
    BY DEF CutIs
  <2>3. \A i \in DOMAIN p.plates : x \in IdsOn(p.plates[i]) \ sources <=> x \in IdsOn(q.plates[i]) \cap (1..p.lastObject)
    <3> SUFFICES ASSUME NEW i \in DOMAIN p.plates
                 PROVE  x \in IdsOn(p.plates[i]) \ sources <=> x \in IdsOn(q.plates[i]) \cap (1..p.lastObject)
      OBVIOUS
    <3>1. CASE i = a
      BY <2>2, <3>1
    <3>2. CASE i # a
      BY <1>2, <1>3, <2>1, <3>2
    <3> QED BY <3>1, <3>2
  <2>4. (x \in {o.id : o \in AllObjects(p)}) <=> \E i \in DOMAIN p.plates : x \in IdsOn(p.plates[i])
    BY AllIdsAre
  <2>5. (x \in {o.id : o \in AllObjects(q)}) <=> \E i \in DOMAIN p.plates : x \in IdsOn(q.plates[i])
    BY <1>1, AllIdsAre
  <2> QED BY <2>3, <2>4, <2>5
<1> QED BY <1>4

LEMMA ApplyTakesSources ==
  ASSUME SceneIInv, CutApply
  PROVE  LET sources == {cut.targets[k].id : k \in DOMAIN cut.targets} \cap IdsOn(active)
         IN {o.id : o \in AllObjects(project)} \ sources
              = {o.id : o \in AllObjects(project')} \cap (1..project.lastObject)
<1> DEFINE s == session
           e == excused
           c == crossed.now
           l == leaked
           targets == cut.targets
           connector == cut.connector
           t == session'
           ids == {targets[k].id : k \in DOMAIN targets}
           sources == ids \cap IdsOn(active)
<1>1. /\ SessionOK(s, e, c, l)
      /\ active = s.project.plates[s.project.active] /\ project = s.project
  BY Now DEF ActivePlate
<1>2. PICK sides \in [DOMAIN targets -> {cut.kept, cut.kept \ {0}}], old \in {0, 1},
              walk \in Walks(s.project.plates[s.project.active].printer) :
         t = ApplyCut(s, targets, sides, connector, old, walk)
  BY Now DEF CutApply
<1>3. TargetsOK(targets)
  BY DEF SceneIInv, CutOK, CutApply
<1>4. ids = {targets[k].id : k \in DOMAIN targets} /\ project' = t.project
      /\ sources = ids \cap IdsOn(s.project.plates[s.project.active])
  BY <1>1 DEF project
<1>5. DocumentOK(s.project, e, c, l, s.fresh)
  BY <1>1 DEF SessionOK
<1> SUFFICES {o.id : o \in AllObjects(project)} \ sources
               = {o.id : o \in AllObjects(project')} \cap (1..project.lastObject)
  OBVIOUS
<1> HIDE DEF s, e, c, l, targets, connector, t, ids, sources
<1>6. CutIs(s.project, t.project, ids)
  BY ONLY <1>1, <1>2, <1>3, <1>4, ApplyCutKeeps
<1> DEFINE p == s.project
           q == t.project
<1>7. CutIs(p, q, ids) /\ sources = ids \cap IdsOn(p.plates[p.active]) /\ DocumentOK(p, e, c, l, s.fresh)
  BY <1>4, <1>5, <1>6
<1>8. project = p /\ project' = q
  BY <1>1, <1>4
<1> HIDE DEF p, q
<1>9. {o.id : o \in AllObjects(p)} \ sources = {o.id : o \in AllObjects(q)} \cap (1..p.lastObject)
  BY ONLY <1>7, CutTakesSources
<1> QED BY <1>8, <1>9

(* A cut takes exactly those of its sources that are still on its plate: no other    *)
(* object leaves the project, a source that moved to another plate included          *)
(* (mutation/geometry.rs).                                                           *)
THEOREM SceneCutTakesItsSources == Spec => CutTakesItsSources
<1> DEFINE A == (cut.pc = "read" /\ cut'.pc = "emitted" /\ cut.epoch = epoch /\ cut.plate = active.id)
                => LET sources == {cut.targets[k].id : k \in DOMAIN cut.targets} \cap IdsOn(active)
                   IN {o.id : o \in AllObjects(project)} \ sources
                        = {o.id : o \in AllObjects(project')} \cap (1..project.lastObject)
<1>1. SceneIInv /\ [Next]_vars => [A]_vars
  <2> SUFFICES ASSUME SceneIInv, Next, cut.pc = "read", cut'.pc = "emitted" PROVE A
    OBVIOUS
  <2>1. CutApply
    BY OnlyApplyApplies DEF CutNot
  <2> QED BY <2>1, ApplyTakesSources
<1>2. Spec => [][A]_vars
  <2>1. Spec => [][Next]_vars
    BY PTL DEF Spec
  <2> QED BY <1>1, <2>1, SceneAlwaysOK, PTL
<1> QED BY <1>2, PTL DEF CutTakesItsSources
=============================================================================
