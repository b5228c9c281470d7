--------------------------- MODULE GraphRowsProofs ---------------------------
(***************************************************************************)
(* Facts about rows and requests that the proofs about GraphWrite rest on. *)
(***************************************************************************)
EXTENDS GraphRows, WellFoundedInduction, TLAPS

\* A nonempty set of places has a last one: entityMap ends with a definite value of each
\* property, the last that the list gives.
LEMMA LastIsIn ==
  ASSUME NEW n \in Nat, NEW I \in SUBSET (1 .. n), I # {}
  PROVE  Last(I) \in I
<1> DEFINE T == {n - i : i \in I}
           Less == {ss \in Nat \X Nat : ss[1] < ss[2]}
<1>1. IsWellFoundedOn(Less, Nat)
  BY NatLessThanWellFounded DEF OpToRel
<1>2. T \subseteq Nat
  <2>1. \A i \in I : i \in Nat /\ i <= n
    BY SMT
  <2> QED
    BY <2>1
<1>3. T # {}
  OBVIOUS
<1>4. PICK x \in T : \A y \in T : ~(<<y, x>> \in Less)
  <2> HIDE DEF T, Less
  <2> QED
    BY <1>1, <1>2, <1>3, WFMin
<1>5. \A y \in T : x <= y
  <2> SUFFICES ASSUME NEW y \in T, y < x PROVE FALSE
    BY <1>2
  <2>1. <<y, x>> \in Nat \X Nat
    BY <1>2
  <2>2. <<y, x>> \in Less
    BY <2>1
  <2> QED
    BY <1>4, <2>2
<1>6. PICK i \in I : x = n - i
  BY <1>4
<1>7. \A j \in I : j <= i
  <2> SUFFICES ASSUME NEW j \in I PROVE j <= i
    OBVIOUS
  <2>1. n - j \in T
    OBVIOUS
  <2>2. n - i <= n - j
    BY <1>5, <1>6, <2>1
  <2>3. i \in Nat /\ j \in Nat
    BY SMT
  <2> QED
    BY <2>2, <2>3
<1> QED
  BY <1>7 DEF Last

\* The elements of a sequence, by their places.
LEMMA ElementIsIn ==
  ASSUME NEW S, NEW s \in Seq(S), NEW i \in DOMAIN s
  PROVE  s[i] \in S /\ i \in Nat
  OBVIOUS

\* The elements of a SyncGraphRequest have their types.
LEMMA SyncElements ==
  ASSUME NEW q \in SyncRequest
  PROVE  /\ \A i \in DOMAIN q.entities : q.entities[i].entity \in Entity /\ q.entities[i].doc \in Document
         /\ \A i \in DOMAIN q.links : q.links[i].type \in LinkType /\ i \in Nat
         /\ \E n \in Nat : DOMAIN q.entities = 1 .. n
<1> DEFINE E == [entity : Entity, doc : Document]
           L == [from : Reference, to : Reference, type : LinkType]
<1>1. q.entities \in Seq(E) /\ q.links \in Seq(L)
  BY DEF SyncRequest
<1>2. ASSUME NEW i \in DOMAIN q.entities PROVE q.entities[i] \in E
  BY <1>1, ElementIsIn
<1>3. ASSUME NEW i \in DOMAIN q.links PROVE q.links[i] \in L /\ i \in Nat
  BY <1>1, ElementIsIn
<1>4. DOMAIN q.entities = 1 .. Len(q.entities) /\ Len(q.entities) \in Nat
  BY <1>1
<1> QED
  BY <1>2, <1>3, <1>4

\* The elements of a SyncTemporalPropertyRequest have their types.
LEMMA UpsertElements ==
  ASSUME NEW q \in UpsertRequest, NEW i \in DOMAIN q.points
  PROVE  /\ q.points[i].entity \in Entity
         /\ q.points[i].period \in Period \cup {NoPeriod}
         /\ q.points[i].reading \in Reading
         /\ i \in Nat
<1> DEFINE P == [entity : Entity, period : Period \cup {NoPeriod}, reading : Reading]
<1>1. q.points \in Seq(P)
  BY DEF UpsertRequest
<1>2. q.points[i] \in P /\ i \in Nat
  BY <1>1, ElementIsIn
<1> QED
  BY <1>2

\* The two kinds of request are told apart by their fields.
LEMMA SyncIsSync ==
  ASSUME NEW q \in Request
  PROVE  IF IsSync(q) THEN q \in SyncRequest ELSE q \in UpsertRequest
<1>1. ASSUME q \in SyncRequest PROVE IsSync(q)
  BY <1>1 DEF SyncRequest, IsSync
<1>2. ASSUME q \in UpsertRequest PROVE ~IsSync(q)
  BY <1>2 DEF UpsertRequest, IsSync
<1> QED
  BY <1>1, <1>2 DEF Request

\* What a request names are entities.
LEMMA NamedAreEntities ==
  ASSUME NEW q \in Request
  PROVE  Named(q) \subseteq Entity
<1>1. ASSUME IsSync(q) PROVE Named(q) \subseteq Entity
  BY <1>1, SyncIsSync, SyncElements DEF Named
<1>2. ASSUME ~IsSync(q) PROVE Named(q) \subseteq Entity
  <2>1. q \in UpsertRequest
    BY <1>2, SyncIsSync
  <2> QED
    BY <1>2, <2>1, UpsertElements DEF Named
<1> QED
  BY <1>1, <1>2

\* mergeJSONProperties makes a document.
LEMMA MergedIsDocument ==
  ASSUME NEW q \in SyncRequest, NEW e
  PROVE  Merged(q, e) \in Document
<1> DEFINE D == Documents(q, e)
           F == UNION {DOMAIN q.entities[i].doc : i \in D}
<1>1. ASSUME D = {} PROVE Merged(q, e) \in Document
  BY <1>1 DEF Merged, Document
<1>2. ASSUME D # {} PROVE Merged(q, e) \in Document
  <2>1. PICK n \in Nat : DOMAIN q.entities = 1 .. n
    BY SyncElements
  <2>2. \A i \in DOMAIN q.entities : q.entities[i].doc \in Document
    BY SyncElements
  <2>3. \A i \in D : \E G \in SUBSET Field : q.entities[i].doc \in [G -> Value]
    BY <2>2 DEF Documents, Document
  <2>4. F \in SUBSET Field
    BY <2>3
  <2>5. ASSUME NEW g \in F PROVE q.entities[Last(Mentions(q, e, g))].doc[g] \in Value
    <3>1. Mentions(q, e, g) \in SUBSET (1 .. n) /\ Mentions(q, e, g) # {}
      BY <2>1 DEF Mentions, Documents
    <3>2. Last(Mentions(q, e, g)) \in Mentions(q, e, g)
      BY <3>1, LastIsIn
    <3>3. /\ Last(Mentions(q, e, g)) \in D
          /\ g \in DOMAIN q.entities[Last(Mentions(q, e, g))].doc
      BY <3>2 DEF Mentions
    <3> QED
      BY <2>3, <3>3
  <2>6. Merged(q, e) = [g \in F |-> q.entities[Last(Mentions(q, e, g))].doc[g]]
    BY <1>2 DEF Merged
  <2>7. Merged(q, e) \in [F -> Value]
    BY <2>5, <2>6
  <2> QED
    BY <2>4, <2>7 DEF Document
<1> QED
  BY <1>1, <1>2

\* An upsert leaves a row of the same kind, and leaves one: no conflict clause deletes.
LEMMA UpsertedIsContent ==
  ASSUME NEW row \in Row, NEW old \in Content(row) \cup {NoRow}, NEW new \in Content(row)
  PROVE  Upserted(row, old, new) \in Content(row) /\ Upserted(row, old, new) # NoRow
<1>1. NoRow \notin Content(row)
  BY ValueAssumption DEF Content
<1>2. ASSUME row \in Entity, old # NoRow, new # Null, old # Null
      PROVE  Over(new, old) \in Document
  <2>1. PICK G \in SUBSET Field : new \in [G -> Value]
    BY <1>2 DEF Content, Document
  <2>2. PICK H \in SUBSET Field : old \in [H -> Value]
    BY <1>2 DEF Content, Document
  <2>3. Over(new, old) \in [G \cup H -> Value]
    BY <2>1, <2>2 DEF Over
  <2>4. G \cup H \in SUBSET Field
    OBVIOUS
  <2> QED
    BY <2>3, <2>4 DEF Document
<1>3. Upserted(row, old, new) \in Content(row)
  <2>1. ASSUME row \in Entity, old # NoRow PROVE Upserted(row, old, new) \in Content(row)
    <3>1. Upserted(row, old, new) = MergeInTable(old, new)
      BY <2>1 DEF Upserted
    <3>2. MergeInTable(old, new) \in Document
      BY <1>2, <2>1 DEF MergeInTable, Content, Document
    <3> QED
      BY <2>1, <3>1, <3>2 DEF Content
  <2>2. ASSUME ~(row \in Entity /\ old # NoRow) PROVE Upserted(row, old, new) \in Content(row)
    BY <2>2 DEF Upserted
  <2> QED
    BY <2>1, <2>2
<1> QED
  BY <1>1, <1>3

\* The upserts of entities are of entities the request names: of all of them for SyncGraph,
\* without properties and of unknown ones for UpsertDataPoints.
LEMMA EntityTasksTyped ==
  ASSUME NEW q \in Request, NEW K \in SUBSET Entity, NEW t \in EntityTasks(q, K)
  PROVE  /\ t \in Task /\ t.row \in Named(q) /\ t.row \in Entity
         /\ t.new \in Content(t.row)
         /\ IF IsSync(q) THEN t.new = Merged(q, t.row) ELSE t.new = Null /\ t.row \notin K
<1>1. t.row \in Named(q) /\ t.part = 0
  BY DEF EntityTasks
<1>2. t.row \in Entity
  BY <1>1, NamedAreEntities
<1>3. IF IsSync(q) THEN t.new = Merged(q, t.row) ELSE t.new = Null /\ t.row \notin K
  BY DEF EntityTasks
<1>4. t.new \in Document
  <2>1. IsSync(q) => Merged(q, t.row) \in Document
    BY SyncIsSync, MergedIsDocument
  <2> QED
    BY <1>3, <2>1 DEF Document
<1>5. t = [row |-> t.row, new |-> t.new, part |-> t.part]
  BY DEF EntityTasks
<1>6. t \in Task
  BY <1>1, <1>2, <1>4, <1>5 DEF Task, Row
<1> QED
  BY <1>1, <1>2, <1>3, <1>4, <1>6 DEF Content

\* Edges and points are of entities whose ids the statement has.
LEMMA DependentTasksTyped ==
  ASSUME NEW q \in Request, NEW I \in SUBSET Entity, NEW t \in DependentTasks(q, I)
  PROVE  /\ t \in Task /\ t.row \notin Entity
         /\ t.new \in Content(t.row)
         /\ Owners(t.row) \subseteq I
<1>1. ASSUME IsSync(q)
      PROVE  /\ t.row \in I \X I
             /\ t.new \in LinkType
             /\ t.part \in Nat
  <2>1. t \in [row : I \X I, new : LinkType, part : DOMAIN q.links]
    BY <1>1 DEF DependentTasks, LinkTasks
  <2> QED
    BY <1>1, <2>1, SyncIsSync, SyncElements
<1>2. ASSUME ~IsSync(q)
      PROVE  /\ t.row \in I \X (Period \cup {NoPeriod})
             /\ t.new \in Reading
             /\ t.part \in Nat
  <2>1. PICK d \in I \X DOMAIN q.points :
          t = [row |-> <<d[1], q.points[d[2]].period>>, new |-> q.points[d[2]].reading, part |-> d[2]]
    BY <1>2 DEF DependentTasks, PointTasks
  <2>2. q \in UpsertRequest
    BY <1>2, SyncIsSync
  <2>3. /\ q.points[d[2]].period \in Period \cup {NoPeriod}
        /\ q.points[d[2]].reading \in Reading
        /\ d[2] \in Nat
    BY <2>2, UpsertElements
  <2> QED
    BY <2>1, <2>3
<1>3. ASSUME t.row \in I \X I, t.new \in LinkType
      PROVE  /\ t.row \in Edge /\ t.row \notin Entity
             /\ t.new \in Content(t.row) /\ Owners(t.row) \subseteq I
  <2>1. t.row \in Edge /\ t.row \notin Entity
    BY <1>3, RowAssumption DEF Edge
  <2> QED
    BY <1>3, <2>1 DEF Content, Owners
<1>4. ASSUME t.row \in I \X (Period \cup {NoPeriod}), t.new \in Reading
      PROVE  /\ t.row \in Point /\ t.row \notin Entity
             /\ t.new \in Content(t.row) /\ Owners(t.row) \subseteq I
  <2>1. t.row \in Point /\ t.row \notin Entity /\ t.row \notin Edge
    BY <1>4, RowAssumption DEF Point
  <2> QED
    BY <1>4, <2>1 DEF Content, Owners
<1>5. t = [row |-> t.row, new |-> t.new, part |-> t.part]
  BY DEF DependentTasks, LinkTasks, PointTasks
<1>6. t \in Task
  BY <1>1, <1>2, <1>3, <1>4, <1>5 DEF Task, Row
<1> QED
  BY <1>1, <1>2, <1>3, <1>4, <1>6

\* More ids, more links and points.
LEMMA DependentTasksGrow ==
  ASSUME NEW q, NEW I, NEW J, I \subseteq J
  PROVE  DependentTasks(q, I) \subseteq DependentTasks(q, J)
<1>1. LinkTasks(q, I) \subseteq LinkTasks(q, J)
  BY DEF LinkTasks
<1>2. PointTasks(q, I) \subseteq PointTasks(q, J)
  BY DEF PointTasks
<1> QED
  BY <1>1, <1>2 DEF DependentTasks

\* The owner of an entity is the entity itself; what owns a row is an entity.
LEMMA OwnersAreEntities ==
  ASSUME NEW row \in Row
  PROVE  /\ Owners(row) \subseteq Entity
         /\ row \in Entity => Owners(row) = {row}
  BY DEF Row, Edge, Point, Owners

=============================================================================
