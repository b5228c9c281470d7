-------------------------- MODULE IngestBatchProofs --------------------------
(***************************************************************************)
(* For every batch: what the aggregation keeps of a message, and what the  *)
(* statement of the request leaves of it in the tables.                    *)
(***************************************************************************)
EXTENDS IngestBatch, GraphRowsProofs

-----------------------------------------------------------------------------
(***************************************************************************)
(* Choices the aggregation makes.                                          *)
(***************************************************************************)

LEMMA SmallestIsThere ==
  ASSUME NEW I \in SUBSET Nat, I # {}
  PROVE  \E i \in I : \A j \in I : i <= j
<1> DEFINE Less == {ss \in Nat \X Nat : ss[1] < ss[2]}
<1>1. IsWellFoundedOn(Less, Nat)
  BY NatLessThanWellFounded DEF OpToRel
<1>2. PICK i \in I : \A j \in I : ~(<<j, i>> \in Less)
  <2> HIDE DEF Less
  <2> QED
    BY <1>1, WFMin
<1>3. ASSUME NEW j \in I, j < i PROVE FALSE
  <2>1. <<j, i>> \in Less
    BY <1>3
  <2> QED
    BY <1>2, <2>1
<1> QED
  BY <1>3

\* One of the latest values of a key stays, whichever it is.
LEMMA NewestIsLatest ==
  ASSUME NEW batch, NEW I \in SUBSET Nat, I # {}, NEW b \in Nat,
         \A i \in I : DateIn(batch, i) \in 0..b
  PROVE  /\ Newest(batch, I) \in I
         /\ \A j \in I : DateIn(batch, j) <= DateIn(batch, Newest(batch, I))
<1> DEFINE D == [i \in I |-> DateIn(batch, i)]
<1>d. D \in [I -> 0..b] /\ \A i \in I : D[i] = DateIn(batch, i)
  OBVIOUS
<1> HIDE DEF D
<1>1. PICK m \in I : \A j \in I : D[j] <= D[m]
  <2> DEFINE T == {b - D[i] : i \in I}
  <2>1. T \in SUBSET Nat /\ T # {}
    <3>1. \A i \in I : b - D[i] \in Nat
      BY <1>d
    <3> QED
      BY <3>1
  <2>2. PICK x \in T : \A y \in T : x <= y
    <3> HIDE DEF T
    <3> QED
      BY <2>1, SmallestIsThere
  <2>3. PICK m \in I : x = b - D[m]
    OBVIOUS
  <2>4. ASSUME NEW j \in I PROVE D[j] <= D[m]
    <3>1. b - D[m] <= b - D[j]
      BY <2>2, <2>3
    <3> QED
      BY <1>d, <3>1
  <2> QED
    BY <2>4
<1>2. PICK n \in {i \in I : D[i] = D[m]} : \A j \in {i \in I : D[i] = D[m]} : n <= j
  <2> DEFINE J == {i \in I : D[i] = D[m]}
  <2>1. J \in SUBSET Nat /\ J # {}
    OBVIOUS
  <2> HIDE DEF J
  <2>2. \E i \in J : \A j \in J : i <= j
    BY <2>1, SmallestIsThere
  <2> QED
    BY <2>2 DEF J
<1>3. \A j \in I : D[n] > D[j] \/ (D[n] = D[j] /\ n <= j)
  BY <1>d, <1>1, <1>2
<1>4. Newest(batch, I) = CHOOSE i \in I : \A j \in I : D[i] > D[j] \/ (D[i] = D[j] /\ i <= j)
  BY <1>d DEF Newest
<1>5. /\ Newest(batch, I) \in I
      /\ \A j \in I : D[Newest(batch, I)] > D[j] \/ D[Newest(batch, I)] = D[j]
  BY <1>3, <1>4
<1>6. ASSUME NEW j \in I PROVE D[j] <= D[Newest(batch, I)]
  <2>1. D[j] \in 0..b /\ D[Newest(batch, I)] \in 0..b
    BY <1>d, <1>5
  <2>2. D[Newest(batch, I)] > D[j] \/ D[Newest(batch, I)] = D[j]
    BY <1>5
  <2> QED
    BY <2>1, <2>2
<1> QED
  BY <1>d, <1>5, <1>6

\* If the messages of a key come in the order of their dates, the last of them stays.
LEMMA NewestIsLast ==
  ASSUME NEW batch, NEW I \in SUBSET Nat, NEW b \in Nat,
         \A j \in I : DateIn(batch, j) \in 0..b,
         NEW i \in I,
         \A j \in I : j <= i /\ (j < i => DateIn(batch, j) < DateIn(batch, i))
  PROVE  Newest(batch, I) = i
<1> DEFINE m == Newest(batch, I)
<1>1. m \in I /\ DateIn(batch, i) <= DateIn(batch, m)
  BY NewestIsLatest
<1> HIDE DEF m
<1>2. DateIn(batch, i) \in 0..b /\ DateIn(batch, m) \in 0..b
  BY <1>1
<1>3. m <= i /\ ~(m < i)
  BY <1>1, <1>2
<1>4. m \in Nat /\ i \in Nat
  BY <1>1
<1>5. m = i
  BY <1>3, <1>4
<1> QED
  BY <1>5 DEF m

\* The first of some places, by message and then by place in the message.
LEMMA FirstIsIn ==
  ASSUME NEW P, P # {}, \A p \in P : \E i \in Nat, k \in Nat : p = <<i, k>>
  PROVE  First(P) \in P
<1>1. \A p \in P : p[1] \in Nat /\ p[2] \in Nat
  OBVIOUS
<1>2. PICK p1 \in P : \A o \in P : p1[1] <= o[1]
  <2> DEFINE I == {p[1] : p \in P}
  <2>1. I \in SUBSET Nat /\ I # {}
    BY <1>1
  <2> HIDE DEF I
  <2>2. PICK i \in I : \A j \in I : i <= j
    BY <2>1, SmallestIsThere
  <2> QED
    BY <2>2 DEF I
<1>3. PICK p \in P : p[1] = p1[1] /\ \A o \in P : o[1] = p1[1] => p[2] <= o[2]
  <2> DEFINE Q == {p \in P : p[1] = p1[1]}
             K == {p[2] : p \in Q}
  <2>1. K \in SUBSET Nat /\ K # {}
    BY <1>1
  <2> HIDE DEF K
  <2>2. PICK k \in K : \A j \in K : k <= j
    BY <2>1, SmallestIsThere
  <2> QED
    BY <2>2 DEF K
<1>4. \A o \in P : p[1] < o[1] \/ (p[1] = o[1] /\ p[2] <= o[2])
  BY <1>1, <1>2, <1>3
<1> QED
  BY <1>4 DEF First

-----------------------------------------------------------------------------
(***************************************************************************)
(* The statement.                                                          *)
(***************************************************************************)

\* The parts of a request have their types; its places need not be a list.
Fits(q) ==
  IF IsSync(q)
  THEN /\ \A i \in DOMAIN q.entities : q.entities[i].entity \in Entity
       /\ \A e \in Named(q) : Merged(q, e) \in Document
       /\ \A i \in DOMAIN q.links : q.links[i].type \in LinkType
  ELSE \A i \in DOMAIN q.points : /\ q.points[i].entity \in Entity
                                  /\ q.points[i].period \in Period \cup {NoPeriod}
                                  /\ q.points[i].reading \in Reading

RowsFit(rows) == DOMAIN rows = Row /\ \A row \in Row : rows[row] \in Content(row) \cup {NoRow}

LEMMA NamedFit == ASSUME NEW q, Fits(q) PROVE Named(q) \subseteq Entity
BY DEF Fits, Named

LEMMA FoundFit == ASSUME NEW q, Fits(q), NEW rows, NEW seen \in SUBSET Entity PROVE Found(q, rows, seen) \subseteq Entity
BY NamedFit DEF Found, Resolved, EntityUpserts, EntityTasks

LEMMA TasksFit ==
  ASSUME NEW q, Fits(q), NEW rows, NEW seen \in SUBSET Entity, NEW t \in Tasks(q, rows, seen)
  PROVE  t.row \in Row /\ t.new \in Content(t.row)
<1>1. CASE t \in EntityTasks(q, seen)
  <2>1. t.row \in Named(q) /\ t.new \in {Null, Merged(q, t.row)}
        /\ (t.new # Null => IsSync(q))
    BY <1>1 DEF EntityTasks
  <2>2. t.row \in Entity /\ t.new \in Document
    BY <2>1, NamedFit DEF Fits, Document
  <2> QED
    BY <2>2 DEF Row, Content
<1>2. CASE t \in DependentTasks(q, Found(q, rows, seen)) /\ IsSync(q)
  <2>1. t \in [row : Found(q, rows, seen) \X Found(q, rows, seen), new : LinkType, part : DOMAIN q.links]
    BY <1>2 DEF DependentTasks, LinkTasks
  <2>2. t.row \in Edge /\ t.new \in LinkType
    BY <2>1, FoundFit DEF Edge
  <2>3. t.row \notin Entity
    BY <2>2, RowAssumption
  <2> QED
    BY <2>2, <2>3 DEF Row, Content
<1>3. CASE t \in DependentTasks(q, Found(q, rows, seen)) /\ ~IsSync(q)
  <2>1. PICK d \in Found(q, rows, seen) \X DOMAIN q.points :
          t = [row |-> <<d[1], q.points[d[2]].period>>, new |-> q.points[d[2]].reading, part |-> d[2]]
    BY <1>3 DEF DependentTasks, PointTasks
  <2>2. t.row \in Point /\ t.new \in Reading
    BY <1>3, <2>1, FoundFit DEF Fits, Point
  <2>3. t.row \notin Entity /\ t.row \notin Edge
    BY <2>2, RowAssumption
  <2> QED
    BY <2>2, <2>3 DEF Row, Content
<1> QED
  BY <1>1, <1>2, <1>3 DEF Tasks, EntityUpserts

\* A row of the result is the row before, or one upsert of the statement made it of that row;
\* if there is such an upsert, it is as after one of them.
LEMMA ResultOf ==
  ASSUME NEW q, NEW rows, NEW seen \in SUBSET Entity, NEW row \in Row
  PROVE  LET own == {t \in Tasks(q, rows, seen) : t.row = row}
         IN  /\ \/ Result(q, rows, seen)[row] = rows[row] /\ own = {}
                \/ \E t \in own : Result(q, rows, seen)[row] = Upserted(row, rows[row], t.new)
             /\ DOMAIN Result(q, rows, seen) = Row
<1> DEFINE own == {t \in Tasks(q, rows, seen) : t.row = row}
           changing == {t \in Tasks(q, rows, seen) : Changes(t, rows)}
           new == [r \in {t.row : t \in changing} |-> (CHOOSE t \in changing : t.row = r).new]
<1>1. Result(q, rows, seen) = [r \in Row |-> IF r \in DOMAIN new THEN Upserted(r, rows[r], new[r]) ELSE rows[r]]
  BY DEF Result
<1>2. CASE \E t \in changing : t.row = row
  <2>1. PICK t \in changing : t.row = row /\ t = CHOOSE s \in changing : s.row = row
    BY <1>2
  <2>2. row \in DOMAIN new /\ new[row] = t.new
    BY <2>1
  <2>3. Result(q, rows, seen)[row] = Upserted(row, rows[row], t.new)
    BY <1>1, <2>2
  <2> QED
    BY <1>1, <2>1, <2>3
<1>3. CASE ~\E t \in changing : t.row = row
  <2>1. Result(q, rows, seen)[row] = rows[row]
    BY <1>1, <1>3
  <2>2. \A t \in own : Upserted(row, rows[row], t.new) = rows[row]
    BY <1>3 DEF Changes
  <2> QED
    BY <1>1, <2>1, <2>2
<1> QED
  BY <1>2, <1>3

\* No row is lost, every upsert leaves its row, and rows keep their types.
LEMMA RowsOnlyGrow ==
  ASSUME NEW q, Fits(q), NEW rows, NEW seen \in SUBSET Entity, RowsFit(rows)
  PROVE  /\ RowsFit(Result(q, rows, seen))
         /\ \A row \in Row : rows[row] # NoRow => Result(q, rows, seen)[row] # NoRow
         /\ \A t \in Tasks(q, rows, seen) : Result(q, rows, seen)[t.row] # NoRow
<1>1. ASSUME NEW row \in Row
      PROVE  /\ Result(q, rows, seen)[row] \in Content(row) \cup {NoRow}
             /\ rows[row] # NoRow \/ (\E t \in Tasks(q, rows, seen) : t.row = row) =>
                  Result(q, rows, seen)[row] # NoRow
             /\ DOMAIN Result(q, rows, seen) = Row
  <2>1. CASE Result(q, rows, seen)[row] = rows[row] /\ ~\E t \in Tasks(q, rows, seen) : t.row = row
    BY <2>1, ResultOf DEF RowsFit
  <2>2. CASE \E t \in Tasks(q, rows, seen) :
               t.row = row /\ Result(q, rows, seen)[row] = Upserted(row, rows[row], t.new)
    <3>1. PICK t \in Tasks(q, rows, seen) :
            t.row = row /\ Result(q, rows, seen)[row] = Upserted(row, rows[row], t.new)
      BY <2>2
    <3>2. t.new \in Content(row)
      BY <3>1, TasksFit
    <3>3. /\ Upserted(row, rows[row], t.new) \in Content(row)
          /\ Upserted(row, rows[row], t.new) # NoRow
      BY <3>2, UpsertedIsContent DEF RowsFit
    <3> QED
      BY <3>1, <3>3, ResultOf
  <2> QED
    BY <2>1, <2>2, ResultOf
<1>2. DOMAIN Result(q, rows, seen) = Row
  BY DEF Result
<1>3. \A t \in Tasks(q, rows, seen) : t.row \in Row
  BY TasksFit
<1> QED
  BY <1>1, <1>2, <1>3 DEF RowsFit

\* An entity a statement names is one it works on, unless another call has inserted it since
\* the statement's snapshot.
LEMMA FoundUnlessUnseen ==
  ASSUME NEW q, NEW rows, NEW seen \in SUBSET Entity, IsSync(q),
         NEW e \in Named(q), RefOf[e] \notin Unseen(q, rows, seen)
  PROVE  e \in Found(q, rows, seen)
<1> DEFINE t == [row |-> e, new |-> Merged(q, e), part |-> 0]
<1>1. t \in EntityUpserts(q, seen) /\ t.row = e
  BY DEF EntityUpserts, EntityTasks
<1> HIDE DEF t
<1>2. e \in seen \/ Changes(t, rows)
  BY <1>1 DEF Unseen
<1>3. RefOf[e] \in References(q)
  BY DEF References
<1> QED
  BY <1>1, <1>2, <1>3 DEF Found, Resolved

\* UpsertDataPoints works on every entity it names, or inserts it twice and is refused.
LEMMA NamedAreFound ==
  ASSUME NEW q, Fits(q), ~IsSync(q), NEW rows, NEW seen \in SUBSET Entity, CanPass(q, rows, seen)
  PROVE  Named(q) \subseteq Found(q, rows, seen)
<1> SUFFICES ASSUME NEW e \in Named(q), e \notin seen PROVE e \in Found(q, rows, seen)
  BY DEF Found, Resolved
<1> DEFINE t == [row |-> e, new |-> Null, part |-> 0]
<1>1. t \in EntityUpserts(q, seen) /\ t.row = e /\ t.new = Null
  BY DEF EntityUpserts, EntityTasks
<1> HIDE DEF t
<1>2. e \in Entity
  BY NamedFit
<1>3. rows[e] = NoRow
  BY <1>1, <1>2 DEF CanPass, Tasks, Duplicated
<1>4. Null # NoRow
  BY ValueAssumption DEF Document
<1>5. Changes(t, rows)
  BY <1>1, <1>3, <1>4 DEF Changes, Upserted
<1> QED
  BY <1>1, <1>5 DEF Found, Resolved

-----------------------------------------------------------------------------
(***************************************************************************)
(* The properties of entities.                                             *)
(***************************************************************************)

\* A batch of n messages that parse.
IsBatch(t, batch, n) ==
  /\ n \in Nat
  /\ DOMAIN batch = 1..n
  /\ \A i \in 1..n : batch[i] \in MessageOf[t]

\* Values with the dates a batch of n messages gives them can be stored.
Storable(n) == Raw \cup (Raw \X (0..(MaxDate + n))) \subseteq Value

LEMMA MessageTypes ==
  /\ MessageOf["entity-properties"] = PropertyMessage
  /\ MessageOf["temporal-data"] = PointMessage
  /\ MessageOf["entities-edges"] = GraphMessage
BY DEF MessageOf, Topic

LEMMA DatesFit ==
  ASSUME NEW n, NEW batch, IsBatch("entity-properties", batch, n), NEW i \in 1..n
  PROVE  /\ batch[i].entity \in Entity /\ batch[i].field \in Field /\ batch[i].value \in Raw
         /\ DateIn(batch, i) \in 0..(MaxDate + n)
         /\ MaxDate + n \in Nat
<1>1. batch[i] \in PropertyMessage /\ n \in Nat /\ MaxDate \in Nat
  BY MessageTypes, DateAssumption DEF IsBatch
<1>2. batch[i].date \in 0..MaxDate \cup {NoDate}
  BY <1>1 DEF PropertyMessage, Date
<1>3. CASE batch[i].date = NoDate
  BY <1>1, <1>3 DEF DateIn, PropertyMessage
<1>4. CASE batch[i].date # NoDate
  BY <1>1, <1>2, <1>4 DEF DateIn, PropertyMessage
<1> QED
  BY <1>3, <1>4

FieldsOf(batch, e) == {batch[i].field : i \in {i \in DOMAIN batch : batch[i].entity = e}}

\* The document of an entity has all fields the batch has of it.
LEMMA Document1Fits ==
  ASSUME NEW n, NEW batch, IsBatch("entity-properties", batch, n), Storable(n), NEW e
  PROVE  /\ FieldsOf(batch, e) \in SUBSET Field
         /\ Document1(batch, e) \in [FieldsOf(batch, e) -> Value]
<1> DEFINE mine == {i \in DOMAIN batch : batch[i].entity = e}
           F == {batch[i].field : i \in mine}
           N(x) == Newest(batch, {i \in mine : batch[i].field = x})
<1>1. mine \subseteq 1..n /\ n \in Nat
  BY DEF IsBatch
<1>2. F \in SUBSET Field
  BY <1>1, DatesFit
<1>3. ASSUME NEW x \in F PROVE <<batch[N(x)].value, DateIn(batch, N(x))>> \in Value
  <2> DEFINE I == {i \in mine : batch[i].field = x}
  <2>1. I \in SUBSET Nat /\ I # {} /\ I \subseteq 1..n
    BY <1>1
  <2>2. \A i \in I : DateIn(batch, i) \in 0..(MaxDate + n)
    BY <2>1, DatesFit
  <2>3. MaxDate + n \in Nat
    BY <1>1, DateAssumption
  <2>4. Newest(batch, I) \in 1..n
    <3> HIDE DEF I
    <3> QED
      BY <2>1, <2>2, <2>3, NewestIsLatest
  <2>5. batch[N(x)].value \in Raw /\ DateIn(batch, N(x)) \in 0..(MaxDate + n)
    BY <2>4, DatesFit
  <2> HIDE DEF N
  <2> QED
    BY <2>5 DEF Storable
<1>4. Document1(batch, e) = [x \in F |-> <<batch[N(x)].value, DateIn(batch, N(x))>>]
  BY DEF Document1
<1>5. F = FieldsOf(batch, e)
  BY DEF FieldsOf
<1> HIDE DEF N
<1> QED
  BY <1>2, <1>3, <1>4, <1>5

\* Of each entity the request has one document, with its fields.
LEMMA PropertyMerged ==
  ASSUME NEW n, NEW batch, IsBatch("entity-properties", batch, n), Storable(n), NEW i \in 1..n
  PROVE  LET q == PropertyRequest(batch)
             e == batch[i].entity
         IN  /\ e \in Named(q)
             /\ Merged(q, e) \in Document
             /\ Merged(q, e) # Null
             /\ Merged(q, e) = Document1(batch, e)
             /\ batch[i].field \in DOMAIN Merged(q, e)
<1> DEFINE q == PropertyRequest(batch)
           e == batch[i].entity
           mine == {j \in DOMAIN batch : batch[j].entity = e}
           F == FieldsOf(batch, e)
           doc == Document1(batch, e)
           firsts == {j \in DOMAIN batch : \A k \in 1..(j - 1) : batch[k].entity # batch[j].entity}
<1>1. n \in Nat /\ DOMAIN batch = 1..n
  BY DEF IsBatch
<1>2. PICK m \in mine : \A j \in mine : m <= j
  <2>1. mine \in SUBSET Nat /\ mine # {}
    BY <1>1
  <2> HIDE DEF mine
  <2> QED
    BY <2>1, SmallestIsThere
<1>3. m \in firsts /\ \A j \in firsts : batch[j].entity = e => j = m
  <2>1. \A k \in 1..(m - 1) : batch[k].entity # e
    <3> SUFFICES ASSUME NEW k \in 1..(m - 1), batch[k].entity = e PROVE FALSE
      OBVIOUS
    <3>1. k \in mine
      BY <1>1, <1>2
    <3> QED
      BY <1>1, <1>2, <3>1
  <2>2. ASSUME NEW j \in firsts, batch[j].entity = e PROVE j = m
    <3>1. m <= j /\ ~(m \in 1..(j - 1))
      BY <1>2, <2>2
    <3> QED
      BY <1>1, <1>2, <2>2, <3>1
  <2> QED
    BY <1>2, <2>1, <2>2
<1> HIDE DEF q, doc, F
<1>4. /\ DOMAIN q.entities = firsts
      /\ \A j \in firsts : /\ q.entities[j].entity = batch[j].entity
                           /\ q.entities[j].doc = Document1(batch, batch[j].entity)
  BY DEF q, PropertyRequest
<1>5. F \in SUBSET Field /\ doc \in [F -> Value] /\ doc # Null
  <2>1. F \in SUBSET Field /\ doc \in [F -> Value]
    BY Document1Fits DEF doc, F
  <2> QED
    BY <2>1, NullAssumption
<1>6. q.entities[m].entity = e /\ q.entities[m].doc = doc
  <2>1. batch[m].entity = e
    BY <1>2
  <2> HIDE DEF firsts
  <2> QED
    BY <1>3, <1>4, <2>1 DEF doc
<1>e. \A j \in firsts : q.entities[j].entity = batch[j].entity
  BY <1>4
<1> HIDE DEF firsts, mine
<1>7. Documents(q, e) = {m}
  BY <1>3, <1>4, <1>5, <1>6, <1>e DEF Documents
<1>8. \A x \in F : Mentions(q, e, x) = {m}
  BY <1>5, <1>6, <1>7 DEF Mentions
<1>9. Last({m}) = m
  BY <1>1, <1>2 DEF Last, mine
<1>10. Merged(q, e) = [x \in F |-> doc[x]]
  <2>1. UNION {DOMAIN q.entities[j].doc : j \in Documents(q, e)} = F
    BY <1>5, <1>6, <1>7
  <2>2. \A x \in F : q.entities[Last(Mentions(q, e, x))].doc[x] = doc[x]
    BY <1>6, <1>8, <1>9
  <2> QED
    BY <1>7, <2>1, <2>2 DEF Merged
<1>11. Merged(q, e) \in [F -> Value] /\ Merged(q, e) = doc
  BY <1>5, <1>10
<1>12. e \in Named(q)
  <2>1. IsSync(q)
    BY DEF q, PropertyRequest, IsSync
  <2> QED
    BY <1>3, <1>4, <1>6, <2>1 DEF Named
<1>13. batch[i].field \in F
  BY <1>1 DEF F, FieldsOf
<1> QED
  BY <1>5, <1>11, <1>12, <1>13, NullAssumption DEF Document, q, doc

\* The entity of a batch's message is an entity whose document the request has.
LEMMA PropertyFits ==
  ASSUME NEW n, NEW batch, IsBatch("entity-properties", batch, n), Storable(n)
  PROVE  LET q == PropertyRequest(batch)
         IN  /\ Fits(q) /\ IsSync(q) /\ q.links = <<>>
             /\ \A e \in Named(q) : Merged(q, e) \in Document \ {Null}
<1> DEFINE q == PropertyRequest(batch)
<1>1. IsSync(q) /\ q.links = <<>> /\ DOMAIN q.entities \subseteq 1..n
      /\ \A i \in DOMAIN q.entities : q.entities[i].entity = batch[i].entity
  BY DEF PropertyRequest, IsSync, IsBatch
<1> HIDE DEF q
<1>2. \A e \in Named(q) : \E i \in 1..n : e = batch[i].entity
  BY <1>1 DEF Named
<1>3. \A e \in Named(q) : Merged(q, e) \in Document \ {Null}
  BY <1>2, PropertyMerged DEF q
<1>4. \A i \in DOMAIN q.entities : q.entities[i].entity \in Entity
  BY <1>1, DatesFit
<1>5. DOMAIN q.links = {}
  BY <1>1
<1>6. Fits(q)
  BY <1>1, <1>3, <1>4, <1>5 DEF Fits
<1> QED
  BY <1>1, <1>3, <1>6 DEF q

\* The entity has the field, whatever its value.
Has(rows, e, f) == rows[e] \notin {NoRow, Null} /\ f \in DOMAIN rows[e]

\* A merge keeps the fields of both sides.
LEMMA UpsertKeepsFields ==
  ASSUME NEW e \in Entity, NEW old \in Document \cup {NoRow}, NEW new \in Document, new # Null
  PROVE  LET after == Upserted(e, old, new)
         IN  /\ after \notin {NoRow, Null}
             /\ \A f \in DOMAIN new : f \in DOMAIN after
             /\ old \notin {NoRow, Null} => \A f \in DOMAIN old : f \in DOMAIN after
<1>1. new # NoRow
  BY ValueAssumption
<1>2. CASE old \in {NoRow, Null}
  BY <1>1, <1>2 DEF Upserted, MergeInTable
<1>3. CASE old \notin {NoRow, Null}
  <2>1. Upserted(e, old, new) = Over(new, old)
    BY <1>3 DEF Upserted, MergeInTable
  <2>2. PICK G \in SUBSET Field : new \in [G -> Value]
    BY DEF Document
  <2>3. PICK H \in SUBSET Field : old \in [H -> Value]
    BY <1>3 DEF Document
  <2>4. Over(new, old) \in [G \cup H -> Value] /\ G \cup H \in SUBSET Field
    BY <2>2, <2>3 DEF Over
  <2>5. Over(new, old) # Null
    BY <2>4, NullAssumption
  <2>6. Over(new, old) \in Document
    BY <2>4 DEF Document
  <2>7. Over(new, old) # NoRow
    BY <2>6, ValueAssumption
  <2> QED
    BY <2>1, <2>2, <2>3, <2>4, <2>5, <2>7
<1> QED
  BY <1>2, <1>3

\* The fields of the new document have its values, the others the old ones.
LEMMA UpsertOverrides ==
  ASSUME NEW e \in Entity, NEW old \in Document \cup {NoRow}, NEW new \in Document, new # Null
  PROVE  LET after == Upserted(e, old, new)
         IN  /\ \A f \in DOMAIN new : after[f] = new[f]
             /\ old \notin {NoRow, Null} =>
                  \A f \in DOMAIN old : f \notin DOMAIN new => after[f] = old[f]
<1>1. CASE old \in {NoRow, Null}
  BY <1>1 DEF Upserted, MergeInTable
<1>2. CASE old \notin {NoRow, Null}
  <2>1. Upserted(e, old, new) = Over(new, old)
    BY <1>2 DEF Upserted, MergeInTable
  <2> QED
    BY <1>2, <2>1 DEF Over
<1> QED
  BY <1>1, <1>2

\* The statement merges its document into every entity of the batch and leaves the others alone.
LEMMA PropertiesUpserted ==
  ASSUME NEW n, NEW batch, IsBatch("entity-properties", batch, n), Storable(n),
         NEW rows, NEW seen \in SUBSET Entity, NEW e \in Entity
  PROVE  LET q == PropertyRequest(batch)
             after == Result(q, rows, seen)
         IN  \/ e \notin Named(q) /\ after[e] = rows[e]
             \/ e \in Named(q) /\ after[e] = Upserted(e, rows[e], Merged(q, e))
<1> DEFINE q == PropertyRequest(batch)
           after == Result(q, rows, seen)
<1>q. Fits(q) /\ IsSync(q) /\ q.links = <<>>
  BY PropertyFits
<1> HIDE DEF q
<1>1. Tasks(q, rows, seen) = {[row |-> d, new |-> Merged(q, d), part |-> 0] : d \in Named(q)}
  <2>1. DOMAIN q.links = {}
    BY <1>q
  <2>2. DependentTasks(q, Found(q, rows, seen)) = {}
    BY <1>q, <2>1 DEF DependentTasks, LinkTasks
  <2> QED
    BY <1>q, <2>2 DEF Tasks, EntityUpserts, EntityTasks
<1>2. e \in Row
  BY DEF Row
<1>3. CASE e \notin Named(q)
  <2>1. ~\E t \in Tasks(q, rows, seen) : t.row = e
    BY <1>1, <1>3
  <2> QED
    BY <1>2, <1>3, <2>1, ResultOf DEF q
<1>4. CASE e \in Named(q)
  <2>1. [row |-> e, new |-> Merged(q, e), part |-> 0] \in {t \in Tasks(q, rows, seen) : t.row = e}
    BY <1>1, <1>4
  <2>2. \E t \in {t \in Tasks(q, rows, seen) : t.row = e} : after[e] = Upserted(e, rows[e], t.new)
    BY <1>2, <2>1, ResultOf
  <2>3. \A t \in {t \in Tasks(q, rows, seen) : t.row = e} : t.new = Merged(q, e)
    BY <1>1
  <2> QED
    BY <1>4, <2>2, <2>3 DEF q
<1> QED
  BY <1>3, <1>4 DEF q

\* The statement gives every entity of the batch its fields and takes none from any entity.
LEMMA PropertiesStay ==
  ASSUME NEW n, NEW batch, IsBatch("entity-properties", batch, n), Storable(n),
         NEW rows, NEW seen \in SUBSET Entity, RowsFit(rows)
  PROVE  LET after == Result(PropertyRequest(batch), rows, seen)
         IN  /\ \A i \in 1..n : Has(after, batch[i].entity, batch[i].field)
             /\ \A e \in Entity : \A f : Has(rows, e, f) => Has(after, e, f)
<1> DEFINE q == PropertyRequest(batch)
           after == Result(q, rows, seen)
<1>q. \A e \in Named(q) : Merged(q, e) \in Document \ {Null}
  BY PropertyFits
<1>1. \A e \in Entity : \/ e \notin Named(q) /\ after[e] = rows[e]
                        \/ e \in Named(q) /\ after[e] = Upserted(e, rows[e], Merged(q, e))
  BY PropertiesUpserted
<1> HIDE DEF q, after
<1>2. ASSUME NEW e \in Entity PROVE rows[e] \in Document \cup {NoRow}
  BY DEF RowsFit, Row, Content
<1>3. ASSUME NEW e \in Entity, NEW f, Has(rows, e, f) PROVE Has(after, e, f)
  <2>1. CASE after[e] = rows[e]
    BY <1>3, <2>1 DEF Has
  <2>2. CASE e \in Named(q) /\ after[e] = Upserted(e, rows[e], Merged(q, e))
    BY <1>3, <2>2, <1>q, <1>2, UpsertKeepsFields DEF Has
  <2> QED
    BY <1>1, <2>1, <2>2
<1>4. ASSUME NEW i \in 1..n PROVE Has(after, batch[i].entity, batch[i].field)
  <2>1. /\ batch[i].entity \in Named(q) /\ batch[i].entity \in Entity
        /\ batch[i].field \in DOMAIN Merged(q, batch[i].entity)
    BY PropertyMerged, DatesFit DEF q
  <2>2. after[batch[i].entity] = Upserted(batch[i].entity, rows[batch[i].entity], Merged(q, batch[i].entity))
    BY <1>1, <2>1
  <2> QED
    BY <1>q, <1>2, <2>1, <2>2, UpsertKeepsFields DEF Has
<1> QED
  BY <1>3, <1>4 DEF after, q

\* The messages of the batch that are about the same as message i.
FieldRivals(batch, i) ==
  {j \in DOMAIN batch : batch[j].entity = batch[i].entity /\ batch[j].field = batch[i].field}

\* The field of a message that is the last of its rivals, if these come in the order of their
\* dates, has its value.
LEMMA PropertyShown ==
  ASSUME NEW n, NEW batch, IsBatch("entity-properties", batch, n), Storable(n),
         NEW rows, NEW seen \in SUBSET Entity, RowsFit(rows), NEW i \in 1..n,
         \A j \in FieldRivals(batch, i) : j <= i /\ (j < i => DateIn(batch, j) < DateIn(batch, i))
  PROVE  Result(PropertyRequest(batch), rows, seen)[batch[i].entity][batch[i].field][1] = batch[i].value
<1> DEFINE q == PropertyRequest(batch)
           after == Result(q, rows, seen)
           e == batch[i].entity
           x == batch[i].field
<1>1. /\ e \in Entity /\ e \in Named(q)
      /\ Merged(q, e) \in Document /\ Merged(q, e) # Null
      /\ Merged(q, e) = Document1(batch, e) /\ x \in DOMAIN Merged(q, e)
  BY PropertyMerged, DatesFit
<1>2. after[e] = Upserted(e, rows[e], Merged(q, e))
  BY <1>1, PropertiesUpserted
<1> HIDE DEF q, after
<1>3. rows[e] \in Document \cup {NoRow}
  BY <1>1 DEF RowsFit, Row, Content
<1>4. after[e][x] = Document1(batch, e)[x]
  BY <1>1, <1>2, <1>3, UpsertOverrides
<1>5. Newest(batch, FieldRivals(batch, i)) = i
  <2>1. FieldRivals(batch, i) \subseteq 1..n /\ i \in FieldRivals(batch, i) /\ n \in Nat
    BY DEF FieldRivals, IsBatch
  <2>2. \A j \in FieldRivals(batch, i) : DateIn(batch, j) \in 0..(MaxDate + n)
    BY <2>1, DatesFit
  <2>3. MaxDate + n \in Nat
    BY <2>1, DateAssumption
  <2> QED
    BY <2>1, <2>2, <2>3, NewestIsLast
<1>6. Document1(batch, e)[x] = <<batch[i].value, DateIn(batch, i)>>
  <2> DEFINE mine == {j \in DOMAIN batch : batch[j].entity = e}
             F == {batch[j].field : j \in mine}
             N(y) == Newest(batch, {j \in mine : batch[j].field = y})
  <2>1. Document1(batch, e) = [y \in F |-> <<batch[N(y)].value, DateIn(batch, N(y))>>]
    BY DEF Document1
  <2>2. x \in F
    BY DEF IsBatch
  <2>3. {j \in mine : batch[j].field = x} = FieldRivals(batch, i)
    BY DEF FieldRivals
  <2>4. N(x) = i
    BY <1>5, <2>3
  <2> HIDE DEF F, N, x, e
  <2> QED
    BY <2>1, <2>2, <2>4
<1> QED
  BY <1>4, <1>6 DEF after, q

\* A field the batch has nothing of keeps its value.
LEMMA PropertyKept ==
  ASSUME NEW n, NEW batch, IsBatch("entity-properties", batch, n), Storable(n),
         NEW rows, NEW seen \in SUBSET Entity, RowsFit(rows), NEW e \in Entity, NEW x, Has(rows, e, x),
         ~\E j \in 1..n : batch[j].entity = e /\ batch[j].field = x
  PROVE  Result(PropertyRequest(batch), rows, seen)[e][x] = rows[e][x]
<1> DEFINE q == PropertyRequest(batch)
           after == Result(q, rows, seen)
<1>1. \/ e \notin Named(q) /\ after[e] = rows[e]
      \/ e \in Named(q) /\ after[e] = Upserted(e, rows[e], Merged(q, e))
  BY PropertiesUpserted
<1>2. e \in Named(q) =>
        /\ Merged(q, e) \in Document /\ Merged(q, e) # Null
        /\ x \notin DOMAIN Merged(q, e)
  <2> SUFFICES ASSUME e \in Named(q)
               PROVE  /\ Merged(q, e) \in Document /\ Merged(q, e) # Null
                      /\ x \notin DOMAIN Merged(q, e)
    OBVIOUS
  <2>1. PICK i \in 1..n : batch[i].entity = e
    BY DEF Named, PropertyRequest, IsSync, IsBatch
  <2>2. /\ Merged(q, e) \in Document /\ Merged(q, e) # Null
        /\ Merged(q, e) = Document1(batch, e)
    BY <2>1, PropertyMerged
  <2>3. DOMAIN Document1(batch, e) = FieldsOf(batch, e)
    BY Document1Fits
  <2>4. x \notin FieldsOf(batch, e)
    BY DEF FieldsOf, IsBatch
  <2> QED
    BY <2>2, <2>3, <2>4
<1> HIDE DEF q, after
<1>3. rows[e] \in Document /\ rows[e] \notin {NoRow, Null} /\ x \in DOMAIN rows[e]
  BY DEF RowsFit, Row, Content, Has
<1> QED
  BY <1>1, <1>2, <1>3, UpsertOverrides DEF after, q

-----------------------------------------------------------------------------
(***************************************************************************)
(* The data points.                                                        *)
(***************************************************************************)

LEMMA PointTypes ==
  ASSUME NEW n, NEW batch, IsBatch("temporal-data", batch, n), NEW i \in 1..n
  PROVE  /\ batch[i].entity \in Entity /\ batch[i].value \in Raw
         /\ batch[i].date \in 0..MaxDate /\ DateIn(batch, i) = batch[i].date
         /\ PeriodOf[batch[i].series][batch[i].date] \in Period \cup {NoPeriod}
<1>1. batch[i] \in PointMessage
  BY MessageTypes DEF IsBatch
<1>2. batch[i].entity \in Entity /\ batch[i].value \in Raw /\ batch[i].series \in Series
      /\ batch[i].date \in Date
  BY <1>1 DEF PointMessage
<1>3. DateIn(batch, i) = batch[i].date
  BY <1>2, DateAssumption DEF DateIn
<1>4. PeriodOf[batch[i].series] \in [Date -> Period \cup {NoPeriod}]
  BY <1>2, PeriodAssumption
<1> QED
  BY <1>2, <1>3, <1>4 DEF Date

\* What the map keeps of the points: of each entity and series one of the latest.
LEMMA KeptPoints ==
  ASSUME NEW n, NEW batch, IsBatch("temporal-data", batch, n)
  PROVE  LET q == PointRequest(batch)
         IN  /\ ~IsSync(q) /\ DOMAIN q.points \subseteq 1..n
             /\ \A m \in DOMAIN q.points :
                  /\ q.points[m].entity = batch[m].entity
                  /\ q.points[m].period = PeriodOf[batch[m].series][batch[m].date]
                  /\ q.points[m].reading = [value |-> batch[m].value, date |-> batch[m].date]
             /\ \A i \in 1..n : \E m \in DOMAIN q.points :
                  /\ batch[m].entity = batch[i].entity /\ batch[m].series = batch[i].series
                  /\ batch[m].date >= batch[i].date
<1> DEFINE q == PointRequest(batch)
           Rivals(i) == {j \in DOMAIN batch : /\ batch[j].entity = batch[i].entity
                                              /\ batch[j].series = batch[i].series}
           Kept == {Newest(batch, Rivals(i)) : i \in DOMAIN batch}
<1>1. n \in Nat /\ DOMAIN batch = 1..n /\ MaxDate \in Nat
  BY DateAssumption DEF IsBatch
<1>2. ASSUME NEW i \in 1..n
      PROVE  /\ Newest(batch, Rivals(i)) \in Rivals(i)
             /\ batch[Newest(batch, Rivals(i))].date >= batch[i].date
  <2> DEFINE I == Rivals(i)
  <2>1. I \in SUBSET Nat /\ i \in I /\ I \subseteq 1..n
    BY <1>1
  <2> HIDE DEF I
  <2>2. ASSUME NEW j \in I PROVE DateIn(batch, j) \in 0..MaxDate /\ DateIn(batch, j) = batch[j].date
    <3>1. j \in 1..n
      BY <2>1
    <3>2. batch[j].date \in 0..MaxDate /\ DateIn(batch, j) = batch[j].date
      BY <3>1, PointTypes
    <3> QED
      BY <3>2
  <2>3. Newest(batch, I) \in I /\ DateIn(batch, i) <= DateIn(batch, Newest(batch, I))
    BY <1>1, <2>1, <2>2, NewestIsLatest
  <2>4. batch[i].date \in 0..MaxDate /\ batch[Newest(batch, I)].date \in 0..MaxDate
    BY <2>1, <2>2, <2>3
  <2>5. batch[i].date <= batch[Newest(batch, I)].date
    BY <2>1, <2>2, <2>3
  <2> QED
    BY <2>3, <2>4, <2>5 DEF I
<1>3. /\ ~IsSync(q) /\ DOMAIN q.points = Kept
      /\ \A m \in Kept :
           /\ q.points[m].entity = batch[m].entity
           /\ q.points[m].period = PeriodOf[batch[m].series][batch[m].date]
           /\ q.points[m].reading = [value |-> batch[m].value, date |-> batch[m].date]
  BY DEF PointRequest, IsSync
<1>4. Kept \subseteq 1..n
  BY <1>1, <1>2
<1>5. ASSUME NEW i \in 1..n
      PROVE  \E m \in Kept : /\ batch[m].entity = batch[i].entity /\ batch[m].series = batch[i].series
                             /\ batch[m].date >= batch[i].date
  <2> DEFINE m == Newest(batch, Rivals(i))
  <2>1. m \in Kept
    BY <1>1
  <2>2. batch[m].entity = batch[i].entity /\ batch[m].series = batch[i].series
    BY <1>2
  <2> HIDE DEF Kept
  <2> QED
    BY <1>2, <2>1, <2>2
<1> HIDE DEF q, Kept
<1> QED
  BY <1>3, <1>4, <1>5 DEF q

\* Every point of the batch is in the tables, or a newer one of its series is.
LEMMA PointsStay ==
  ASSUME NEW n, NEW batch, IsBatch("temporal-data", batch, n), Storable(n),
         NEW rows, NEW seen \in SUBSET Entity
  PROVE  LET q == PointRequest(batch)
         IN  /\ Fits(q)
             /\ RowsFit(rows) /\ CanPass(q, rows, seen) =>
                  \A i \in 1..n :
                    \/ Result(q, rows, seen)[<<batch[i].entity, PeriodOf[batch[i].series][batch[i].date]>>] # NoRow
                    \/ \E j \in 1..n : /\ batch[j].entity = batch[i].entity
                                       /\ batch[j].series = batch[i].series
                                       /\ batch[j].date > batch[i].date
<1> DEFINE q == PointRequest(batch)
<1>q. /\ ~IsSync(q) /\ DOMAIN q.points \subseteq 1..n
      /\ \A m \in DOMAIN q.points :
           /\ q.points[m].entity = batch[m].entity
           /\ q.points[m].period = PeriodOf[batch[m].series][batch[m].date]
           /\ q.points[m].reading = [value |-> batch[m].value, date |-> batch[m].date]
      /\ \A i \in 1..n : \E m \in DOMAIN q.points :
           /\ batch[m].entity = batch[i].entity /\ batch[m].series = batch[i].series
           /\ batch[m].date >= batch[i].date
  BY KeptPoints
<1> HIDE DEF q
<1>1. Fits(q)
  <2> SUFFICES ASSUME NEW m \in DOMAIN q.points
               PROVE  /\ q.points[m].entity \in Entity
                      /\ q.points[m].period \in Period \cup {NoPeriod}
                      /\ q.points[m].reading \in Reading
    BY <1>q DEF Fits
  <2>1. m \in 1..n
    BY <1>q
  <2>2. batch[m].value \in Value /\ batch[m].date \in Nat
    BY <2>1, PointTypes, DateAssumption DEF Storable
  <2>3. [value |-> batch[m].value, date |-> batch[m].date] \in Reading
    BY <2>2 DEF Reading
  <2>4. batch[m].entity \in Entity
        /\ PeriodOf[batch[m].series][batch[m].date] \in Period \cup {NoPeriod}
    BY <2>1, PointTypes
  <2> QED
    BY <1>q, <2>3, <2>4
<1>2. ASSUME RowsFit(rows), CanPass(q, rows, seen), NEW m \in DOMAIN q.points
      PROVE  Result(q, rows, seen)[<<batch[m].entity, PeriodOf[batch[m].series][batch[m].date]>>] # NoRow
  <2> DEFINE e == q.points[m].entity
             t == [row |-> <<e, q.points[m].period>>, new |-> q.points[m].reading, part |-> m]
  <2>1. e \in Found(q, rows, seen)
    BY <1>1, <1>2, <1>q, NamedAreFound DEF Named
  <2>2. <<e, m>> \in {d \in Found(q, rows, seen) \X DOMAIN q.points : RefOf[d[1]] = RefOf[q.points[d[2]].entity]}
    BY <2>1
  <2>3. t \in PointTasks(q, Found(q, rows, seen))
    <3>1. t = [row |-> <<<<e, m>>[1], q.points[<<e, m>>[2]].period>>,
               new |-> q.points[<<e, m>>[2]].reading, part |-> <<e, m>>[2]]
      OBVIOUS
    <3> HIDE DEF t
    <3> QED
      BY <2>2, <3>1 DEF PointTasks
  <2>4. t \in Tasks(q, rows, seen)
    BY <1>q, <2>3 DEF Tasks, DependentTasks
  <2>5. t.row = <<batch[m].entity, PeriodOf[batch[m].series][batch[m].date]>>
    BY <1>q
  <2> HIDE DEF t
  <2> QED
    BY <1>1, <1>2, <2>4, <2>5, RowsOnlyGrow
<1>3. ASSUME RowsFit(rows), CanPass(q, rows, seen), NEW i \in 1..n
      PROVE  \/ Result(q, rows, seen)[<<batch[i].entity, PeriodOf[batch[i].series][batch[i].date]>>] # NoRow
             \/ \E j \in 1..n : /\ batch[j].entity = batch[i].entity
                                /\ batch[j].series = batch[i].series
                                /\ batch[j].date > batch[i].date
  <2>1. PICK m \in DOMAIN q.points :
          /\ batch[m].entity = batch[i].entity /\ batch[m].series = batch[i].series
          /\ batch[m].date >= batch[i].date
    BY <1>q
  <2>2. m \in 1..n
    BY <1>q
  <2>3. CASE batch[m].date = batch[i].date
    BY <1>2, <1>3, <2>1, <2>3
  <2>4. CASE batch[m].date # batch[i].date
    <3>1. batch[m].date \in 0..MaxDate /\ batch[i].date \in 0..MaxDate /\ MaxDate \in Nat
      BY <2>2, PointTypes, DateAssumption
    <3>2. batch[m].date > batch[i].date
      BY <2>1, <2>4, <3>1
    <3> QED
      BY <2>1, <2>2, <3>2
  <2> QED
    BY <2>3, <2>4
<1> QED
  BY <1>1, <1>3 DEF q

\* The messages of the batch that are about the series of message i.
SeriesRivals(batch, i) ==
  {j \in DOMAIN batch : batch[j].entity = batch[i].entity /\ batch[j].series = batch[i].series}

\* A point that is kept is the newest of its rivals.
LEMMA KeptIsNewest ==
  ASSUME NEW batch, NEW m \in DOMAIN PointRequest(batch).points
  PROVE  \E i \in DOMAIN batch : m = Newest(batch, SeriesRivals(batch, i))
BY DEF PointRequest, SeriesRivals

\* The upsert has the reading of the kept point m, for an entity e of its reference.
IsUpsertOf(t, batch, m, e) ==
  /\ m \in DOMAIN PointRequest(batch).points
  /\ e \in Entity /\ RefOf[e] = RefOf[batch[m].entity]
  /\ t.row = <<e, PeriodOf[batch[m].series][batch[m].date]>>
  /\ t.new = [value |-> batch[m].value, date |-> batch[m].date]

\* So it is with all upserts of points.
LEMMA PointTasksAre ==
  ASSUME NEW n, NEW batch, IsBatch("temporal-data", batch, n), NEW rows, NEW seen \in SUBSET Entity,
         NEW t \in Tasks(PointRequest(batch), rows, seen), t.row \notin Entity
  PROVE  \E m, e : IsUpsertOf(t, batch, m, e)
<1> DEFINE q == PointRequest(batch)
<1>q. /\ ~IsSync(q) /\ DOMAIN q.points \subseteq 1..n
      /\ \A m \in DOMAIN q.points :
           /\ q.points[m].entity = batch[m].entity
           /\ q.points[m].period = PeriodOf[batch[m].series][batch[m].date]
           /\ q.points[m].reading = [value |-> batch[m].value, date |-> batch[m].date]
  BY KeptPoints
<1> HIDE DEF q
<1>1. Named(q) \subseteq Entity
  <2>1. ASSUME NEW m \in DOMAIN q.points PROVE q.points[m].entity \in Entity
    <3>1. m \in 1..n /\ q.points[m].entity = batch[m].entity
      BY <1>q
    <3>2. batch[m].entity \in Entity
      BY <3>1, PointTypes
    <3> QED
      BY <3>1, <3>2
  <2> QED
    BY <1>q, <2>1 DEF Named
<1>2. t \notin EntityTasks(q, seen)
  BY <1>1 DEF EntityTasks
<1>3. t \in PointTasks(q, Found(q, rows, seen))
  BY <1>q, <1>2 DEF q, Tasks, EntityUpserts, DependentTasks
<1>4. PICK d \in Found(q, rows, seen) \X DOMAIN q.points :
        /\ RefOf[d[1]] = RefOf[q.points[d[2]].entity]
        /\ t = [row |-> <<d[1], q.points[d[2]].period>>, new |-> q.points[d[2]].reading, part |-> d[2]]
  BY <1>3 DEF PointTasks
<1>5. d[1] \in Entity /\ d[2] \in DOMAIN q.points
  BY <1>1, <1>q DEF Found, Resolved
<1>6. t.row = <<d[1], q.points[d[2]].period>> /\ t.new = q.points[d[2]].reading
  BY <1>4
<1>7. IsUpsertOf(t, batch, d[2], d[1])
  BY <1>q, <1>4, <1>5, <1>6 DEF q, IsUpsertOf
<1> QED
  BY <1>7

\* The batch names no other entity of the reference of e.
Alone(batch, e) == \A j \in DOMAIN batch : RefOf[batch[j].entity] = RefOf[e] => batch[j].entity = e

\* The upserts of a point's row, if no two entities of the batch share a reference: they are
\* those of points of its entity and series.
LEMMA PointTasksOf ==
  ASSUME NEW n, NEW batch, IsBatch("temporal-data", batch, n), NEW rows, NEW seen \in SUBSET Entity,
         CanPass(PointRequest(batch), rows, seen),
         NEW e \in Entity, NEW s \in Series, NEW d \in Date,
         Alone(batch, e),
         NEW t \in Tasks(PointRequest(batch), rows, seen), t.row = <<e, PeriodOf[s][d]>>
  PROVE  \E m : IsUpsertOf(t, batch, m, e) /\ batch[m].series = s
<1>1. t.row \in Point /\ t.row \notin Entity
  <2>1. PeriodOf[s][d] \in Period \cup {NoPeriod}
    BY PeriodAssumption
  <2>2. t.row \in Point
    BY <2>1 DEF Point
  <2> QED
    BY <2>2, RowAssumption
<1>2. PICK m, a : IsUpsertOf(t, batch, m, a)
  BY <1>1, PointTasksAre
<1>3. a = e /\ PeriodOf[batch[m].series][batch[m].date] = PeriodOf[s][d]
  BY <1>2 DEF IsUpsertOf
<1>4. m \in 1..n
  BY <1>2, KeptPoints DEF IsUpsertOf
<1>6. PeriodOf[s][d] # NoPeriod
  BY <1>1 DEF CanPass, Timeless
<1>7. batch[m].series \in Series /\ batch[m].date \in Date
  BY <1>4, MessageTypes DEF IsBatch, PointMessage
<1>8. batch[m].series = s
  BY <1>3, <1>6, <1>7, PeriodAssumption
<1> QED
  BY <1>2, <1>3, <1>8

\* The period of a message that is the last of its rivals, if these come in the order of their
\* dates, has its value.
LEMMA PointShown ==
  ASSUME NEW n, NEW batch, IsBatch("temporal-data", batch, n), Storable(n), NEW rows, NEW seen \in SUBSET Entity,
         RowsFit(rows), CanPass(PointRequest(batch), rows, seen), NEW i \in 1..n, Alone(batch, batch[i].entity),
         \A j \in SeriesRivals(batch, i) : j <= i /\ (j < i => DateIn(batch, j) < DateIn(batch, i))
  PROVE  LET row == <<batch[i].entity, PeriodOf[batch[i].series][batch[i].date]>>
             after == Result(PointRequest(batch), rows, seen)
         IN  after[row] # NoRow /\ after[row].value = batch[i].value
<1> DEFINE q == PointRequest(batch)
           after == Result(q, rows, seen)
           row == <<batch[i].entity, PeriodOf[batch[i].series][batch[i].date]>>
           reading == [value |-> batch[i].value, date |-> batch[i].date]
<1>q. /\ ~IsSync(q) /\ DOMAIN q.points \subseteq 1..n
      /\ \A m \in DOMAIN q.points :
           /\ q.points[m].entity = batch[m].entity
           /\ q.points[m].period = PeriodOf[batch[m].series][batch[m].date]
           /\ q.points[m].reading = [value |-> batch[m].value, date |-> batch[m].date]
  BY KeptPoints
<1>1. /\ batch[i].entity \in Entity /\ batch[i].series \in Series /\ batch[i].date \in Date
      /\ batch[i].value \in Value
      /\ DOMAIN batch = 1..n /\ n \in Nat
  BY MessageTypes DEF IsBatch, PointMessage, Storable
<1>2. row \in Row /\ row \notin Entity /\ row \notin Edge
  <2>1. row \in Point
    BY <1>1, PeriodAssumption DEF Point
  <2> QED
    BY <2>1, RowAssumption DEF Row
<1>3. Newest(batch, SeriesRivals(batch, i)) = i
  <2>1. SeriesRivals(batch, i) \subseteq 1..n /\ i \in SeriesRivals(batch, i)
    BY <1>1 DEF SeriesRivals
  <2>2. \A j \in SeriesRivals(batch, i) : DateIn(batch, j) \in 0..MaxDate
    BY <2>1, PointTypes
  <2> QED
    BY <1>1, <2>1, <2>2, DateAssumption, NewestIsLast
<1>4. ASSUME NEW m \in DOMAIN q.points, batch[m].entity = batch[i].entity,
             batch[m].series = batch[i].series
      PROVE  m = i
  <2>1. PICK k \in DOMAIN batch : m = Newest(batch, SeriesRivals(batch, k))
    BY KeptIsNewest
  <2>2. m \in SeriesRivals(batch, k)
    <3>1. SeriesRivals(batch, k) \subseteq 1..n /\ k \in SeriesRivals(batch, k)
      BY <1>1, <2>1 DEF SeriesRivals
    <3>2. \A j \in SeriesRivals(batch, k) : DateIn(batch, j) \in 0..MaxDate
      BY <3>1, PointTypes
    <3> QED
      BY <2>1, <3>1, <3>2, DateAssumption, NewestIsLatest
  <2>3. SeriesRivals(batch, k) = SeriesRivals(batch, i)
    BY <1>4, <2>2 DEF SeriesRivals
  <2> QED
    BY <1>3, <2>1, <2>3
<1>5. after[row] # NoRow
  <2>1. ~\E j \in 1..n : /\ batch[j].entity = batch[i].entity /\ batch[j].series = batch[i].series
                         /\ batch[j].date > batch[i].date
    <3> SUFFICES ASSUME NEW j \in 1..n, batch[j].entity = batch[i].entity,
                        batch[j].series = batch[i].series, batch[j].date > batch[i].date
                 PROVE  FALSE
      OBVIOUS
    <3>1. j \in SeriesRivals(batch, i)
      BY <1>1 DEF SeriesRivals
    <3>2. /\ batch[j].date \in 0..MaxDate /\ batch[i].date \in 0..MaxDate
          /\ DateIn(batch, j) = batch[j].date /\ DateIn(batch, i) = batch[i].date
      BY PointTypes
    <3>3. j <= i /\ (j < i => batch[j].date < batch[i].date)
      BY <3>1, <3>2
    <3>4. j = i \/ batch[j].date < batch[i].date
      BY <1>1, <3>3
    <3> QED
      BY <3>2, <3>4, DateAssumption
  <2> QED
    BY <2>1, PointsStay
<1>6. ASSUME NEW t \in Tasks(q, rows, seen), t.row = row PROVE t.new = reading
  <2>1. PICK m : IsUpsertOf(t, batch, m, batch[i].entity) /\ batch[m].series = batch[i].series
    <3>1. t.row = <<batch[i].entity, PeriodOf[batch[i].series][batch[i].date]>>
      BY <1>6
    <3> HIDE DEF reading, row, after
    <3> QED
      BY <1>1, <3>1, PointTasksOf
  <2>2. m \in DOMAIN q.points /\ t.new = [value |-> batch[m].value, date |-> batch[m].date]
    BY <2>1 DEF IsUpsertOf
  <2>3. m \in 1..n /\ RefOf[batch[i].entity] = RefOf[batch[m].entity]
    BY <1>q, <2>1, <2>2 DEF IsUpsertOf
  <2>4. batch[m].entity = batch[i].entity
    BY <1>1, <2>3 DEF Alone
  <2> QED
    BY <1>4, <2>1, <2>2, <2>4
<1>7. \E t \in Tasks(q, rows, seen) : t.row = row
  <2>1. PICK m \in DOMAIN q.points :
          /\ batch[m].entity = batch[i].entity /\ batch[m].series = batch[i].series
    BY KeptPoints
  <2>2. i \in DOMAIN q.points
    BY <1>4, <2>1
  <2> DEFINE t == [row |-> <<batch[i].entity, q.points[i].period>>, new |-> q.points[i].reading, part |-> i]
  <2>3. q.points[i].entity = batch[i].entity /\ q.points[i].period = PeriodOf[batch[i].series][batch[i].date]
        /\ ~IsSync(q)
    BY <1>q, <2>2
  <2>4. batch[i].entity \in Found(q, rows, seen)
    <3>1. Fits(q) /\ CanPass(q, rows, seen)
      BY PointsStay
    <3> HIDE DEF q
    <3> QED
      BY <2>2, <2>3, <3>1, NamedAreFound DEF Named
  <2>5. <<batch[i].entity, i>> \in {d \in Found(q, rows, seen) \X DOMAIN q.points : RefOf[d[1]] = RefOf[q.points[d[2]].entity]}
    BY <2>2, <2>3, <2>4
  <2> HIDE DEF q
  <2>6. t \in PointTasks(q, Found(q, rows, seen))
    <3>1. t = [row |-> <<<<batch[i].entity, i>>[1], q.points[<<batch[i].entity, i>>[2]].period>>,
               new |-> q.points[<<batch[i].entity, i>>[2]].reading, part |-> <<batch[i].entity, i>>[2]]
      OBVIOUS
    <3> HIDE DEF t
    <3> QED
      BY <2>5, <3>1 DEF PointTasks
  <2>7. t \in Tasks(q, rows, seen)
    BY <2>3, <2>6 DEF Tasks, DependentTasks
  <2>8. t.row = row
    BY <2>3
  <2> HIDE DEF t
  <2> QED
    BY <2>7, <2>8
<1> HIDE DEF q, row
<1>8. \E t \in Tasks(q, rows, seen) : t.row = row /\ after[row] = Upserted(row, rows[row], t.new)
  BY <1>2, <1>7, ResultOf
<1>9. after[row] = Upserted(row, rows[row], reading)
  BY <1>6, <1>8
<1>10. reading.value = batch[i].value
  OBVIOUS
<1>11. after[row].value = batch[i].value
  <2>1. Upserted(row, rows[row], reading) =
          IF rows[row] = NoRow THEN reading
          ELSE IF rows[row].value = reading.value THEN rows[row] ELSE reading
    BY <1>2 DEF Upserted
  <2> HIDE DEF reading, after
  <2> QED
    BY <1>9, <1>10, <2>1
<1> QED
  BY <1>5, <1>11 DEF q, row

\* A period the batch has no point of keeps its value, if no entity of the batch shares the
\* reference of its entity.
LEMMA PointKept ==
  ASSUME NEW n, NEW batch, IsBatch("temporal-data", batch, n), NEW rows, NEW seen \in SUBSET Entity,
         CanPass(PointRequest(batch), rows, seen),
         NEW e \in Entity, NEW s \in Series, NEW d \in Date,
         Alone(batch, e),
         ~\E j \in 1..n : /\ batch[j].entity = e /\ batch[j].series = s
                          /\ PeriodOf[batch[j].series][batch[j].date] = PeriodOf[s][d]
  PROVE  Result(PointRequest(batch), rows, seen)[<<e, PeriodOf[s][d]>>] = rows[<<e, PeriodOf[s][d]>>]
<1> DEFINE q == PointRequest(batch)
           row == <<e, PeriodOf[s][d]>>
<1>1. row \in Row
  BY PeriodAssumption DEF Row, Point
<1>2. DOMAIN q.points \subseteq 1..n
  BY KeptPoints
<1>3. ASSUME NEW t \in Tasks(q, rows, seen), t.row = row PROVE FALSE
  <2>1. PICK m : IsUpsertOf(t, batch, m, e) /\ batch[m].series = s
    <3>1. t.row = <<e, PeriodOf[s][d]>>
      BY <1>3
    <3> HIDE DEF row
    <3> QED
      BY <3>1, PointTasksOf
  <2>2. m \in 1..n /\ RefOf[e] = RefOf[batch[m].entity]
        /\ PeriodOf[batch[m].series][batch[m].date] = PeriodOf[s][d]
    BY <1>2, <1>3, <2>1 DEF IsUpsertOf
  <2>3. batch[m].entity = e
    BY <2>2 DEF Alone, IsBatch
  <2> QED
    BY <2>1, <2>2, <2>3
<1> HIDE DEF q, row
<1> QED
  BY <1>1, <1>3, ResultOf DEF q, row

-----------------------------------------------------------------------------
(***************************************************************************)
(* The entities and their edges.                                           *)
(***************************************************************************)

\* The edge at place k of message i is complete.
IsEdge(batch, i, k) == k \in DOMAIN batch[i].edges /\ batch[i].edges[k] # Incomplete

LEMMA GraphTypes ==
  ASSUME NEW n, NEW batch, IsBatch("entities-edges", batch, n), NEW i \in 1..n
  PROVE  /\ batch[i].entity \in Entity
         /\ \A k : IsEdge(batch, i, k) =>
              k \in Nat /\ batch[i].edges[k].to \in Entity /\ batch[i].edges[k].type \in LinkType
<1> DEFINE E == [to : Entity, type : LinkType]
<1>1. batch[i] \in GraphMessage
  BY MessageTypes DEF IsBatch
<1>2. batch[i].entity \in Entity /\ batch[i].edges \in Seq(E \cup {Incomplete})
  BY <1>1 DEF GraphMessage
<1>3. ASSUME NEW k, IsEdge(batch, i, k) PROVE k \in Nat /\ batch[i].edges[k] \in E
  <2>1. k \in DOMAIN batch[i].edges /\ batch[i].edges[k] # Incomplete
    BY <1>3 DEF IsEdge
  <2>2. batch[i].edges[k] \in E \cup {Incomplete} /\ k \in Nat
    <3> HIDE DEF E
    <3> QED
      BY <1>2, <2>1, ElementIsIn
  <2> QED
    BY <2>1, <2>2
<1>4. \A k : IsEdge(batch, i, k) => batch[i].edges[k].to \in Entity /\ batch[i].edges[k].type \in LinkType
  BY <1>3
<1> QED
  BY <1>2, <1>3, <1>4

\* The edges of the batch, each at its place.
LEMMA LinksAre ==
  ASSUME NEW n, NEW batch, IsBatch("entities-edges", batch, n)
  PROVE  /\ \A p \in DOMAIN Links(batch) :
              \E i \in 1..n, k \in Nat :
                /\ p = <<i, k>> /\ IsEdge(batch, i, k)
                /\ Links(batch)[p].from = batch[i].entity
                /\ Links(batch)[p].to = batch[i].edges[k].to
                /\ Links(batch)[p].type = batch[i].edges[k].type
         /\ \A i \in 1..n : \A k : IsEdge(batch, i, k) => <<i, k>> \in DOMAIN Links(batch)
<1> DEFINE P == UNION {{<<i, k>> : k \in {k \in DOMAIN batch[i].edges : batch[i].edges[k] # Incomplete}} :
                         i \in DOMAIN batch}
           L == [p \in P |-> LET edge == batch[p[1]].edges[p[2]]
                             IN  [from |-> batch[p[1]].entity, to |-> edge.to, type |-> edge.type]]
<1>1. L = Links(batch) /\ DOMAIN L = P
  BY DEF Links
<1>2. DOMAIN batch = 1..n
  BY DEF IsBatch
<1>3. ASSUME NEW i \in 1..n, NEW k, IsEdge(batch, i, k)
      PROVE  /\ <<i, k>> \in P
             /\ L[<<i, k>>].from = batch[i].entity
             /\ L[<<i, k>>].to = batch[i].edges[k].to
             /\ L[<<i, k>>].type = batch[i].edges[k].type
  <2>1. <<i, k>> \in P
    BY <1>2, <1>3 DEF IsEdge
  <2>2. L[<<i, k>>] = [from |-> batch[i].entity, to |-> batch[i].edges[k].to,
                       type |-> batch[i].edges[k].type]
    <3> HIDE DEF P
    <3> QED
      BY <2>1
  <2> HIDE DEF L
  <2> QED
    BY <2>1, <2>2
<1>4. ASSUME NEW p \in P PROVE \E i \in 1..n, k \in Nat : p = <<i, k>> /\ IsEdge(batch, i, k)
  <2>1. PICK i \in DOMAIN batch : p \in {<<i, k>> : k \in {k \in DOMAIN batch[i].edges : batch[i].edges[k] # Incomplete}}
    OBVIOUS
  <2>2. PICK k \in DOMAIN batch[i].edges : batch[i].edges[k] # Incomplete /\ p = <<i, k>>
    BY <2>1
  <2>3. IsEdge(batch, i, k)
    BY <2>2 DEF IsEdge
  <2>4. k \in Nat
    BY <1>2, <2>3, GraphTypes
  <2> QED
    BY <1>2, <2>2, <2>3, <2>4
<1> HIDE DEF L, P
<1> QED
  BY <1>1, <1>3, <1>4

\* The entity a batch gives a reference has that reference; if it is that of a message, it is
\* the entity of a message.
LEMMA EntityForFits ==
  ASSUME NEW n, NEW batch, IsBatch("entities-edges", batch, n), NEW r,
         \/ \E i \in 1..n : RefOf[batch[i].entity] = r
         \/ \E p \in DOMAIN Links(batch) : RefOf[Links(batch)[p].to] = r
  PROVE  LET e == EntityFor(batch, Links(batch), r)
         IN  /\ e \in Entity /\ RefOf[e] = r
             /\ (\E i \in 1..n : RefOf[batch[i].entity] = r) => \E j \in 1..n : e = batch[j].entity
<1> DEFINE mains == {i \in DOMAIN batch : RefOf[batch[i].entity] = r}
           links == Links(batch)
           K == {k \in DOMAIN links : RefOf[links[k].to] = r}
<1>1. n \in Nat /\ DOMAIN batch = 1..n
  BY DEF IsBatch
<1>2. CASE mains # {}
  <2>1. mains \in SUBSET (1..n)
    BY <1>1
  <2>2. Last(mains) \in mains
    <3> HIDE DEF mains
    <3> QED
      BY <1>1, <1>2, <2>1, LastIsIn
  <2>3. EntityFor(batch, links, r) = batch[Last(mains)].entity
    BY <1>2 DEF EntityFor
  <2>4. Last(mains) \in 1..n /\ RefOf[batch[Last(mains)].entity] = r
    BY <2>1, <2>2
  <2> HIDE DEF mains
  <2> QED
    BY <2>3, <2>4, GraphTypes
<1>3. CASE mains = {}
  <2>1. ~\E i \in 1..n : RefOf[batch[i].entity] = r
    BY <1>1, <1>3
  <2>2. K # {} /\ \A p \in K : \E i \in Nat, k \in Nat : p = <<i, k>>
    <3>1. K # {}
      BY <2>1
    <3>2. \A p \in DOMAIN links : \E i \in 1..n, k \in Nat : p = <<i, k>>
      BY LinksAre
    <3> QED
      BY <1>1, <3>1, <3>2
  <2>3. First(K) \in K
    <3> HIDE DEF K
    <3> QED
      BY <2>2, FirstIsIn
  <2>4. EntityFor(batch, links, r) = links[First(K)].to
    BY <1>3 DEF EntityFor
  <2>5. PICK p \in DOMAIN links : First(K) = p /\ RefOf[links[p].to] = r
    BY <2>3
  <2>6. links[p].to \in Entity
    <3>1. PICK i \in 1..n, k \in Nat : IsEdge(batch, i, k) /\ links[p].to = batch[i].edges[k].to
      BY LinksAre
    <3> QED
      BY <3>1, GraphTypes
  <2> HIDE DEF K, links
  <2> QED
    BY <2>1, <2>4, <2>5, <2>6 DEF links
<1> QED
  BY <1>2, <1>3

\* The request has an entity for each reference, and every edge between its references.
LEMMA GraphRequestIs ==
  ASSUME NEW n, NEW batch, IsBatch("entities-edges", batch, n)
  PROVE  LET q == GraphRequest(batch)
             links == Links(batch)
         IN  /\ IsSync(q) /\ Fits(q)
             /\ DOMAIN q.links = DOMAIN links
             /\ \A p \in DOMAIN links : /\ q.links[p].from = RefOf[links[p].from]
                                        /\ q.links[p].to = RefOf[links[p].to]
                                        /\ q.links[p].type = links[p].type
             /\ \A r : (\E i \in 1..n : RefOf[batch[i].entity] = r)
                         \/ (\E p \in DOMAIN links : RefOf[links[p].to] = r)
                       => EntityFor(batch, links, r) \in Named(q)
<1> DEFINE q == GraphRequest(batch)
           links == Links(batch)
           refs == {RefOf[batch[i].entity] : i \in DOMAIN batch}
                     \cup {RefOf[links[k].to] : k \in DOMAIN links}
<1> HIDE DEF links
<1>1. DOMAIN batch = 1..n
  BY DEF IsBatch
<1>2. /\ IsSync(q) /\ DOMAIN q.entities = refs /\ DOMAIN q.links = DOMAIN links
      /\ \A r \in refs : q.entities[r].entity = EntityFor(batch, links, r) /\ q.entities[r].doc = Null
      /\ \A p \in DOMAIN links : /\ q.links[p].from = RefOf[links[p].from]
                                 /\ q.links[p].to = RefOf[links[p].to]
                                 /\ q.links[p].type = links[p].type
  BY DEF GraphRequest, IsSync, links
<1>3. \A r : r \in refs <=> (\E i \in 1..n : RefOf[batch[i].entity] = r)
                              \/ (\E p \in DOMAIN links : RefOf[links[p].to] = r)
  BY <1>1
<1> HIDE DEF q, refs
<1>4. \A r \in refs : EntityFor(batch, links, r) \in Named(q)
  BY <1>2 DEF Named
<1>5. Fits(q)
  <2>1. \A r \in DOMAIN q.entities : q.entities[r].entity \in Entity
    BY <1>2, <1>3, EntityForFits DEF links
  <2>2. \A e : Merged(q, e) = Null
    <3>1. \A e : Documents(q, e) = {}
      BY <1>2 DEF Documents
    <3> QED
      BY <3>1 DEF Merged
  <2>3. ASSUME NEW p \in DOMAIN q.links PROVE q.links[p].type \in LinkType
    <3>1. PICK i \in 1..n, k \in Nat : IsEdge(batch, i, k) /\ links[p].type = batch[i].edges[k].type
      BY <1>2, LinksAre DEF links
    <3> QED
      BY <1>2, <3>1, GraphTypes
  <2> QED
    BY <1>2, <2>1, <2>2, <2>3 DEF Fits, Document
<1> QED
  BY <1>2, <1>3, <1>4, <1>5 DEF q, links

\* Every entity of the batch is in the tables, or the batch gave its reference to another; and
\* every edge of it is there, between entities of these references, unless another call has inserted an end of it
\* since the statement's snapshot.
LEMMA GraphStays ==
  ASSUME NEW n, NEW batch, IsBatch("entities-edges", batch, n), 
         NEW rows, NEW seen \in SUBSET Entity, RowsFit(rows)
  PROVE  LET after == Result(GraphRequest(batch), rows, seen)
             unseen == Unseen(GraphRequest(batch), rows, seen)
             Ends(i, k) == {RefOf[batch[i].entity], RefOf[batch[i].edges[k].to]}
         IN  \A i \in 1..n :
               /\ \/ after[batch[i].entity] # NoRow
                  \/ \E j \in 1..n : /\ batch[j].entity # batch[i].entity
                                     /\ RefOf[batch[j].entity] = RefOf[batch[i].entity]
               /\ \A k : IsEdge(batch, i, k) /\ Ends(i, k) \cap unseen = {} =>
                    \E row \in Edge : /\ RefOf[row[1]] = RefOf[batch[i].entity]
                                      /\ RefOf[row[2]] = RefOf[batch[i].edges[k].to]
                                      /\ after[row] # NoRow
<1> DEFINE q == GraphRequest(batch)
           links == Links(batch)
           after == Result(q, rows, seen)
<1> HIDE DEF q, links, after
<1>q. /\ IsSync(q) /\ Fits(q)
      /\ DOMAIN q.links = DOMAIN links
      /\ \A p \in DOMAIN links : /\ q.links[p].from = RefOf[links[p].from]
                                 /\ q.links[p].to = RefOf[links[p].to]
                                 /\ q.links[p].type = links[p].type
      /\ \A r : (\E i \in 1..n : RefOf[batch[i].entity] = r)
                  \/ (\E p \in DOMAIN links : RefOf[links[p].to] = r)
                => EntityFor(batch, links, r) \in Named(q)
  BY GraphRequestIs DEF q, links
<1>t. \A t \in Tasks(q, rows, seen) : after[t.row] # NoRow
  BY <1>q, RowsOnlyGrow DEF after
<1>e. \A e \in Named(q) : after[e] # NoRow
  <2> SUFFICES ASSUME NEW e \in Named(q) PROVE after[e] # NoRow
    OBVIOUS
  <2> DEFINE t == [row |-> e, new |-> Merged(q, e), part |-> 0]
  <2>1. t \in Tasks(q, rows, seen)
    BY <1>q DEF Tasks, EntityUpserts, EntityTasks
  <2>2. t.row = e
    OBVIOUS
  <2> HIDE DEF t
  <2> QED
    BY <1>t, <2>1, <2>2
<1>1. ASSUME NEW i \in 1..n
      PROVE  \/ after[batch[i].entity] # NoRow
             \/ \E j \in 1..n : /\ batch[j].entity # batch[i].entity
                                /\ RefOf[batch[j].entity] = RefOf[batch[i].entity]
  <2> DEFINE e == EntityFor(batch, links, RefOf[batch[i].entity])
  <2> HIDE DEF e
  <2>1. e \in Named(q)
    BY <1>q DEF e
  <2>2. RefOf[e] = RefOf[batch[i].entity] /\ \E j \in 1..n : e = batch[j].entity
    BY EntityForFits DEF e, links
  <2> QED
    BY <1>e, <2>1, <2>2
<1>2. ASSUME NEW i \in 1..n, NEW k, IsEdge(batch, i, k),
             {RefOf[batch[i].entity], RefOf[batch[i].edges[k].to]} \cap Unseen(q, rows, seen) = {}
      PROVE  \E row \in Edge : /\ RefOf[row[1]] = RefOf[batch[i].entity]
                               /\ RefOf[row[2]] = RefOf[batch[i].edges[k].to]
                               /\ after[row] # NoRow
  <2> DEFINE p == <<i, k>>
             a == EntityFor(batch, links, RefOf[batch[i].entity])
             b == EntityFor(batch, links, RefOf[batch[i].edges[k].to])
             t == [row |-> <<a, b>>, new |-> links[p].type, part |-> p]
  <2>1. /\ p \in DOMAIN links
        /\ links[p].from = batch[i].entity /\ links[p].to = batch[i].edges[k].to
    <3>1. p \in DOMAIN links
      BY <1>2, LinksAre DEF links
    <3>2. PICK j \in 1..n, l \in Nat :
            /\ p = <<j, l>>
            /\ links[p].from = batch[j].entity /\ links[p].to = batch[j].edges[l].to
      BY <3>1, LinksAre DEF links
    <3>3. j = i /\ l = k
      BY <3>2
    <3> QED
      BY <3>1, <3>2, <3>3
  <2> HIDE DEF p, a, b
  <2>2. a \in Entity /\ RefOf[a] = RefOf[batch[i].entity] /\ a \in Named(q)
    BY <1>q, EntityForFits DEF a, links
  <2>3. b \in Entity /\ RefOf[b] = RefOf[batch[i].edges[k].to] /\ b \in Named(q)
    BY <1>q, <2>1, EntityForFits DEF b, links
  <2>4. a \in Found(q, rows, seen) /\ b \in Found(q, rows, seen)
    BY <1>q, <1>2, <2>2, <2>3, FoundUnlessUnseen
  <2>5. links[p].type \in LinkType
    BY <1>q, <2>1 DEF Fits
  <2>6. t \in [row : Found(q, rows, seen) \X Found(q, rows, seen), new : LinkType, part : DOMAIN q.links]
    BY <1>q, <2>1, <2>4, <2>5
  <2>7. t.row = <<a, b>> /\ t.new = links[p].type /\ t.part = p
    OBVIOUS
  <2> HIDE DEF t
  <2>8. t \in LinkTasks(q, Found(q, rows, seen))
    BY <1>q, <2>1, <2>2, <2>3, <2>6, <2>7 DEF LinkTasks
  <2>9. after[<<a, b>>] # NoRow
    BY <1>q, <1>t, <2>7, <2>8 DEF Tasks, DependentTasks
  <2>10. <<a, b>> \in Edge
    BY <2>2, <2>3 DEF Edge
  <2> QED
    BY <2>2, <2>3, <2>9, <2>10
<1> QED
  BY <1>1, <1>2 DEF after, q

=============================================================================
