-------------------------- MODULE GraphWriteProofs --------------------------
(***************************************************************************)
(* Proofs about GraphWrite for every set of entities, calls and requests:  *)
(* the inductive invariant, what it implies, and that the calls implement  *)
(* the store.                                                              *)
(***************************************************************************)
EXTENDS GraphWrite, GraphRowsProofs

\* The parts of the invariant that speak of one call.
CallOK(w) ==
  /\ \A row \in Row : Running(w) /\ lock[row] = {w} => DraftOK(w, row)
  /\ Running(w) => TaskOK(w)
  /\ SightOK(w)
  /\ st[w] = "committed" => Stored(w)

LEMMA Parts == IInv <=> TypeOK /\ RowsOK /\ \A w \in Writer : CallOK(w)
  BY DEF IInv, CallOK, DraftsOK, TasksOK, SightsOK, FoundIsStored

LEMMA PartsPrimed == (TypeOK /\ RowsOK /\ \A w \in Writer : CallOK(w))' => IInv'
  BY DEF IInv, CallOK, DraftsOK, TasksOK, SightsOK, FoundIsStored

\* The entities a statement finds are in its snapshot or its own rows.
LEMMA FoundTyped ==
  ASSUME TypeOK, NEW w \in Writer
  PROVE  /\ req[w] \in Request
         /\ Found(w) \in SUBSET Entity
         /\ Found(w) \subseteq snap[w] \cup wrote[w]
<1>1. req[w] \in Request
  BY RequestsAssumption DEF TypeOK
<1>2. snap[w] \cup (wrote[w] \cap Entity) \in SUBSET Entity
  BY DEF TypeOK
<1> QED
  BY <1>1, <1>2 DEF Found, Resolved

\* The tasks of a statement are upserts of rows.
LEMMA TasksTyped ==
  ASSUME TypeOK, NEW w \in Writer
  PROVE  /\ \A t \in EntityTasks(req[w], snap[w]) :
              /\ t \in Task /\ t.row \in Row /\ t.row \in Entity /\ t.row \in Named(req[w])
              /\ t.new \in Content(t.row)
         /\ \A t \in DependentTasks(req[w], Found(w)) :
              /\ t \in Task /\ t.row \in Row /\ t.row \notin Entity
              /\ t.new \in Content(t.row) /\ Owners(t.row) \subseteq Found(w)
<1>1. req[w] \in Request /\ snap[w] \in SUBSET Entity /\ Found(w) \in SUBSET Entity
  BY FoundTyped DEF TypeOK
<1>2. \A t \in Task : t.row \in Row
  BY DEF Task
<1> QED
  BY <1>1, <1>2, EntityTasksTyped, DependentTasksTyped

\* The tasks are a function of the request and of what the statement sees.
LEMMA TasksPrimed ==
  ASSUME NEW w \in Writer, req'[w] = req[w], snap'[w] = snap[w],
         wrote'[w] \cap Entity = wrote[w] \cap Entity
  PROVE  /\ Found(w)' = Found(w)
         /\ Named(req[w])' = Named(req[w])
         /\ IsSync(req[w])' = IsSync(req[w])
         /\ EntityTasks(req[w], snap[w])' = EntityTasks(req[w], snap[w])
         /\ DependentTasks(req[w], Found(w))' = DependentTasks(req[w], Found(w))
<1>1. Found(w)' = Found(w)
  BY DEF Found
<1> QED
  BY <1>1

\* A call is undisturbed by steps that keep off its variables and its rows.
LEMMA Undisturbed ==
  ASSUME TypeOK, NEW v \in Writer, CallOK(v),
         st'[v] = st[v], req'[v] = req[v], snap'[v] = snap[v], todo'[v] = todo[v],
         want'[v] = want[v], wrote'[v] = wrote[v],
         \A row \in Row : lock'[row] = {v} <=> lock[row] = {v},
         \A row \in Row : lock[row] = {v} => draft'[row] = draft[row] /\ table'[row] = table[row],
         \A row \in Row : table[row] # NoRow => table'[row] # NoRow
  PROVE  CallOK(v)'
<1>1. /\ Found(v)' = Found(v)
      /\ Named(req[v])' = Named(req[v])
      /\ IsSync(req[v])' = IsSync(req[v])
      /\ EntityTasks(req[v], snap[v])' = EntityTasks(req[v], snap[v])
      /\ DependentTasks(req[v], Found(v))' = DependentTasks(req[v], Found(v))
  BY TasksPrimed
<1>2. Running(v)' = Running(v)
  BY DEF Running
<1>3. ASSUME NEW row \in Row, Running(v)', lock'[row] = {v}
      PROVE  DraftOK(v, row)'
  <2>1. DraftOK(v, row) /\ lock[row] = {v}
    BY <1>2, <1>3 DEF CallOK
  <2>2. draft'[row] = draft[row] /\ table'[row] = table[row]
    BY <2>1
  <2> QED
    BY <1>1, <2>1, <2>2 DEF DraftOK
<1>4. ASSUME Running(v)' PROVE TaskOK(v)'
  <2>1. TaskOK(v)
    BY <1>2, <1>4 DEF CallOK
  <2> QED
    BY <1>1, <2>1, TasksTyped DEF TaskOK
<1>5. SightOK(v)'
  <2>1. SightOK(v) /\ snap[v] \subseteq Row /\ wrote[v] \subseteq Row
    BY DEF CallOK, TypeOK, Row
  <2> QED
    BY <1>2, <2>1 DEF SightOK
<1>6. ASSUME st'[v] = "committed" PROVE Stored(v)'
  <2>1. Stored(v)
    BY <1>6 DEF CallOK
  <2> QED
    BY <1>1, <2>1, TasksTyped DEF Stored
<1> QED
  BY <1>3, <1>4, <1>5, <1>6 DEF CallOK

\* No statement deletes: a row that is there stays there in every draft.
LEMMA DraftsKeepRows ==
  ASSUME IInv, NEW w \in Writer, Running(w), NEW row \in Row, lock[row] = {w},
         table[row] # NoRow
  PROVE  draft[row] # NoRow
<1>1. DraftOK(w, row) /\ table[row] \in Content(row) \cup {NoRow}
  BY DEF IInv, DraftsOK, TypeOK
<1>2. req[w] \in Request
  BY FoundTyped DEF IInv
<1>3. ASSUME row \in Entity, IsSync(req[w]) PROVE draft[row] # NoRow
  <2>1. Merged(req[w], row) \in Content(row)
    BY <1>2, <1>3, SyncIsSync, MergedIsDocument DEF Content
  <2>2. Upserted(row, table[row], Merged(req[w], row)) # NoRow
    BY <1>1, <2>1, UpsertedIsContent
  <2> QED
    BY <1>1, <1>3, <2>2 DEF DraftOK
<1>4. ASSUME row \in Entity, ~IsSync(req[w]) PROVE draft[row] # NoRow
  BY <1>1, <1>4 DEF DraftOK
<1>5. ASSUME row \notin Entity PROVE draft[row] # NoRow
  <2>1. PICK t \in DependentTasks(req[w], Found(w)) :
          t.row = row /\ draft[row] \in {table[row], Upserted(row, table[row], t.new)}
    BY <1>1, <1>5 DEF DraftOK
  <2>2. t.new \in Content(row)
    BY <2>1, TasksTyped DEF IInv
  <2>3. Upserted(row, table[row], t.new) # NoRow
    BY <1>1, <2>2, UpsertedIsContent
  <2> QED
    BY <2>1, <2>3
<1> QED
  BY <1>3, <1>4, <1>5

\* The initial states satisfy the invariant.
LEMMA InitOK == Init => IInv
<1> SUFFICES ASSUME Init PROVE IInv
  OBVIOUS
<1>1. TypeOK
  BY DEF Init, TypeOK
<1>2. \A w \in Writer : ~Running(w) /\ st[w] # "committed"
  BY DEF Init, Running
<1> QED
  BY <1>1, <1>2
  DEF Init, IInv, RowsOK, RowOK, DraftsOK, TasksOK, SightsOK, SightOK, FoundIsStored

\* A statement that starts sees what is committed and has every entity to upsert.
LEMMA StartStep ==
  ASSUME IInv, NEW w \in Writer, Start(w)
  PROVE  IInv'
<1> DEFINE known == {e \in Entity : table[e] # NoRow}
<1>1. /\ st[w] = "idle" /\ st' = [st EXCEPT ![w] = "entities"]
      /\ snap' = [snap EXCEPT ![w] = known]
      /\ todo' = [todo EXCEPT ![w] = EntityTasks(req[w], known)]
      /\ table' = table /\ draft' = draft /\ lock' = lock /\ req' = req
      /\ want' = want /\ wrote' = wrote
  BY DEF Start
<1>2. TypeOK
  BY DEF IInv
<1>3. st'[w] = "entities" /\ snap'[w] = known /\ wrote[w] = {} /\ want[w] = {}
  BY <1>1, <1>2 DEF IInv, TypeOK, SightsOK, SightOK
<1>4. TypeOK'
  <2>1. req[w] \in Request /\ known \in SUBSET Entity
    BY <1>2, FoundTyped
  <2>2. \A t \in EntityTasks(req[w], known) : t \in Task /\ t.new \in Content(t.row)
    BY <2>1, EntityTasksTyped
  <2> HIDE DEF known
  <2>3. \A v \in Writer : \A t \in todo'[v] : t \in Task /\ t.new \in Content(t.row)
    BY <1>1, <1>2, <2>2 DEF TypeOK
  <2>4. \A v \in Writer : want'[v] \subseteq todo'[v]
    BY <1>1, <1>2, <1>3 DEF TypeOK
  <2>5. snap' \in [Writer -> SUBSET Entity] /\ DOMAIN todo' = Writer
    BY <1>1, <1>2, <2>1 DEF TypeOK
  <2>6. st' \in [Writer -> {"idle", "entities", "dependents", "committed", "failed"}]
    BY <1>1, <1>2 DEF TypeOK
  <2> QED
    BY <1>1, <1>2, <2>3, <2>4, <2>5, <2>6 DEF TypeOK
<1>5. RowsOK'
  <2>1. \A row \in Row, v \in Writer : Running(v) => Running(v)'
    BY <1>1, <1>2 DEF Running, TypeOK
  <2> QED
    BY <1>1, <2>1 DEF IInv, RowsOK, RowOK
<1>7. ASSUME NEW v \in Writer PROVE CallOK(v)'
  <2>1. CASE v = w
    <3>1. \A row \in Row : lock[row] # {w}
      BY <1>1, <1>2 DEF IInv, RowsOK, RowOK, Running
    <3>2. TaskOK(w)'
      <4>1. EntityTasks(req[w], snap[w])' = EntityTasks(req[w], known)
        BY <1>1, <1>3
      <4>2. todo'[w] = EntityTasks(req[w], known)
        BY <1>1, <1>2 DEF TypeOK
      <4> QED
        BY <1>3, <4>1, <4>2 DEF TaskOK
    <3>3. SightOK(w)'
      BY <1>1, <1>3 DEF SightOK
    <3> QED
      BY <1>1, <1>3, <2>1, <3>1, <3>2, <3>3 DEF CallOK
  <2>2. CASE v # w
    <3>1. /\ st'[v] = st[v] /\ snap'[v] = snap[v] /\ todo'[v] = todo[v]
      BY <1>1, <1>2, <2>2 DEF TypeOK
    <3> QED
      BY <1>1, <1>2, <3>1, Parts, Undisturbed
  <2> QED
    BY <2>1, <2>2
<1> QED
  BY <1>4, <1>5, <1>7, PartsPrimed

\* A call that waits changes nothing but what it waits for.
LEMMA WaitStep ==
  ASSUME IInv, NEW w \in Writer, NEW t, Wait(w, t)
  PROVE  IInv'
<1>1. /\ t \in todo[w] /\ want' = [want EXCEPT ![w] = {t}]
      /\ table' = table /\ draft' = draft /\ lock' = lock /\ st' = st /\ req' = req
      /\ snap' = snap /\ todo' = todo /\ wrote' = wrote
  BY DEF Wait, Turn
<1>2. TypeOK
  BY DEF IInv
<1>3. DOMAIN want' = Writer /\ \A v \in Writer : want'[v] \subseteq todo[v]
  BY <1>1, <1>2 DEF TypeOK
<1>4. TypeOK'
  BY <1>1, <1>2, <1>3 DEF TypeOK
<1>5. RowsOK'
  BY <1>1 DEF IInv, RowsOK, RowOK, Running
<1>7. \A v \in Writer : Running(v)' = Running(v)
  BY <1>1 DEF Running
<1>8. ASSUME NEW v \in Writer PROVE CallOK(v)'
  <2>1. CallOK(v)
    BY Parts
  <2>2. st[v] = "idle" => v # w
    BY DEF Wait, Turn, Running
  <2>3. SightOK(v)'
    BY <1>1, <1>2, <1>7, <2>1, <2>2 DEF CallOK, SightOK, TypeOK
  <2>4. /\ Found(v)' = Found(v)
        /\ EntityTasks(req[v], snap[v])' = EntityTasks(req[v], snap[v])
        /\ DependentTasks(req[v], Found(v))' = DependentTasks(req[v], Found(v))
        /\ Named(req[v])' = Named(req[v]) /\ IsSync(req[v])' = IsSync(req[v])
    BY <1>1, TasksPrimed
  <2>5. TaskOK(v) => TaskOK(v)'
    BY <1>1, <2>4 DEF TaskOK
  <2>6. ASSUME NEW row \in Row, DraftOK(v, row) PROVE DraftOK(v, row)'
    BY <1>1, <2>4, <2>6 DEF DraftOK
  <2>7. Stored(v) => Stored(v)'
    BY <1>1, <2>4 DEF Stored
  <2> QED
    BY <1>1, <1>7, <2>1, <2>3, <2>5, <2>6, <2>7 DEF CallOK
<1> QED
  BY <1>4, <1>5, <1>8, PartsPrimed

\* A statement that has done its entities has every link and point to upsert.
LEMMA ResolveStep ==
  ASSUME IInv, NEW w \in Writer, Resolve(w)
  PROVE  IInv'
<1>1. /\ st[w] = "entities" /\ todo[w] = {}
      /\ st' = [st EXCEPT ![w] = "dependents"]
      /\ todo' = [todo EXCEPT ![w] = DependentTasks(req[w], Found(w))]
      /\ table' = table /\ draft' = draft /\ lock' = lock /\ req' = req
      /\ snap' = snap /\ want' = want /\ wrote' = wrote
  BY DEF Resolve
<1>2. TypeOK
  BY DEF IInv
<1>3. /\ st'[w] = "dependents" /\ todo'[w] = DependentTasks(req[w], Found(w))
      /\ want[w] = {} /\ Running(w)
  BY <1>1, <1>2 DEF TypeOK, Running
<1>4. TypeOK'
  <2>1. \A v \in Writer : \A t \in todo'[v] : t \in Task /\ t.new \in Content(t.row)
    BY <1>1, <1>2, TasksTyped DEF TypeOK
  <2>2. \A v \in Writer : want'[v] \subseteq todo'[v]
    BY <1>1, <1>2, <1>3 DEF TypeOK
  <2>3. st' \in [Writer -> {"idle", "entities", "dependents", "committed", "failed"}]
    BY <1>1, <1>2 DEF TypeOK
  <2>4. DOMAIN todo' = Writer
    BY <1>1, <1>2 DEF TypeOK
  <2> QED
    BY <1>1, <1>2, <2>1, <2>2, <2>3, <2>4 DEF TypeOK
<1>5. RowsOK'
  <2>1. \A v \in Writer : Running(v) => Running(v)'
    BY <1>1, <1>2 DEF Running, TypeOK
  <2> QED
    BY <1>1, <2>1 DEF IInv, RowsOK, RowOK
<1>7. ASSUME NEW v \in Writer PROVE CallOK(v)'
  <2>1. CASE v = w
    <3>1. CallOK(w)
      BY Parts
    <3>2. /\ Found(w)' = Found(w)
          /\ EntityTasks(req[w], snap[w])' = EntityTasks(req[w], snap[w])
          /\ DependentTasks(req[w], Found(w))' = DependentTasks(req[w], Found(w))
          /\ Named(req[w])' = Named(req[w]) /\ IsSync(req[w])' = IsSync(req[w])
      BY <1>1, TasksPrimed
    <3>3. ASSUME NEW row \in Row, lock[row] = {w} PROVE DraftOK(w, row)'
      <4>1. DraftOK(w, row) /\ row \in Entity
        BY <1>1, <1>3, <3>1, <3>3 DEF CallOK, DraftOK
      <4> QED
        BY <1>1, <3>2, <4>1 DEF DraftOK
    <3>4. TaskOK(w)'
      <4>1. \A t \in EntityTasks(req[w], snap[w]) : lock[t.row] = {w}
        BY <1>1, <1>3, <3>1 DEF CallOK, TaskOK
      <4> QED
        BY <1>1, <1>3, <3>2, <4>1 DEF TaskOK
    <3>5. SightOK(w)'
      BY <1>1, <1>3, <3>1 DEF CallOK, SightOK
    <3> QED
      BY <1>1, <1>3, <2>1, <3>3, <3>4, <3>5 DEF CallOK
  <2>2. CASE v # w
    <3>1. st'[v] = st[v] /\ todo'[v] = todo[v]
      BY <1>1, <1>2, <2>2 DEF TypeOK
    <3> QED
      BY <1>1, <1>2, <3>1, Parts, Undisturbed
  <2> QED
    BY <2>1, <2>2
<1> QED
  BY <1>4, <1>5, <1>7, PartsPrimed

\* An upsert works on the committed row, whoever holds it, and does what the request asks.
LEMMA UpsertStep ==
  ASSUME IInv, NEW w \in Writer, NEW t, Upsert(w, t)
  PROVE  IInv'
<1> DEFINE r == t.row
           new == Upserted(r, draft[r], t.new)
<1>1. /\ Running(w) /\ t \in todo[w] /\ lock[r] \subseteq {w} /\ ~Refused(w, t)
      /\ draft' = [draft EXCEPT ![r] = new]
      /\ lock' = [lock EXCEPT ![r] = {w}]
      /\ wrote' = [wrote EXCEPT ![w] = IF new = draft[r] THEN wrote[w] ELSE wrote[w] \cup {r}]
      /\ todo' = [todo EXCEPT ![w] = todo[w] \ {t}]
      /\ want' = [want EXCEPT ![w] = {}]
      /\ table' = table /\ st' = st /\ req' = req /\ snap' = snap
  BY DEF Upsert, Turn, Free
<1>2. TypeOK /\ CallOK(w)
  BY Parts
<1>3. t \in Task /\ r \in Row /\ t.new \in Content(r)
  BY <1>1, <1>2 DEF TypeOK, Task
<1>4. draft[r] = table[r] /\ r \notin wrote[w]
  <2>1. r \notin wrote[w]
    BY <1>1 DEF Refused
  <2>2. RowOK(r)
    BY <1>3 DEF IInv, RowsOK
  <2> QED
    BY <1>1, <2>1, <2>2 DEF RowOK
<1>5. new \in Content(r) /\ new # NoRow
  BY <1>2, <1>3, UpsertedIsContent DEF TypeOK
<1> HIDE DEF new
<1>6. /\ draft'[r] = new /\ lock'[r] = {w}
      /\ todo'[w] = todo[w] \ {t} /\ want'[w] = {}
      /\ wrote'[w] = IF new = draft[r] THEN wrote[w] ELSE wrote[w] \cup {r}
      /\ \A row \in Row : row # r => draft'[row] = draft[row] /\ lock'[row] = lock[row]
      /\ \A v \in Writer : v # w => /\ wrote'[v] = wrote[v] /\ todo'[v] = todo[v]
                                    /\ want'[v] = want[v]
  BY <1>1, <1>2, <1>3 DEF TypeOK
<1> HIDE DEF r
<1>7. TypeOK'
  <2>1. \A row \in Row : {table'[row], draft'[row]} \subseteq Content(row) \cup {NoRow}
    BY <1>1, <1>2, <1>5, <1>6 DEF TypeOK
  <2>2. lock' \in [Row -> SUBSET Writer] /\ DOMAIN draft' = Row
    BY <1>1, <1>2 DEF TypeOK
  <2>3. wrote' \in [Writer -> SUBSET Row]
    BY <1>1, <1>2, <1>3 DEF TypeOK
  <2>4. DOMAIN todo' = Writer /\ DOMAIN want' = Writer
    BY <1>1, <1>2 DEF TypeOK
  <2>5. \A v \in Writer : \A u \in todo'[v] : u \in Task /\ u.new \in Content(u.row)
    BY <1>2, <1>6 DEF TypeOK
  <2>6. \A v \in Writer : want'[v] \subseteq todo'[v]
    BY <1>2, <1>6 DEF TypeOK
  <2> QED
    BY <1>1, <1>2, <2>1, <2>2, <2>3, <2>4, <2>5, <2>6 DEF TypeOK
<1>8. RowsOK'
  <2>1. \A v \in Writer : Running(v)' = Running(v) /\ wrote[v] \subseteq wrote'[v]
    BY <1>1, <1>6 DEF Running
  <2>2. RowOK(r)'
    <3>1. r \in wrote'[w] \/ draft'[r] = table'[r]
      BY <1>1, <1>4, <1>6
    <3> QED
      BY <1>1, <1>6, <2>1, <3>1 DEF RowOK
  <2>3. ASSUME NEW row \in Row, row # r PROVE RowOK(row)'
    <3>1. RowOK(row)
      BY DEF IInv, RowsOK
    <3> QED
      BY <1>1, <1>6, <2>1, <2>3, <3>1 DEF RowOK
  <2> QED
    BY <2>2, <2>3 DEF RowsOK
<1>10. CallOK(w)'
  <2>1. TaskOK(w) /\ SightOK(w) /\ Running(w)' /\ st[w] \in {"entities", "dependents"}
    BY <1>1, <1>2 DEF CallOK, Running
  <2>2. st[w] = "dependents" => r \notin Entity /\ t \in DependentTasks(req[w], Found(w))
    BY <1>1, <1>2, <2>1, TasksTyped DEF TaskOK, r
  <2>3. st[w] = "entities" => /\ r \in Entity /\ r \in Named(req[w])
                              /\ t \in EntityTasks(req[w], snap[w])
    BY <1>1, <1>2, <2>1, TasksTyped DEF TaskOK, r
  <2>4. /\ Named(req[w])' = Named(req[w]) /\ IsSync(req[w])' = IsSync(req[w])
        /\ EntityTasks(req[w], snap[w])' = EntityTasks(req[w], snap[w])
    BY <1>1
  <2>5. st[w] = "dependents" =>
          /\ Found(w)' = Found(w)
          /\ DependentTasks(req[w], Found(w))' = DependentTasks(req[w], Found(w))
    <3>1. st[w] = "dependents" => wrote'[w] \cap Entity = wrote[w] \cap Entity
      BY <1>6, <2>2
    <3> QED
      BY <1>1, <3>1, TasksPrimed
  <2>6. DraftOK(w, r)'
    <3>1. CASE st[w] = "entities"
      <4>1. IF IsSync(req[w]) THEN t.new = Merged(req[w], r) ELSE t.new = Null
        BY <1>2, <2>3, <3>1, FoundTyped, EntityTasksTyped DEF TypeOK, r
      <4>2. IsSync(req[w]) => draft'[r] = Upserted(r, table[r], Merged(req[w], r))
        BY <1>4, <1>6, <4>1 DEF new
      <4>3. ~IsSync(req[w]) => table[r] = NoRow /\ draft'[r] = Null
        <5>1. ~IsSync(req[w]) => draft[r] = NoRow
          BY <1>1, <2>3, <3>1 DEF Refused, r
        <5> QED
          BY <1>4, <1>6, <4>1, <5>1 DEF new, Upserted
      <4>4. Merged(req[w], r)' = Merged(req[w], r)
        BY <1>1 DEF r
      <4> QED
        BY <1>1, <2>3, <2>4, <3>1, <4>2, <4>3, <4>4 DEF DraftOK
    <3>2. CASE st[w] = "dependents"
      <4>1. draft'[r] = Upserted(r, table[r], t.new) /\ t.row = r
        BY <1>4, <1>6 DEF new, r
      <4> QED
        BY <1>1, <2>2, <2>5, <3>2, <4>1 DEF DraftOK
    <3> QED
      BY <2>1, <3>1, <3>2
  <2>7. ASSUME NEW row \in Row, row # r, lock'[row] = {w} PROVE DraftOK(w, row)'
    <3>1. DraftOK(w, row)
      BY <1>1, <1>2, <1>6, <2>7 DEF CallOK
    <3>2. draft'[row] = draft[row] /\ table'[row] = table[row]
      BY <1>1, <1>6, <2>7
    <3>3. CASE row \in Entity
      BY <1>1, <2>4, <3>1, <3>2, <3>3 DEF DraftOK
    <3>4. CASE row \notin Entity
      BY <1>1, <2>5, <3>1, <3>2, <3>4 DEF DraftOK
    <3> QED
      BY <3>3, <3>4
  <2>8. TaskOK(w)'
    <3>1. \A u \in EntityTasks(req[w], snap[w]) : u \in todo'[w] \/ lock'[u.row] = {w}
      <4>1. \A u \in EntityTasks(req[w], snap[w]) : u.row \in Row
        BY <1>2, TasksTyped
      <4> QED
        BY <1>6, <2>1, <4>1 DEF TaskOK, r
    <3>2. ASSUME st[w] = "dependents", NEW u \in DependentTasks(req[w], Found(w))
          PROVE  u \in todo'[w] \/ (lock'[u.row] = {w} /\ draft'[u.row] # NoRow)
      <4>1. u.row \in Row
        BY <1>2, TasksTyped
      <4>2. CASE u.row = r
        BY <1>5, <1>6, <4>2
      <4>3. CASE u.row # r
        <5>1. u # t
          BY <4>3 DEF r
        <5> QED
          BY <1>6, <2>1, <3>2, <4>1, <4>3, <5>1 DEF TaskOK
      <4> QED
        BY <4>2, <4>3
    <3>3. CASE st[w] = "entities"
      BY <1>1, <1>6, <2>1, <2>4, <3>1, <3>3 DEF TaskOK
    <3>4. CASE st[w] = "dependents"
      BY <1>1, <1>6, <2>1, <2>4, <2>5, <3>1, <3>2, <3>4 DEF TaskOK
    <3> QED
      BY <2>1, <3>3, <3>4
  <2>9. SightOK(w)'
    <3>1. \A row \in wrote'[w] : lock'[row] = {w} /\ draft'[row] # NoRow
      <4>1. \A row \in wrote[w] : row \in Row /\ lock[row] = {w} /\ draft[row] # NoRow
        BY <1>1, <1>2, <2>1 DEF SightOK, TypeOK
      <4> QED
        BY <1>5, <1>6, <4>1
    <3> QED
      BY <1>1, <2>1, <3>1 DEF SightOK
  <2> QED
    BY <1>1, <1>6, <2>1, <2>6, <2>7, <2>8, <2>9 DEF CallOK
<1>11. ASSUME NEW v \in Writer, v # w PROVE CallOK(v)'
  <2>1. \A row \in Row : lock'[row] = {v} <=> lock[row] = {v}
    BY <1>1, <1>6, <1>11 DEF r
  <2>2. \A row \in Row : lock[row] = {v} => draft'[row] = draft[row]
    BY <1>1, <1>6, <1>11 DEF r
  <2> QED
    BY <1>1, <1>2, <1>6, <1>11, <2>1, <2>2, Parts, Undisturbed
<1> QED
  BY <1>7, <1>8, <1>10, <1>11, PartsPrimed

\* A call that fails leaves its rows as they are committed.
LEMMA RollbackStep ==
  ASSUME IInv, NEW w \in Writer, Running(w), Rollback(w)
  PROVE  IInv'
<1>1. /\ st' = [st EXCEPT ![w] = "failed"]
      /\ draft' = [row \in Row |-> IF lock[row] = {w} THEN table[row] ELSE draft[row]]
      /\ lock' = [row \in Row |-> lock[row] \ {w}]
      /\ table' = table /\ req' = req /\ snap' = snap /\ todo' = todo /\ want' = want
      /\ wrote' = wrote
  BY DEF Rollback, Release
<1>2. TypeOK /\ CallOK(w)
  BY Parts
<1>3. st'[w] = "failed" /\ \A v \in Writer : v # w => st'[v] = st[v]
  BY <1>1, <1>2 DEF TypeOK
<1>4. \A row \in Row : lock[row] = {} \/ \E v \in Writer : lock[row] = {v}
  BY DEF IInv, RowsOK, RowOK
<1>5. TypeOK'
  <2>1. st' \in [Writer -> {"idle", "entities", "dependents", "committed", "failed"}]
    BY <1>1, <1>2 DEF TypeOK
  <2>2. lock' \in [Row -> SUBSET Writer]
    BY <1>1, <1>2 DEF TypeOK
  <2>3. \A row \in Row : {table'[row], draft'[row]} \subseteq Content(row) \cup {NoRow}
    BY <1>1, <1>2 DEF TypeOK
  <2>4. DOMAIN draft' = Row
    BY <1>1
  <2> QED
    BY <1>1, <1>2, <2>1, <2>2, <2>3, <2>4 DEF TypeOK
<1>6. RowsOK'
  <2> SUFFICES ASSUME NEW row \in Row PROVE RowOK(row)'
    BY DEF RowsOK
  <2>1. RowOK(row)
    BY DEF IInv, RowsOK
  <2>2. CASE lock[row] = {w}
    BY <1>1, <2>2 DEF RowOK
  <2>3. CASE lock[row] = {}
    BY <1>1, <2>1, <2>3 DEF RowOK
  <2>4. ASSUME NEW v \in Writer, v # w, lock[row] = {v} PROVE RowOK(row)'
    <3>1. lock'[row] = {v} /\ draft'[row] = draft[row] /\ table'[row] = table[row]
      BY <1>1, <2>4
    <3>2. Running(v) /\ (row \in wrote[v] \/ draft[row] = table[row])
      BY <2>1, <2>4 DEF RowOK
    <3>3. Running(v)'
      BY <1>3, <2>4, <3>2 DEF Running
    <3> QED
      BY <1>1, <3>1, <3>2, <3>3 DEF RowOK
  <2> QED
    BY <1>4, <2>2, <2>3, <2>4
<1>8. CallOK(w)'
  <2>1. ~Running(w)' /\ st'[w] # "committed" /\ st'[w] # "idle"
    BY <1>3 DEF Running
  <2>2. SightOK(w)'
    BY <1>1, <1>2, <2>1 DEF CallOK, SightOK
  <2> QED
    BY <2>1, <2>2 DEF CallOK
<1>9. ASSUME NEW v \in Writer, v # w PROVE CallOK(v)'
  <2>1. \A row \in Row : lock'[row] = {v} <=> lock[row] = {v}
    BY <1>1, <1>4, <1>9
  <2>2. \A row \in Row : lock[row] = {v} => draft'[row] = draft[row]
    BY <1>1, <1>9
  <2> QED
    BY <1>1, <1>2, <1>3, <1>9, <2>1, <2>2, Parts, Undisturbed
<1> QED
  BY <1>5, <1>6, <1>8, <1>9, PartsPrimed

\* A commit makes the rows of the call the committed ones.
LEMMA CommitEffect ==
  ASSUME IInv, NEW w \in Writer, Commit(w)
  PROVE  /\ Running(w) /\ st[w] = "dependents" /\ todo[w] = {}
         /\ st'[w] = "committed" /\ \A v \in Writer : v # w => st'[v] = st[v]
         /\ \A row \in Row : table'[row] = IF lock[row] = {w} THEN draft[row] ELSE table[row]
         /\ \A row \in Row : table[row] # NoRow => table'[row] # NoRow
         /\ \A e \in Found(w) : table'[e] # NoRow
<1>1. /\ st[w] = "dependents" /\ todo[w] = {} /\ st' = [st EXCEPT ![w] = "committed"]
      /\ table' = [row \in Row |-> IF lock[row] = {w} THEN draft[row] ELSE table[row]]
  BY DEF Commit
<1>2. TypeOK /\ CallOK(w)
  BY Parts
<1>3. Running(w)
  BY <1>1 DEF Running
<1>4. st'[w] = "committed" /\ \A v \in Writer : v # w => st'[v] = st[v]
  BY <1>1, <1>2 DEF TypeOK
<1>5. \A row \in Row : table[row] # NoRow => table'[row] # NoRow
  BY <1>1, <1>3, DraftsKeepRows
<1>6. ASSUME NEW e \in Found(w) PROVE table'[e] # NoRow
  <2>1. e \in Row /\ (e \in snap[w] \/ e \in wrote[w])
    BY <1>2, FoundTyped DEF Row
  <2>2. CASE e \in snap[w]
    BY <1>2, <1>5, <2>1, <2>2 DEF CallOK, SightOK
  <2>3. CASE e \in wrote[w]
    BY <1>1, <1>2, <1>3, <2>1, <2>3 DEF CallOK, SightOK
  <2> QED
    BY <2>1, <2>2, <2>3
<1> QED
  BY <1>1, <1>3, <1>4, <1>5, <1>6

LEMMA CommitStep ==
  ASSUME IInv, NEW w \in Writer, Commit(w)
  PROVE  IInv'
<1>1. /\ Running(w) /\ st[w] = "dependents" /\ todo[w] = {}
      /\ st'[w] = "committed" /\ \A v \in Writer : v # w => st'[v] = st[v]
      /\ \A row \in Row : table'[row] = IF lock[row] = {w} THEN draft[row] ELSE table[row]
      /\ \A row \in Row : table[row] # NoRow => table'[row] # NoRow
      /\ \A e \in Found(w) : table'[e] # NoRow
  BY CommitEffect
<1>2. /\ st' = [st EXCEPT ![w] = "committed"]
      /\ table' = [row \in Row |-> IF lock[row] = {w} THEN draft[row] ELSE table[row]]
      /\ lock' = [row \in Row |-> lock[row] \ {w}]
      /\ draft' = draft /\ req' = req /\ snap' = snap /\ todo' = todo /\ want' = want
      /\ wrote' = wrote
  BY DEF Commit, Release
<1>3. TypeOK /\ CallOK(w)
  BY Parts
<1>4. \A row \in Row : lock[row] = {} \/ \E v \in Writer : lock[row] = {v}
  BY DEF IInv, RowsOK, RowOK
<1>5. TypeOK'
  <2>1. st' \in [Writer -> {"idle", "entities", "dependents", "committed", "failed"}]
    BY <1>2, <1>3 DEF TypeOK
  <2>2. lock' \in [Row -> SUBSET Writer]
    BY <1>2, <1>3 DEF TypeOK
  <2>3. \A row \in Row : {table'[row], draft'[row]} \subseteq Content(row) \cup {NoRow}
    BY <1>2, <1>3 DEF TypeOK
  <2>4. DOMAIN table' = Row
    BY <1>2
  <2> QED
    BY <1>2, <1>3, <2>1, <2>2, <2>3, <2>4 DEF TypeOK
<1>6. RowsOK'
  <2> SUFFICES ASSUME NEW row \in Row PROVE RowOK(row)'
    BY DEF RowsOK
  <2>1. RowOK(row)
    BY DEF IInv, RowsOK
  <2>2. CASE lock[row] = {w}
    BY <1>2, <2>2 DEF RowOK
  <2>3. CASE lock[row] = {}
    BY <1>2, <2>1, <2>3 DEF RowOK
  <2>4. ASSUME NEW v \in Writer, v # w, lock[row] = {v} PROVE RowOK(row)'
    <3>1. lock'[row] = {v} /\ draft'[row] = draft[row] /\ table'[row] = table[row]
      BY <1>2, <2>4
    <3>2. Running(v) /\ (row \in wrote[v] \/ draft[row] = table[row])
      BY <2>1, <2>4 DEF RowOK
    <3>3. Running(v)'
      BY <1>1, <2>4, <3>2 DEF Running
    <3> QED
      BY <1>2, <3>1, <3>2, <3>3 DEF RowOK
  <2> QED
    BY <1>4, <2>2, <2>3, <2>4
<1>8. CallOK(w)'
  <2>1. ~Running(w)' /\ st'[w] # "idle"
    BY <1>1 DEF Running
  <2>2. SightOK(w)'
    <3>1. snap[w] \subseteq Row
      BY <1>3 DEF TypeOK, Row
    <3> QED
      BY <1>1, <1>2, <1>3, <2>1, <3>1 DEF CallOK, SightOK
  <2>3. Stored(w)'
    <3>1. \A t \in DependentTasks(req[w], Found(w)) :
            t.row \in Row /\ lock[t.row] = {w} /\ draft[t.row] # NoRow
      BY <1>1, <1>3, TasksTyped DEF CallOK, TaskOK
    <3>2. DependentTasks(req[w], Found(w))' = DependentTasks(req[w], Found(w))
      BY <1>2, TasksPrimed
    <3> QED
      BY <1>1, <3>1, <3>2 DEF Stored
  <2> QED
    BY <2>1, <2>2, <2>3 DEF CallOK
<1>9. ASSUME NEW v \in Writer, v # w PROVE CallOK(v)'
  <2>1. \A row \in Row : lock'[row] = {v} <=> lock[row] = {v}
    BY <1>2, <1>4, <1>9
  <2>2. \A row \in Row : lock[row] = {v} => table'[row] = table[row]
    BY <1>2, <1>9
  <2> QED
    BY <1>1, <1>2, <1>3, <1>9, <2>1, <2>2, Parts, Undisturbed
<1> QED
  BY <1>5, <1>6, <1>8, <1>9, PartsPrimed

\* Every step preserves the invariant.
LEMMA NextOK == IInv /\ [Next]_vars => IInv'
<1> SUFFICES ASSUME IInv, [Next]_vars PROVE IInv'
  OBVIOUS
<1>1. ASSUME NEW w \in Writer, Start(w) PROVE IInv'
  BY <1>1, StartStep
<1>2. ASSUME NEW w \in Writer, Resolve(w) PROVE IInv'
  BY <1>2, ResolveStep
<1>3. ASSUME NEW w \in Writer, Commit(w) PROVE IInv'
  BY <1>3, CommitStep
<1>4. ASSUME NEW w \in Writer, Cancel(w) PROVE IInv'
  BY <1>4, RollbackStep DEF Cancel
<1>5. ASSUME NEW w \in Writer, Lose(w) PROVE IInv'
  BY <1>5, RollbackStep DEF Lose
<1>6. ASSUME NEW w \in Writer, NEW t \in todo[w], Step(w, t) PROVE IInv'
  <2>1. CASE Upsert(w, t)
    BY <2>1, UpsertStep
  <2>2. CASE Wait(w, t)
    BY <2>2, WaitStep
  <2>3. CASE Refuse(w, t)
    BY <2>3, RollbackStep DEF Refuse, Turn
  <2> QED
    BY <1>6, <2>1, <2>2, <2>3 DEF Step
<1>7. CASE UNCHANGED vars
  <2>1. /\ table' = table /\ draft' = draft /\ lock' = lock /\ st' = st /\ req' = req
        /\ snap' = snap /\ todo' = todo /\ want' = want /\ wrote' = wrote
    BY <1>7 DEF vars
  <2>2. TypeOK'
    BY <2>1 DEF IInv, TypeOK
  <2>3. RowsOK'
    BY <2>1 DEF IInv, RowsOK, RowOK, Running
  <2>5. ASSUME NEW v \in Writer PROVE CallOK(v)'
    BY <2>1, Parts, Undisturbed
  <2> QED
    BY <2>2, <2>3, <2>5, PartsPrimed
<1> QED
  BY <1>1, <1>2, <1>3, <1>4, <1>5, <1>6, <1>7 DEF Next

-----------------------------------------------------------------------------
(***************************************************************************)
(* Theorems.                                                               *)
(***************************************************************************)

\* SyncGraph and UpsertDataPoints, however many run at once and however they fail, keep the
\* tables, the locks and the statements in the relation IInv.
THEOREM Inductive == Spec => []IInv
<1>1. Init => IInv
  BY InitOK
<1>2. IInv /\ [Next]_vars => IInv'
  BY NextOK
<1> QED
  BY <1>1, <1>2, PTL DEF Spec

\* What a call that returned without error was asked to link and to measure, among the
\* entities it found, is stored and stays stored.
THEOREM WorkIsStored == Spec => []FoundIsStored
<1>1. IInv => FoundIsStored
  BY DEF IInv
<1> QED
  BY <1>1, Inductive, PTL

\* What a committed call has changed is among the ids it has returned, or is a row of them:
\* the invalidation that SyncGraph and UpsertDataPoints start misses no entity.
LEMMA CommitReturns ==
  ASSUME IInv, NEW w \in Writer, Commit(w), NEW row \in Row, table'[row] # table[row]
  PROVE  Owners(row) \subseteq Returned(w)
<1>1. TypeOK /\ CallOK(w)
  BY Parts
<1>2. Running(w) /\ lock[row] = {w} /\ draft[row] # table[row]
  BY CommitEffect
<1>3. DraftOK(w, row)
  BY <1>1, <1>2 DEF CallOK
<1>4. ASSUME row \in Entity PROVE row \in Found(w)
  <2>1. row \in wrote[w]
    BY <1>2 DEF IInv, RowsOK, RowOK
  <2>2. row \in Named(req[w])
    BY <1>3, <1>4 DEF DraftOK
  <2>3. IsSync(req[w]) => RefOf[row] \in References(req[w])
    BY <2>2 DEF References
  <2> QED
    BY <1>4, <2>1, <2>2, <2>3 DEF Found, Resolved
<1>5. ASSUME row \notin Entity PROVE Owners(row) \subseteq Found(w)
  BY <1>1, <1>3, <1>5, TasksTyped DEF DraftOK
<1> QED
  BY <1>4, <1>5, OwnersAreEntities DEF Returned

\* Only commits change the tables.
LEMMA OnlyCommitsChange ==
  ASSUME [Next]_vars
  PROVE  table' = table \/ \E w \in Writer : Commit(w)
  BY DEF Next, vars, Start, Resolve, Cancel, Lose, Rollback, Step, Upsert, Wait, Refuse

THEOREM ChangesAreReturned == Spec => ChangeIsReturned
<1>1. ASSUME IInv, [Next]_vars, NEW row \in Row, table'[row] # table[row]
      PROVE  \E w \in Writer : /\ st[w] # "committed" /\ st'[w] = "committed"
                               /\ Owners(row) \subseteq Returned(w)
  <2>1. PICK w \in Writer : Commit(w)
    BY <1>1, OnlyCommitsChange
  <2>2. st[w] # "committed" /\ st'[w] = "committed"
    BY <1>1, <2>1, CommitEffect
  <2> QED
    BY <1>1, <2>1, <2>2, CommitReturns
<1>2. IInv /\ [Next]_vars =>
        [\A row \in Row : table'[row] # table[row] =>
           \E w \in Writer : /\ st[w] # "committed" /\ st'[w] = "committed"
                             /\ Owners(row) \subseteq Returned(w)]_vars
  BY <1>1
<1> QED
  BY <1>2, Inductive, PTL DEF Spec, ChangeIsReturned

\* The store speaks of rows and requests in the same words.
LEMMA SameWords ==
  /\ Store!Row = Row
  /\ \A row, old, new : Store!Upserted(row, old, new) = Upserted(row, old, new)
  /\ \A q : /\ Store!IsSync(q) <=> IsSync(q)
            /\ Store!Named(q) = Named(q)
            /\ \A ids : Store!DependentTasks(q, ids) = DependentTasks(q, ids)
            /\ \A e : Store!Merged(q, e) = Merged(q, e)
<1>1. Store!Row = Row
  BY DEF Store!Row, Store!Edge, Store!Point, Row, Edge, Point
<1>2. \A row, old, new : Store!Upserted(row, old, new) = Upserted(row, old, new)
  BY DEF Store!Upserted, Store!MergeInTable, Store!Over, Store!Edge, Upserted, MergeInTable, Over, Edge
<1>3. ASSUME NEW q
      PROVE  /\ Store!IsSync(q) <=> IsSync(q)
             /\ Store!Named(q) = Named(q)
  BY DEF Store!IsSync, Store!Named, IsSync, Named
<1>4. ASSUME NEW q, NEW ids
      PROVE  Store!DependentTasks(q, ids) = DependentTasks(q, ids)
  BY DEF Store!DependentTasks, Store!LinkTasks, Store!PointTasks, Store!IsSync,
         DependentTasks, LinkTasks, PointTasks, IsSync
<1>5. ASSUME NEW q, NEW e
      PROVE  Store!Merged(q, e) = Merged(q, e)
  BY DEF Store!Merged, Store!Documents, Store!Mentions, Store!Last, Merged, Documents, Mentions, Last
<1> QED
  BY <1>1, <1>2, <1>3, <1>4, <1>5

\* A commit takes the whole request into the table at once.
LEMMA CommitApplies ==
  ASSUME IInv, NEW w \in Writer, Commit(w)
  PROVE  Store!Apply(w, req[w])
<1> DEFINE done == {v \in Writer : st[v] = "committed"}
<1>1. /\ Running(w) /\ st[w] = "dependents" /\ todo[w] = {}
      /\ st'[w] = "committed" /\ \A v \in Writer : v # w => st'[v] = st[v]
      /\ \A row \in Row : table'[row] = IF lock[row] = {w} THEN draft[row] ELSE table[row]
  BY CommitEffect
<1>2. TypeOK /\ CallOK(w)
  BY Parts
<1>3. w \notin done /\ done' = done \cup {w}
  BY <1>1
<1>4. table' = [row \in Row |-> table'[row]]
  BY DEF Commit
<1>5. ASSUME NEW row \in Row PROVE table'[row] \in Store!Outcomes(req[w], row, table[row])
  <2>1. CASE lock[row] = {w}
    <3>1. DraftOK(w, row) /\ table'[row] = draft[row]
      BY <1>1, <1>2, <2>1 DEF CallOK
    <3>2. CASE row \in Entity
      BY <3>1, <3>2, SameWords DEF DraftOK, Store!Outcomes
    <3>3. CASE row \notin Entity
      <4>1. PICK t \in DependentTasks(req[w], Found(w)) :
              t.row = row /\ draft[row] \in {table[row], Upserted(row, table[row], t.new)}
        BY <3>1, <3>3 DEF DraftOK
      <4>2. t \in DependentTasks(req[w], Entity)
        BY <1>2, FoundTyped, DependentTasksGrow
      <4> QED
        BY <3>1, <3>3, <4>1, <4>2, SameWords DEF Store!Outcomes
    <3> QED
      BY <3>2, <3>3
  <2>2. CASE lock[row] # {w}
    <3>1. table'[row] = table[row]
      BY <1>1, <2>2
    <3>2. CASE row \notin Entity
      BY <3>1, <3>2 DEF Store!Outcomes
    <3>3. CASE row \in Entity /\ row \notin Named(req[w])
      BY <3>1, <3>3, SameWords DEF Store!Outcomes
    <3>4. CASE row \in Entity /\ row \in Named(req[w])
      <4>1. \A t \in EntityTasks(req[w], snap[w]) : t.row # row
        BY <1>1, <1>2, <2>2 DEF CallOK, TaskOK
      <4>2. ~IsSync(req[w]) /\ row \in snap[w]
        <5>1. ~IsSync(req[w])
          <6> SUFFICES ASSUME IsSync(req[w]) PROVE FALSE
            OBVIOUS
          <6>1. [row |-> row, new |-> Merged(req[w], row), part |-> 0] \in EntityTasks(req[w], snap[w])
            BY <3>4 DEF EntityTasks
          <6> QED
            BY <4>1, <6>1
        <5>2. ASSUME row \notin snap[w] PROVE FALSE
          <6>1. [row |-> row, new |-> Null, part |-> 0] \in EntityTasks(req[w], snap[w])
            BY <3>4, <5>1, <5>2 DEF EntityTasks
          <6> QED
            BY <4>1, <6>1
        <5> QED
          BY <5>1, <5>2
      <4>3. table[row] # NoRow
        BY <1>2, <4>2 DEF CallOK, SightOK
      <4> QED
        BY <3>1, <3>4, <4>2, <4>3, SameWords DEF Store!Outcomes
    <3> QED
      BY <3>2, <3>3, <3>4
  <2> QED
    BY <2>1, <2>2
<1> QED
  BY <1>3, <1>4, <1>5, SameWords DEF Store!Apply

\* The calls implement the store: each takes effect at its commit, as a whole and on the rows
\* as they are at that moment, or not at all.
THEOREM Atomic == Spec => CallsAreAtomic
<1>1. Init => Store!Init
  BY SameWords DEF Init, Store!Init
<1>2. IInv /\ [Next]_vars => [Store!Next]_<<table, {w \in Writer : st[w] = "committed"}>>
  <2> SUFFICES ASSUME IInv, [Next]_vars PROVE [Store!Next]_<<table, {w \in Writer : st[w] = "committed"}>>
    OBVIOUS
  <2>1. ASSUME NEW w \in Writer, Commit(w) PROVE Store!Next
    <3>1. req[w] \in Requests[w]
      BY DEF IInv, TypeOK
    <3> QED
      BY <2>1, <3>1, CommitApplies DEF Store!Next, Store!Apply
  <2>2. ASSUME \A w \in Writer : ~Commit(w) PROVE table' = table /\ {w \in Writer : st[w] = "committed"}' = {w \in Writer : st[w] = "committed"}
    <3>1. table' = table
      BY <2>2, OnlyCommitsChange
    <3>2. \A v \in Writer : st'[v] = "committed" <=> st[v] = "committed"
      <4>1. TypeOK
        BY DEF IInv
      <4>2. st' = st \/ \E w \in Writer : /\ st[w] # "committed"
                                          /\ \E s \in {"entities", "dependents", "failed"} :
                                               st' = [st EXCEPT ![w] = s]
        BY <2>2 DEF Next, vars, Start, Resolve, Cancel, Lose, Rollback, Step, Upsert, Wait, Refuse,
                    Turn, Running
      <4> QED
        BY <4>1, <4>2 DEF TypeOK
    <3> QED
      BY <3>1, <3>2
  <2> QED
    BY <2>1, <2>2
<1> QED
  BY <1>1, <1>2, Inductive, PTL DEF Spec, CallsAreAtomic, Store!Spec

=============================================================================
