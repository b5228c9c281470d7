------------------------------ MODULE GraphRows ------------------------------
(***************************************************************************)
(* The rows of the profile graph and what one upsert makes of a row.       *)
(*                                                                         *)
(* A row is an entity, an edge between two entities or a data point of an  *)
(* entity; a row is named by the columns of its unique constraint.         *)
(***************************************************************************)
EXTENDS Integers, Sequences

CONSTANTS
  Entity,         \* pairs of type and reference
  Reference,      \* business references
  RefOf,          \* RefOf[e]: the reference of e; entities of other types may share it
  LinkType,       \* relationship types
  Period,         \* what identifies a data point of an entity: key, granularity and date
  NoPeriod,       \* the period made of an unknown granularity: an idempotency key that is NULL
  Field, Value,   \* names and values of properties; values of data points
  Null,           \* the SQL value NULL
  NoRow           \* what a table holds where it has no row

Edge == Entity \X Entity

Point == Entity \X (Period \cup {NoPeriod})

Row == Entity \cup Edge \cup Point

ASSUME ReferenceAssumption == RefOf \in [Entity -> Reference]
ASSUME RowAssumption == /\ Entity \cap (Edge \cup Point) = {}
                        /\ Edge \cap Point = {}
                        /\ NoPeriod \notin Period

\* The properties column: an object, or NULL.
Document == {Null} \cup UNION {[F -> Value] : F \in SUBSET Field}

\* A data point carries its date beside its value.
Reading == [value : Value, date : Nat]

\* What a row may hold.
Content(row) == IF row \in Entity THEN Document ELSE IF row \in Edge THEN LinkType ELSE Reading

ASSUME ValueAssumption == NoRow \notin Document \cup LinkType \cup Reading

\* The properties of "new" over those of "old".
Over(new, old) == [f \in DOMAIN new \cup DOMAIN old |-> IF f \in DOMAIN new THEN new[f] ELSE old[f]]

\* COALESCE(properties, '{}') || excluded.properties: NULL if the right side is NULL.
MergeInTable(old, new) ==
  IF new = Null THEN Null ELSE IF old = Null THEN new ELSE Over(new, old)

\* The row after an upsert of "new" on "old".
Upserted(row, old, new) ==
  IF old = NoRow THEN new
  ELSE IF row \in Entity THEN MergeInTable(old, new)
  ELSE IF row \in Edge THEN new
  ELSE IF old.value = new.value THEN old ELSE new

-----------------------------------------------------------------------------
(***************************************************************************)
(* Requests.  A SyncGraphRequest has entities and links between            *)
(* references; a SyncTemporalPropertyRequest has points of entities.       *)
(***************************************************************************)

SyncRequest ==
  [entities : Seq([entity : Entity, doc : Document]),
   links    : Seq([from : Reference, to : Reference, type : LinkType])]

UpsertRequest ==
  [points : Seq([entity : Entity, period : Period \cup {NoPeriod}, reading : Reading])]

Request == SyncRequest \cup UpsertRequest

IsSync(q) == "links" \in DOMAIN q

\* The entities the request names with their type.
Named(q) == IF IsSync(q) THEN {q.entities[i].entity : i \in DOMAIN q.entities}
                         ELSE {q.points[i].entity : i \in DOMAIN q.points}

\* The places of e in the list that bring properties of it, or the property f.
Documents(q, e) == {i \in DOMAIN q.entities : q.entities[i].entity = e /\ q.entities[i].doc # Null}

Mentions(q, e, f) == {i \in Documents(q, e) : f \in DOMAIN q.entities[i].doc}

Last(I) == CHOOSE i \in I : \A j \in I : j <= i

\* entityMap and mergeJSONProperties: one document for each entity; each property has the
\* last value the list gives it, and an entity without properties overrides nothing.
Merged(q, e) ==
  IF Documents(q, e) = {} THEN Null
  ELSE [f \in UNION {DOMAIN q.entities[i].doc : i \in Documents(q, e)} |->
          q.entities[Last(Mentions(q, e, f))].doc[f]]

\* all_references: every reference of the request, of whatever type.
References(q) == {RefOf[e] : e \in Named(q)}
                   \cup {q.links[i].from : i \in DOMAIN q.links}
                   \cup {q.links[i].to : i \in DOMAIN q.links}

\* entity_ids: of the entities E, those the statement works on.
Resolved(q, E) == IF IsSync(q) THEN {e \in E : RefOf[e] \in References(q)} ELSE E \cap Named(q)

\* An upsert, and the place in the request it comes from.
Task == [row : Row, new : Document \cup LinkType \cup Reading, part : Nat]

\* The upserts of entities: of all for SyncGraph, of the unknown ones for UpsertDataPoints.
EntityTasks(q, known) ==
  IF IsSync(q) THEN {[row |-> e, new |-> Merged(q, e), part |-> 0] : e \in Named(q)}
               ELSE {[row |-> e, new |-> Null, part |-> 0] : e \in Named(q) \ known}

\* edges_to_create: references are joined to ids, whatever the type of the entity.
LinkTasks(q, ids) ==
  {t \in [row : ids \X ids, new : LinkType, part : DOMAIN q.links] :
     LET link == q.links[t.part]
     IN  /\ RefOf[t.row[1]] = link.from
         /\ RefOf[t.row[2]] = link.to
         /\ t.new = link.type}

\* temporal_data_to_upsert: the same for data points.
PointTasks(q, ids) ==
  {[row |-> <<d[1], q.points[d[2]].period>>, new |-> q.points[d[2]].reading, part |-> d[2]] :
     d \in {d \in ids \X DOMAIN q.points : RefOf[d[1]] = RefOf[q.points[d[2]].entity]}}

DependentTasks(q, ids) == IF IsSync(q) THEN LinkTasks(q, ids) ELSE PointTasks(q, ids)

\* The entities at the ends of an edge, or the entity of a point; an entity is its own.
Owners(row) ==
  IF row \in Entity THEN {row} ELSE IF row \in Edge THEN {row[1], row[2]} ELSE {row[1]}

=============================================================================
