---------------------------- MODULE CdcTransformer ----------------------------
(***************************************************************************)
(* What becomes of one change of a row: the record Debezium writes of it,  *)
(* which records the consumer reads, and the domain event it makes of one. *)
(*                                                                         *)
(* A row is named by the columns that identify it.  Its content is what    *)
(* events tell of it: the properties of an entity, type and metadata of an *)
(* edge, "value" and "reference_date" of a data point, of which a row      *)
(* holds the newest of its period.  A field that is absent, or null, has   *)
(* the value Null: compareValues cannot tell the two apart.                *)
(***************************************************************************)
EXTENDS Integers

CONSTANTS
  Entities,        \* rows [ref, type]
  Edges,           \* rows [left, right], two entity ids
  Points,          \* rows [id, key, granularity, period], the first an entity id
  Field, Value,    \* names and values of properties
  Null,            \* the value of a field that is absent
  NoImage,         \* a before or after that a record has not
  IncludeTables    \* the tables the consumer monitors

Subject == Entities \cup Edges \cup Points

ASSUME SubjectAssumption ==
  Entities \cap Edges = {} /\ Entities \cap Points = {} /\ Edges \cap Points = {}
ASSUME ValueAssumption == Null \notin Value
ASSUME FieldAssumption == Points # {} => {"value", "reference_date"} \subseteq Field

\* A partition of temporal_properties counts as that table.
TableOf(s) == IF s \in Entities THEN "entities"
              ELSE IF s \in Edges THEN "edges"
              ELSE "temporal_properties"

Image == [Field -> Value \cup {Null}]

ASSUME ImageAssumption == NoImage \notin Image

Empty == [f \in Field |-> Null]

\* op: c, u, d, or r for a row a snapshot has read; second: ts_ms in seconds.
Record == [subject : Subject, op : {"c", "u", "d", "r"}, before : Image \cup {NoImage},
           after : Image \cup {NoImage}, second : Nat]

-----------------------------------------------------------------------------
(***************************************************************************)
(* What the consumer reads.                                                *)
(***************************************************************************)

\* validateCDCEvent.
Valid(r) == /\ r.op = "d" => r.before # NoImage
            /\ r.op \in {"c", "u"} => r.after # NoImage

IsTableMonitored(r) == TableOf(r.subject) \in IncludeTables

\* MapCDCOperation.
Operation(r) == CASE r.op \in {"c", "r"} -> "INSERT"
                  [] r.op = "u"          -> "UPDATE"
                  [] r.op = "d"          -> "DELETE"

-----------------------------------------------------------------------------
(***************************************************************************)
(* The domain event.                                                       *)
(***************************************************************************)

Content(image) == IF image = NoImage THEN Empty ELSE image

FieldsSet(image) == {f \in Field : image[f] # Null}

Pairs(F, old, new) == [f \in F |-> [old |-> old[f], new |-> new[f]]]

InsertLike(new) == Pairs(FieldsSet(new), Empty, new)

AlwaysTold(r, f) == r.subject \in Points /\ f = "reference_date"

\* Mutant: only the fields the new content has are looked at.
Bug_Changes(r) ==
  LET old == Content(r.before)
      new == Content(r.after)
  IN  CASE Operation(r) = "INSERT" -> InsertLike(new)
        [] Operation(r) = "DELETE" -> Pairs(FieldsSet(old), old, Empty)
        [] Operation(r) = "UPDATE" -> Pairs({f \in FieldsSet(new) : old[f] # new[f]}, old, new)

\* The properties of the event: fields with their old and new values.  An update that does
\* not know the old content tells the new one as if it were inserted; that of a data point
\* tells the date in any case.
Changes(r) ==
  LET old == Content(r.before)
      new == Content(r.after)
  IN  CASE Operation(r) = "INSERT" -> InsertLike(new)
        [] Operation(r) = "DELETE" -> Pairs(FieldsSet(old), old, Empty)
        [] Operation(r) = "UPDATE" -> IF old = Empty THEN InsertLike(new)
                                      ELSE Pairs({f \in Field : old[f] # new[f] \/ AlwaysTold(r, f)}, old, new)

\* A data point's event is of the type that its old and new values give; a row has a value.
PointEventType(r) ==
  IF r.before = NoImage THEN "created" ELSE IF r.after = NoImage THEN "deleted" ELSE "updated"

\* The type of the event of an entity or edge: mapToEventType.
EventType(r) ==
  IF r.subject \in Points THEN PointEventType(r)
  ELSE CASE Operation(r) = "INSERT" -> "created"
         [] Operation(r) = "UPDATE" -> "updated"
         [] Operation(r) = "DELETE" -> "deleted"

\* The reference of the event, which is the key of its Kafka message: an entity's own, or
\* made of the id of an edge's first entity or of the entity of a data point.
Reference(s) == CASE s \in Entities -> <<"reference", s.ref>>
                  [] s \in Edges    -> <<"entity", s.left>>
                  [] s \in Points   -> <<"entity", s.id>>

\* The date of a data point: the new one, or the old one if the row is gone.
CurrentDate(r) ==
  LET date == Content(r.after)["reference_date"]
  IN  IF date # Null THEN date ELSE Content(r.before)["reference_date"]

\* generateIdempotencyKey: of an edge it takes the first entity only, of a data point its date,
\* but neither its granularity nor the time of the change.
IdempotencyKey(r) ==
  LET s == r.subject
  IN  CASE s \in Entities -> <<"entity", s.ref, s.type, r.second>>
        [] s \in Edges    -> <<"relationship", s.left, "unknown", r.second>>
        [] s \in Points   -> <<"temporal", s.id, s.key, CurrentDate(r)>>

\* transformEntityEvent refuses an entity without a reference or type.
Transformable(r) == r.subject \in Entities => r.subject.ref # "" /\ r.subject.type # ""

\* The change is published if nothing fails.
Publishable(r) == Valid(r) /\ IsTableMonitored(r) /\ Transformable(r)

-----------------------------------------------------------------------------
(***************************************************************************)
(* The reader of the domain events: it keeps the content of each row as    *)
(* the events tell it, NoImage for a row it knows nothing of.              *)
(***************************************************************************)

Applied(content, r) ==
  LET told == Changes(r)
  IN  CASE EventType(r) = "deleted" -> NoImage
        [] EventType(r) = "created" -> [f \in Field |-> IF f \in DOMAIN told THEN told[f].new ELSE Null]
        [] EventType(r) = "updated" ->
             [f \in Field |-> IF f \in DOMAIN told THEN told[f].new ELSE Content(content)[f]]

=============================================================================
