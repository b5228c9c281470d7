------------------------------ MODULE IngestBatch ------------------------------
(***************************************************************************)
(* What the three ingestion consumers make of a batch of messages: the     *)
(* request they aggregate it to, and what the one statement of that        *)
(* request leaves in the tables.                                           *)
(*                                                                         *)
(* A Go map of the code is a function; its keys stand for themselves, so   *)
(* references and types are taken to be free of the separator "|".         *)
(***************************************************************************)
EXTENDS GraphRows, FiniteSets

CONSTANTS
  Series,      \* what a data point measures: its key and granularity
  PeriodOf,    \* PeriodOf[s][d]: the period of series s that date d falls into
  Raw,         \* values of properties and data points, as messages bring them
  MaxDate,     \* the largest date of a message
  NoDate,      \* the date of a property message that has none
  Incomplete,  \* an edge of a message that lacks a field
  Invalid      \* a message that does not parse, lacks a field or has a date nobody can read

Date == 0..MaxDate

ASSUME DateAssumption == MaxDate \in Nat /\ NoDate \notin Date
ASSUME NullAssumption == Null \notin UNION {[F -> Value] : F \in SUBSET Field}
ASSUME PeriodAssumption ==
  /\ PeriodOf \in [Series -> [Date -> Period \cup {NoPeriod}]]
  /\ \A s, t \in Series : \A d, e \in Date :   \* a period has its key and granularity in its name
       PeriodOf[s][d] = PeriodOf[t][e] /\ PeriodOf[s][d] # NoPeriod => s = t

\* PropertyMessage, TemporalMessage and KafkaEntityMessage.
PropertyMessage == [entity : Entity, field : Field, value : Raw, date : Date \cup {NoDate}]

PointMessage == [entity : Entity, series : Series, value : Raw, date : Date]

GraphMessage == [entity : Entity, edges : Seq([to : Entity, type : LinkType] \cup {Incomplete})]

Topic == {"entity-properties", "temporal-data", "entities-edges"}

MessageOf == [t \in Topic |-> CASE t = "entity-properties" -> PropertyMessage
                                [] t = "temporal-data"     -> PointMessage
                                [] t = "entities-edges"    -> GraphMessage]

\* One message that is not valid is an error of the whole batch, before anything is written.
ValidBatch(batch) == \A i \in DOMAIN batch : batch[i] # Invalid

-----------------------------------------------------------------------------
(***************************************************************************)
(* The aggregation.                                                        *)
(***************************************************************************)

\* parseReferenceDate: a property without a date has that of its processing, which is later
\* than the dates messages bring, and later again for each message of the batch.
DateIn(batch, i) == IF batch[i].date = NoDate THEN MaxDate + i ELSE batch[i].date

\* Mutant: the oldest value wins.
Bug_Newest(batch, I) ==
  CHOOSE i \in I : \A j \in I : \/ DateIn(batch, i) < DateIn(batch, j)
                                \/ DateIn(batch, i) = DateIn(batch, j) /\ i <= j

\* Of the messages I of one key, the one that stays in the map: the first with the latest date.
Newest(batch, I) ==
  CHOOSE i \in I : \A j \in I : \/ DateIn(batch, i) > DateIn(batch, j)
                                \/ DateIn(batch, i) = DateIn(batch, j) /\ i <= j

\* The EntityPropertiesConsumer: a document for each entity, that has for each field the
\* newest value of the batch, and its date.
Document1(batch, e) ==
  LET mine == {i \in DOMAIN batch : batch[i].entity = e}
  IN  [f \in {batch[i].field : i \in mine} |->
         LET n == Newest(batch, {i \in mine : batch[i].field = f})
         IN  <<batch[n].value, DateIn(batch, n)>>]

PropertyRequest(batch) ==
  LET firsts == {i \in DOMAIN batch : \A j \in 1..(i - 1) : batch[j].entity # batch[i].entity}
  IN  [entities |-> [i \in firsts |-> [entity |-> batch[i].entity,
                                       doc |-> Document1(batch, batch[i].entity)]],
       links |-> <<>>]

\* The TemporalDataConsumer: one point for each entity and series, whatever their dates.
PointRequest(batch) ==
  LET Rivals(i) == {j \in DOMAIN batch : /\ batch[j].entity = batch[i].entity
                                         /\ batch[j].series = batch[i].series}
  IN  [points |-> [i \in {Newest(batch, Rivals(i)) : i \in DOMAIN batch} |->
         [entity |-> batch[i].entity, period |-> PeriodOf[batch[i].series][batch[i].date],
          reading |-> [value |-> batch[i].value, date |-> batch[i].date]]]]

\* The complete edges of the batch, by message and place in it.
Links(batch) ==
  LET places == UNION {{<<i, k>> : k \in {k \in DOMAIN batch[i].edges : batch[i].edges[k] # Incomplete}} :
                         i \in DOMAIN batch}
  IN  [p \in places |-> LET edge == batch[p[1]].edges[p[2]]
                        IN  [from |-> batch[p[1]].entity, to |-> edge.to, type |-> edge.type]]

First(P) == CHOOSE p \in P : \A o \in P : p[1] < o[1] \/ (p[1] = o[1] /\ p[2] <= o[2])

\* entitiesMap: the entity a batch gives a reference.  The entity of a later message replaces
\* what is there; an entity an edge refers to is added if nothing is.
EntityFor(batch, links, r) ==
  LET mains == {i \in DOMAIN batch : RefOf[batch[i].entity] = r}
  IN  IF mains # {} THEN batch[Last(mains)].entity
      ELSE links[First({k \in DOMAIN links : RefOf[links[k].to] = r})].to

\* The EntitiesEdgesConsumer: an entity for each reference, without properties, and every
\* complete edge.
GraphRequest(batch) ==
  LET links == Links(batch)
      refs == {RefOf[batch[i].entity] : i \in DOMAIN batch}
                \cup {RefOf[links[k].to] : k \in DOMAIN links}
  IN  [entities |-> [r \in refs |-> [entity |-> EntityFor(batch, links, r), doc |-> Null]],
       links |-> [k \in DOMAIN links |->
                    [from |-> RefOf[links[k].from], to |-> RefOf[links[k].to], type |-> links[k].type]]]

RequestOf(t, batch) == CASE t = "entity-properties" -> PropertyRequest(batch)
                         [] t = "temporal-data"     -> PointRequest(batch)
                         [] t = "entities-edges"    -> GraphRequest(batch)

-----------------------------------------------------------------------------
(***************************************************************************)
(* The statement of a batch, as its transaction commits.  "rows" are the   *)
(* tables at that moment: the upserts wait for the calls that hold a row   *)
(* and hold it themselves until the commit, so that each meets its row as  *)
(* it still is.  "seen" are the entities of the statement's snapshot,      *)
(* which is older.                                                         *)
(***************************************************************************)

Known(rows) == {e \in Entity : rows[e] # NoRow}

\* Mutant: DO NOTHING instead of DO UPDATE.
Bug_EntityUpserts(q, seen) == {t \in EntityTasks(q, seen) : t.row \notin seen}

EntityUpserts(q, seen) == EntityTasks(q, seen)

Changes(t, rows) == Upserted(t.row, rows[t.row], t.new) # rows[t.row]

\* Mutant: only the entities that were inserted or updated are found.
Bug_Found(q, rows, seen) ==
  Resolved(q, {t.row : t \in {t \in EntityUpserts(q, seen) : Changes(t, rows)}})

\* entity_ids: an entity that is not in the snapshot is found if its upsert changes it.
Found(q, rows, seen) ==
  Resolved(q, seen \cup {t.row : t \in {t \in EntityUpserts(q, seen) : Changes(t, rows)}})

\* The references of entities that another call has inserted under the statement: the upsert
\* waited for that call, changed nothing and did not return them.
Unseen(q, rows, seen) ==
  {RefOf[t.row] : t \in {t \in EntityUpserts(q, seen) : t.row \notin seen /\ ~Changes(t, rows)}}

Tasks(q, rows, seen) == EntityUpserts(q, seen) \cup DependentTasks(q, Found(q, rows, seen))

Timeless(t) == t.row \in Point /\ t.row[2] = NoPeriod

\* UpsertDataPoints inserts an entity that another call has inserted since its snapshot.
Duplicated(t, q, rows) == t.row \in Entity /\ ~IsSync(q) /\ rows[t.row] # NoRow

\* ON CONFLICT refuses a row the statement has changed already: two upserts of one row go
\* well if the one that changes it comes last.
CanPass(q, rows, seen) ==
  \A s, t \in Tasks(q, rows, seen) :
    /\ ~Timeless(s) /\ ~Duplicated(s, q, rows)
    /\ s.row = t.row /\ Changes(s, rows) /\ Changes(t, rows) => s = t

CanBeRefused(q, rows, seen) ==
  \E s, t \in Tasks(q, rows, seen) :
    \/ Timeless(s) \/ Duplicated(s, q, rows)
    \/ s # t /\ s.row = t.row /\ Changes(s, rows)

\* The tables after a statement that passes.
Result(q, rows, seen) ==
  LET changing == {t \in Tasks(q, rows, seen) : Changes(t, rows)}
      new == [row \in {t.row : t \in changing} |-> (CHOOSE t \in changing : t.row = row).new]
  IN  [row \in Row |-> IF row \in DOMAIN new THEN Upserted(row, rows[row], new[row]) ELSE rows[row]]

=============================================================================
