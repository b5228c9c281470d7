-------------------------------- MODULE Ingest --------------------------------
(***************************************************************************)
(* An ingestion process: from one partition of its topic to the tables.    *)
(*                                                                         *)
(* The loop is KafkaConsumer's; here its handler is opened up: a batch is  *)
(* aggregated to one request, which the statement of one transaction       *)
(* stores: it begins with a snapshot of the tables and takes effect when   *)
(* the transaction commits.  Messages come again after crashes, in other   *)
(* batches than before, and an evicted process may store a batch while its *)
(* successor stores another one, or after it has stored the same.          *)
(***************************************************************************)
EXTENDS IngestBatch

CONSTANTS
  Consumer, BatchSize, MaxMessages, MaxInterruptions,   \* of KafkaConsumer
  Offered,    \* Offered[t]: the messages that topic t may have
  Faulty      \* TRUE if connections to the database may be lost

ASSUME BatchSizeAssumption == BatchSize \in Nat \ {0}
ASSUME BoundsAssumption == MaxMessages \in Nat /\ MaxInterruptions \in Nat
ASSUME OfferedAssumption ==
  /\ DOMAIN Offered \subseteq Topic
  /\ \A t \in DOMAIN Offered : \A m \in Offered[t] : m = Invalid \/ m \in MessageOf[t]
ASSUME RawAssumption == Raw \cup (Raw \X (0..(MaxDate + BatchSize))) \subseteq Value
ASSUME FaultyAssumption == Faulty \in BOOLEAN

VARIABLES
  end, owner, committed, base, loop, closing, low, next, marked, handled, failed,
  interruptions,   \* of KafkaConsumer
  topic,    \* the topic: which of the three consumers this is
  log,      \* its messages, that of offset o at log[o + 1]
  rows,     \* the tables
  open,     \* the processes whose statement is under way
  seen,     \* seen[c]: the entities in the snapshot of the statement of c
  stored,   \* offsets of the messages whose batch a transaction has stored
  shadowed, \* those of them that a batch stored after them lies before: older messages, stored again
  overtaken \* those of them that have a link whose end another call inserted under their statement

loopVars == <<end, owner, committed, base, loop, closing, low, next, marked, handled, failed,
              interruptions>>
tables == <<rows, stored, shadowed, overtaken>>
statements == <<open, seen>>
vars == <<loopVars, topic, log, tables, statements>>

\* Which batches fail is told here: the loop's own Poison has no part in it.
Loop == INSTANCE KafkaConsumer WITH Poison <- {}

At(o) == log[o + 1]

\* The messages the handler is called with.
Messages(c) == SubSeq(log, low[c] + 1, next[c])

Init ==
  /\ Loop!Init
  /\ topic \in DOMAIN Offered
  /\ log = <<>>
  /\ rows = [row \in Row |-> NoRow]
  /\ open = {}
  /\ seen = [c \in Consumer |-> {}]
  /\ stored = {}
  /\ shadowed = {}
  /\ overtaken = {}

-----------------------------------------------------------------------------
Produce == /\ Loop!Produce
           /\ \E m \in Offered[topic] : log' = Append(log, m)
           /\ UNCHANGED <<topic, tables, statements>>

Request1(c) == RequestOf(topic, Messages(c))

\* The handler has made the request, and the statement begins.
Begin(c) ==
  /\ loop[c] \in {"handle", "handleLast"} /\ c \notin open
  /\ ValidBatch(Messages(c))
  /\ open' = open \cup {c}
  /\ seen' = [seen EXCEPT ![c] = Known(rows)]
  /\ UNCHANGED <<loopVars, topic, log, tables>>

\* The transaction of c is over.
Ends(c) == open' = open \ {c} /\ seen' = [seen EXCEPT ![c] = {}]

\* The message of offset o has a link with an end among these references.
HasEnd(o, refs) ==
  /\ topic = "entities-edges"
  /\ \E k \in DOMAIN At(o).edges :
       At(o).edges[k] # Incomplete /\ {RefOf[At(o).entity], RefOf[At(o).edges[k].to]} \cap refs # {}

\* The transaction stores the batch.
Stores(c) ==
  LET q == Request1(c)
      unseen == Unseen(q, rows, seen[c])
  IN  /\ c \in open /\ Ends(c)
      /\ ValidBatch(Messages(c))
      /\ CanPass(q, rows, seen[c])
      /\ rows' = Result(q, rows, seen[c])
      /\ stored' = stored \cup Loop!Batch(c)
      /\ shadowed' = (shadowed \ Loop!Batch(c)) \cup {o \in stored : o >= next[c]}
      /\ overtaken' = (overtaken \ Loop!Batch(c))
           \cup {o \in Loop!Batch(c) : HasEnd(o, unseen) /\ (o \in stored => o \in overtaken)}

\* The transaction commits.  handleMessages returns no error, unless the answer to Commit is lost.
Commit(c) ==
  /\ Stores(c)
  /\ Loop!HandlerSucceeds(c) \/ (Faulty /\ Loop!HandlerFails(c))
  /\ UNCHANGED <<topic, log>>

\* The repository may return an error: the statement is refused or PostgreSQL cancels it, for
\* it and another wait for each other's rows, or the database cannot be reached.
MayFail(c) ==
  ValidBatch(Messages(c)) =>
    \/ Faulty
    \/ c \in open /\ (open # {c} \/ CanBeRefused(Request1(c), rows, seen[c]))

\* Mutant: an error of the repository is logged only.
Bug_Refuse(c) == /\ IF ValidBatch(Messages(c)) THEN Loop!HandlerSucceeds(c) ELSE Loop!HandlerFails(c)
                 /\ MayFail(c) /\ Ends(c)
                 /\ UNCHANGED <<topic, log, tables>>

\* handleMessages returns an error and nothing is stored.
Refuse(c) == Loop!HandlerFails(c) /\ MayFail(c) /\ Ends(c) /\ UNCHANGED <<topic, log, tables>>

\* With the process its connection is gone, and the transaction is rolled back.
Crash(c) == Loop!Crash(c) /\ Ends(c) /\ UNCHANGED <<topic, log, tables>>

Outside(action) == action /\ UNCHANGED <<topic, log, tables, statements>>

Member(c) == Outside(Loop!Join(c) \/ Loop!AutoCommit(c) \/ Loop!Leave(c))
Interrupt(c) == Outside(Loop!Rebalance(c) \/ Loop!Evict(c))
Collect(c) == Outside(Loop!Deliver(c) \/ Loop!Timer(c) \/ Loop!Drain(c))
Mark(c) == Outside(Loop!Mark(c))

Next ==
  \/ Produce
  \/ \E c \in Consumer :
       \/ Begin(c) \/ Commit(c) \/ Refuse(c)
       \/ Member(c) \/ Interrupt(c) \/ Crash(c) \/ Collect(c) \/ Mark(c)

Spec == Init /\ [][Next]_vars

-----------------------------------------------------------------------------
(***************************************************************************)
(* Properties.                                                             *)
(***************************************************************************)

\* Type invariant of the log and the tables.
TypeOK ==
  /\ Loop!TypeOK
  /\ topic \in DOMAIN Offered
  /\ log \in Seq(Offered[topic]) /\ Len(log) = end
  /\ DOMAIN rows = Row /\ \A row \in Row : rows[row] \in Content(row) \cup {NoRow}
  /\ open \in SUBSET Consumer
  /\ seen \in [Consumer -> SUBSET Entity]
  /\ stored \in SUBSET (0..(end - 1))
  /\ shadowed \in SUBSET stored
  /\ overtaken \in SUBSET stored

\* The process is a consumer loop like any other: for the loop, a batch is one call of the
\* handler that succeeds or fails.
LoopIsImplemented == Loop!Spec

\* What the store promises of a call.
Store == INSTANCE GraphStore WITH Writer <- Consumer, Requests <- <<>>, table <- rows, done <- {}

\* What a call of the store with the batch of c makes of the tables.  (A link or a point may
\* stay as it is, whatever the request.)
IsCall(c) ==
  /\ ValidBatch(Messages(c))
  /\ LET q == Request1(c)
     IN  \A row \in Row : row \in Entity \/ rows'[row] # rows[row] =>
                            rows'[row] \in Store!Outcomes(q, row, rows[row])

\* A batch takes effect as one call of the store, which concurrent calls implement row by row
\* (GraphWrite): every entity of its request is merged into the row as it is at that moment,
\* and no row changes that the request does not ask for.
StoresAreCalls == [][rows' # rows \/ stored' # stored => \E c \in Consumer : IsCall(c)]_vars

\* Two messages that can have been in one batch.
Mates(o, p) == o - p < BatchSize /\ p - o < BatchSize

PlaceOf(m) == <<m.entity, PeriodOf[m.series][m.date]>>

\* A point that the batch had a newer one of the same series with: the dates differ, and so
\* may the periods.
Dropped(o) ==
  \E p \in stored : /\ Mates(o, p)
                    /\ At(p).entity = At(o).entity /\ At(p).series = At(o).series
                    /\ At(p).date > At(o).date

\* An entity whose reference the batch gave to an entity of another type.
Renamed(o) ==
  \E p \in stored : /\ Mates(o, p) /\ At(p).entity # At(o).entity
                    /\ RefOf[At(p).entity] = RefOf[At(o).entity]

LinkRows(from, to) == {row \in Edge : RefOf[row[1]] = RefOf[from] /\ RefOf[row[2]] = RefOf[to]}

HasLeftRows(o) ==
  LET m == At(o)
  IN  CASE topic = "entity-properties" ->
             rows[m.entity] \notin {NoRow, Null} /\ m.field \in DOMAIN rows[m.entity]
        [] topic = "temporal-data" -> rows[PlaceOf(m)] # NoRow \/ Dropped(o)
        [] topic = "entities-edges" ->
             /\ rows[m.entity] # NoRow \/ Renamed(o)
             /\ \/ o \in overtaken
                \/ \A k \in DOMAIN m.edges : m.edges[k] # Incomplete =>
                     \E row \in LinkRows(m.entity, m.edges[k].to) : rows[row] # NoRow

\* A message the handler has taken without an error is in the tables, whatever batches failed
\* or came twice: its field; its entity, and its links unless another call inserted an end of
\* one of them under the statement of every batch that stored it; or its point unless a batch
\* had a newer one.
HandledIsStored == \A o \in handled : HasLeftRows(o)

\* Every message the group has passed is in the tables, or was in a batch whose handler failed.
PassedIsStored ==
  \A o \in base..(committed - 1) : o \in failed \/ (At(o) # Invalid /\ HasLeftRows(o))

\* The inductive strengthening of these two: a loop never collects more than a batch, what a
\* statement has seen is still there, and what has been stored stays in the tables, whether its
\* batch counted as handled or not.
Bounded(c) == /\ next[c] - low[c] <= BatchSize
              /\ loop[c] = "collect" => next[c] - low[c] < BatchSize

IInv ==
  /\ TypeOK
  /\ Loop!IInv
  /\ \A c \in Consumer : Bounded(c) /\ seen[c] \subseteq Known(rows)
  /\ handled \subseteq stored
  /\ \A o \in stored : At(o) # Invalid /\ HasLeftRows(o)

Rank(m) == IF m.date = NoDate THEN MaxDate + 1 ELSE m.date

SameKey(m, n) == /\ m.entity = n.entity
                 /\ IF topic = "entity-properties" THEN m.field = n.field ELSE m.series = n.series

\* The messages of a key come in the order of their dates.
InDateOrder ==
  \A p \in 0..(end - 1) : \A o \in 0..(p - 1) :
    At(o) # Invalid /\ At(p) # Invalid /\ SameKey(At(o), At(p)) =>
      Rank(At(o)) < Rank(At(p)) \/ (At(o).date = NoDate /\ At(p).date = NoDate)

SamePlace(m, n) == /\ SameKey(m, n)
                   /\ topic = "temporal-data" => PlaceOf(m) = PlaceOf(n)

Shows(o) ==
  LET m == At(o)
  IN  IF topic = "entity-properties" THEN rows[m.entity][m.field][1] = m.value
      ELSE rows[PlaceOf(m)] # NoRow /\ rows[PlaceOf(m)].value = m.value

\* No two types of entity share a reference: points are joined to entities by reference alone,
\* and a batch that names both entities gives each the points of the other.
NoSharedReference ==
  \A o, p \in 0..(end - 1) :
    At(o) # Invalid /\ At(p) # Invalid /\ RefOf[At(o).entity] = RefOf[At(p).entity] =>
      At(o).entity = At(p).entity

\* Newer wins, if the messages of a key come in the order of their dates: every field and every
\* period has the value of the newest of its messages that is stored, however crashes, failures
\* and evictions made batches come again, in other company than before, unless a batch before
\* that message has been stored again and the message itself has not, or not yet.
NewestWins ==
  topic # "entities-edges" /\ InDateOrder /\ (topic = "temporal-data" => NoSharedReference) =>
    \A o \in stored \ shadowed :
      \/ \E p \in stored : p > o /\ SamePlace(At(o), At(p))
      \/ topic = "temporal-data" /\ Dropped(o)
      \/ Shows(o)

\* What the README says of the deduplication of data points: the date is part of their key, so
\* that points of other dates are never duplicates.
EveryPointIsStored ==
  topic = "temporal-data" => \A o \in handled : rows[PlaceOf(At(o))] # NoRow

=============================================================================
