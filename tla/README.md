# Verification of the user profile store

This directory holds TLA+ models of the user profile service (Go), the
configurations TLC checks them under, and proofs that TLAPS checks. The service
stores a graph of profile entities with data points over time in PostgreSQL,
answers queries for trees of entities through a Redis cache, is fed by Kafka
consumers and an HTTP interface, and turns the changes of its tables into domain
events. Paths below are relative to the repository.

1. [The system](#1-the-system)
2. [Modules and the code they model](#2-modules-and-the-code-they-model)
3. [What the runs check](#3-what-the-runs-check)
4. [What is proved](#4-what-is-proved)
5. [What is not modelled](#5-what-is-not-modelled)
6. [Plan](#6-plan)

## 1. The system

| Component | State it keeps | Operations | What is hard | What makes it correct |
|---|---|---|---|---|
| `CachedGraphRepository` | none of its own; hashes `graph:tree:<md5>` and sets `registry:entity:<id>` in Redis | `QueryTree`, the goroutine that fills the cache, `InvalidateByEntityIDs` | the fill and the invalidation are goroutines nobody waits for; their Redis commands interleave, fail and get lost | a cached answer is registered under its entities, and a finished write leaves no older answer behind |
| `RedisClient` | a cluster connection | `GetKey`, `SetWithRegistry`, `GetMultipleSetMembers`, `InvalidateEntity` | pipelines over several nodes are neither atomic nor ordered | registries outlive what they list |
| `GraphQueryRepository`, the snapshots | the read replica | `QueryTree`: one recursive query, one for data points | replica lag; two snapshots; an error between rows | an answer holds what its two snapshots held |
| `GraphWriteRepository` | entities and edges on the primary | `SyncGraph` | concurrent statements over the same rows in random order; snapshot against current row; deadlocks | each call atomic; the ids it returns cover what it changes |
| `TemporalWriteRepository` | data points on the primary | `UpsertDataPoints` | the same, and an insert without a conflict clause | the same |
| `KafkaClient`, consumer side | the slice and timer of `ConsumeClaim`, the session's marks, the group's offset | `Consumer`, `ConsumeClaim`, `processBatch` | rebalance, eviction, crash; a failed batch | no message passed over untried |
| `KafkaClient`, producer side | none | `Producer`: one goroutine per message | order of events of an entity; partial failures and their retry | events of an entity in order; no error swallowed |
| Consumers of entities-edges, entity-properties, temporal-data | a batch | aggregation to one request | newer-wins and deduplication work within one batch only; batches come again in other company; one bad message fails a batch | what a handler has taken is in the table, and the newest value stays |
| CDC consumer, `CDCTransformer`, `DomainEventPublisher`, Debezium client | none | change records to domain events | idempotency keys by the second; events that fail to transform; repeated sends | no change passed over; a reader that follows the events knows the rows |
| `GraphQueryRepository`, `GraphService`, `MapDomainToResponse` | none | rows to node list to trees | cycles, shared nodes, roots, the limit on data points | the answer is the neighbourhood asked for; no endless recursion |
| HTTP adapters | none | checks of requests, status codes | a panic of one request that ends the process | – |
| `main` packages, `env` | none | wiring | – | – |

How they interact: the HTTP adapters and three of the consumers call `SyncGraph`
and `UpsertDataPoints`, which write to the primary and start, each in a goroutine,
the invalidation of the cache. Readers call `CachedGraphRepository.QueryTree`,
which asks Redis and then the **replica**, and fills the cache in a goroutine.
The same transactions are seen by Debezium, whose records the CDC consumer turns
into events on another topic. Every consumer is a process of its own and runs the
same loop of `KafkaClient`.

`PROJECT.json` lists each component with its sources and status, and every hazard
with the line where it bites and the properties that would catch it.

## 2. Modules and the code they model

| Module | Models | Its abstraction |
|---|---|---|
| `GraphCache` | `cached_graph_repository.go`, `redis.go`, `graph_query_repository.go`, and the ends of the two write repositories | a database state is the set of writers whose commits it contains |
| `GraphRows` | the rows, requests and upserts: `schema.sql`, the CTEs of the two statements, `mergeJSONProperties` | names and JSON values are model values |
| `GraphStore` | what a call of `SyncGraph` or `UpsertDataPoints` promises | abstract specification: one step per call |
| `GraphWrite` | the transactions of the two write repositories, row by row, with PostgreSQL's locks and snapshots | one action per upsert of a row |
| `KafkaConsumer` | the consumer half of `kafka.go` with the broker around it | a message is its offset; the handler succeeds or fails |
| `CdcTransformer` | `cdc_transformer.go`, `serializer.go`: the event of one change record | the content of a row is a function of its fields |
| `CdcPipeline` | the CDC transformer process: change log, `client.go`, `cdc_consumer.go`, `domain_event_publisher.go` and `Producer` on the loop of `KafkaConsumer` | the topic is what a reader of it knows |
| `IngestBatch` | the aggregations of the three ingestion consumers, and the statement of a request by itself | dates are numbers; keys of Go maps stand for themselves |
| `Ingest` | an ingestion process: `IngestBatch` on the loop of `KafkaConsumer` | a transaction is two steps, the snapshot of its statement and its commit (`GraphWrite` has its rows) |
| `GraphTree` | the HTTP server: routes, `GraphService`, `QueryTree`, `MapDomainToResponse` | of an entity's properties, whether it has the searched one |
| `GraphCacheProofs`, `GraphRowsProofs`, `GraphWriteProofs`, `KafkaConsumerProofs`, `CdcPipelineProofs`, `IngestBatchProofs`, `IngestProofs`, `GraphTreeProofs` | – | the proofs |
| `MCGraphCache`, `MCGraphWrite`, `MCCdcPipeline`, `MCIngest`, `MCGraphTree` | – | small instances for TLC |

### GraphCache

`tx`, `wal` and `replayed` are the transactions on the primary, the commits that
are on their way to the replica, and what the replica answers from. `inv[w]` is
the goroutine of writer `w`: the entities whose registry it still has to read and
then the keys it still has to delete. `req[r]` is a call of `QueryTree` with the
goroutine that follows it; `cache` and `registry` are Redis.

One action is one Redis command, because a pipeline on a cluster is sent to
several nodes: `ReadRegistry` is an SMEMBERS, `DeleteKey` a DEL, `FillCommand` an
HSET or SADD, each with its EXPIRE. `Execute` starts the invalidation **in the step of the
statement and before `Commit`**, as the code does
(`graph_write_repository.go:171` and `:177`). A cache hit changes nothing and is
no action.
Which entities a query finds (`Members`) is a constant: any function of the rows
that have changed. That the rows a write changes belong to the ids it returns is
a guard of `SyncGraph` here and a theorem of `GraphWrite` (`ChangeIsReturned`).

There is **one replica**, because the code has one read host (`DB_READ_HOST`, `.env:8`): once it
has replayed a commit, no later read goes back before it. `README.md:55`, `162-163`,
`208` and `235` draw two. With two, a read may be older than the one before it, and a quiet
fill does take an answer back: that deployment is the mutant `Bug_ReadGraphFromAnyReplica`,
which TLC finds to violate `QuietFillNeverGoesBack`. `replayed` as one growing prefix is
also what the theorem `NeverBack` rests on.

`disturbed` is a history variable in each entry: it is set when a write of
one of the entities, a failed command or a lost goroutine interferes with the fill
or the removal of the entry, and no guard reads it. It lets the safety properties
say exactly which interference the code does not survive: what happens to a fill that
overlaps a write of its entities is not their subject but that of `cache_stale`.

Time to live: an entry may expire at any moment. Every SADD renews the registry with
the `defaultTTLSeconds` of the entry (120 unless configured), and a fill has 30
seconds for all its commands: a registry does not expire during a fill that has
renewed it, and ends before an entry it lists only if the SADD came well before the
HSET, which counts as a fault (`ExpireRegistry`). HSET and EXPIRE of one key are one
step: they travel in one write to one node. An EXPIRE that is lost alone would leave
an entry for ever, and is listed as a hazard.

### GraphRows, GraphWrite, GraphStore

A row is an entity, an edge (a pair of entities) or a data point (entity and
period), named by the columns of its unique constraint. `Upserted` is what the
three ON CONFLICT clauses make of a row; `Merged` is what `SyncGraph` makes of an
entity that a request names several times; `EntityTasks`, `Resolved` and
`DependentTasks` are the CTEs.

`Start` takes the statement's snapshot; `Upsert` works on the row as it is when
the statement comes to it (READ COMMITTED), waits for the transaction that holds
the row (`Wait`), and locks it even if it changes nothing, although RETURNING
then leaves it out. `Resolve` joins links and points to ids after all entities are
done: the main SELECT reads `entity_ids` to its end, and so every upsert of
entities runs. `Refuse` is a statement that fails (a second conflict on one row, an
entity inserted since NOT EXISTS, a NULL key), `Cancel` deadlock detection, `Lose`
a lost connection, the 10 seconds of `lock_timeout` or the 30 of
`statement_timeout`. The locks that foreign keys take (KEY SHARE) do not conflict
with these updates and are left out: a link or point refers to entities of the snapshot
or of the statement itself (`Found`), and no statement deletes an entity, so that a foreign
key is never what fails. The error of `rows.Err` is not looked at after the statement, but pgx
returns an error from the commit of an aborted transaction, so that the call still
fails. Empty requests are refused by the services or return at once.

`GraphStore` is the specification `GraphWrite` implements: a call applies its
whole request to the rows of that moment or does nothing. It is loose in one
place, where the code is: a link or point may be left out, because the call may
not have seen an entity.

### KafkaConsumer

One partition. `low[c]..next[c]-1` is the slice `messages`; `loop[c]` is the place
in `ConsumeClaim` and `processBatch`; `marked[c]` is the session's mark. `Deliver`,
`Timer` and `Drain` are the branches of the select and stay possible together, as
in Go. The broker is external: it delivers in order, commits the highest mark now
and then (`AutoCommit`) and refuses a commit from a consumer that is not the owner.
`Evict` takes the partition from a consumer that is still running.
`Join` is also how a consumer that crashed comes back: nothing in the repository does this
(`docker-compose.yaml` has no service for the Go processes), it is the operator's part.

### CdcTransformer, CdcPipeline

`CdcPipeline` composes the loop (`Loop == INSTANCE KafkaConsumer`) with its handler opened
up: `Begin` is `processCDCMessagesBatch` and `handleCDCEventsBatch` up to the call of
`Producer`; each `Send` or `SendFails` is one of its goroutines; `Return` collects the
results. `rows` and `log` are the tables and Debezium's records of their changes. An
update of a data point may come without the row as it was (`Sightless`): `REPLICA IDENTITY
FULL` of a partitioned table (`schema.sql:80`) does not reach its partitions. `view` is a
reader that ignores an event whose idempotency key it has seen, which is what the key is
for. A data point's date is part of its content and not of its name: a row holds the newest
value of its period, ON CONFLICT replaces value and date together
(`temporal_write_repository.go:160-163`), and the date is what tells its events apart
(`CurrentDate` in `IdempotencyKey`). The reader therefore has to follow a point through
updates of several dates; two changes for one date have one key, and are hazards
(`cdc_transformer.go:293`, `:533`) that `Distinct` leaves out.

`Producer` waits for the acknowledgement of the partition's leader only (`WaitForLocal`,
`kafka.go:47`): an event whose send has succeeded can be lost if that broker fails before
another has it. The topic of the model keeps what it has acknowledged.

`disturbed` is a history variable: a send has failed, or a batch had two events of one
key, whose goroutines race. What is claimed of order is claimed while it is false.

### IngestBatch, Ingest

`PropertyRequest`, `PointRequest` and `GraphRequest` are what the three `handleMessages`
make of a batch, and `Result` is what the statement of a request leaves in the tables, from
the same `EntityTasks`, `DependentTasks` and `Upserted` that `GraphWrite` uses row by row. It
has two arguments beside the request: the rows as they are at the commit, which the upserts
work on, and the entities of the statement's older snapshot. An entity is found (`Found`,
which is `entity_ids`) if it is in the snapshot or its upsert changed something; one that
another call has inserted meanwhile is not (`Unseen`), and its links are left out without an
error. `UpsertDataPoints` in the same place inserts a duplicate and fails
(`Duplicated`). `CanPass` and `CanBeRefused` overlap, because ON CONFLICT
finds a second conflict on one row only after the first upsert has changed it.

`Ingest` puts them on the loop: `Begin` makes the request and takes the snapshot of the
statement; `Commit` stores the batch, and the handler succeeds, or fails if the answer to the
commit is lost; `Refuse` is an error of the message, the statement or the connection; a
`Crash` rolls the transaction back. Between `Begin` and `Commit` the other process may
commit: an evicted process and its successor store overlapping batches at once. After a
crash or an eviction messages come again in other batches than before, and an evicted process
may store a batch its successor has stored already. Two history variables name what
the code does not survive. `shadowed` are the messages in the tables that a batch stored
after them lies before. `overtaken` are those with a link whose end another call inserted
under each statement that stored them: SyncGraph drops such a link and returns no error, so
that its batch is marked and committed. Without the exception for `overtaken` TLC finds the
lost link in `ingest_links`: process 1 has upserted an entity and is evicted; process 2 takes
its snapshot; process 1 commits; process 2 finds the entity there, changes nothing, and
commits without the link.

`Store` is `GraphStore` on these tables. That a transaction takes its effect at its commit,
on the rows of that moment, is what `GraphWrite` shows of it row by row; the writers of the
other topics and of the HTTP interface are not in `Ingest`.

### GraphTree

`Ask` is what a handler checks before it calls a service; `ReadGraph` and `ReadPoints` are
the two queries of `QueryTree`, at two moments of the replica, and the tree builder;
`Reply` and `Overflow` are the two ends of `MapDomainToResponse`. The trees of a response
are shared nodes: what is nested is the unfolding of one set of links (`Shown`), and it is
endless when it comes to a cycle (`Endless`). Go ends a process whose stack overflows, with
every request in it, and nothing in the repository starts it again (`docker-compose.yaml`
has no service for it): in the model it stays dead.

A write is `Begin`, the snapshot of its statement (`known`), and `Commit`, so that two writes
overlap. `Written` is what either statement leaves: `UpsertDataPoints` inserts the entities it
does not know and stores their points, and fails if another call inserted one meanwhile
(`Duplicates`); `SyncGraph` leaves out a link whose end it did not find (`Finds`).
Entities, series and months are numbers, because answers are sorted by them.

## 3. What the runs check

| Run | Instance | Shows |
|---|---|---|
| `cache_writers` | 2 entities, 1 query, 1 reader, a `SyncGraph` and an `UpsertDataPoints`, no faults; 1.7 million states | `QuietEntryIsCoherent`: a cached answer nothing interfered with is registered under its entities and misses no finished write |
| `cache_fresh` | 2 queries, by id and by property, faults, fairness; 370 000 states | the inductive invariant `IInv`; `QuietFillNeverGoesBack`: a quiet fill never replaces an answer by one that lacks a commit the old one had; `EventuallyUpToDate`: once writes stop, every cached answer is what the database would answer |
| `kafka_loop` | 2 consumers, 3 messages, batches of 2, 1 message that can never be processed, 2 interruptions; 69 000 states | `NeverSkippedUntried`, `EveryMessageIsTried` |
| `graph_write` | 3 calls over 3 entities, 2 of them with one reference, faults; 104 000 states | `IInv`, `FoundIsStored`, `ChangeIsReturned`, `CallsAreAtomic` (refinement of `GraphStore`), `EveryCallEnds` |
| `cdc` | 2 processes, 3 messages of which the first does not parse, batches of 2, 1 interruption, 2 seconds, an entity of 2 properties and a data point of 2 values and 2 dates, failing sends; 0.95 million states up to symmetry | `PassedIsPublished`, `OrderedUnlessDisturbed`, `ReaderFollowsTheRow`, and the inductive `IInv` |
| `ingest` | each of the 3 topics; 2 processes, 3 messages, batches of 2, 1 interruption, faults; 1.15 million states up to symmetry | `HandledIsStored`, `PassedIsStored`: what the group has passed is in the tables unless its handler failed; `NewestWins`; `StoresAreCalls`: the tables change only as `GraphStore` lets a call change them |
| `ingest_links` | the topic entities-edges; 2 processes, 2 messages, batches of 2, **2** interruptions, faults; 440 000 states up to symmetry | `HandledIsStored`, `PassedIsStored` where an evicted process commits under the statement of its successor: nothing but the links of `overtaken` messages is lost |
| `tree` | 3 entities (the third may be missing), 4 links and two matches to begin with in any combination, 11 kinds of read and 7 of write, 2 of which may overlap, faults; 735 000 states | `AnswerIsTheNeighbourhood`, `EveryMatchIsShown`, `NewestPointsStay`, `OnlyCyclesKill`, and the inductive `IInv` |

Four runs end in a violation: the code does not do what its documentation says.

| Run | Statement | What happens |
|---|---|---|
| `cache_stale` | `README.md:746`: a change invalidates the queries that contain the entity | the invalidation may be over before the commit, or before the replica has it; a reader then caches the old answer until its time to live ends |
| `kafka_retry` | `kafka.go:278`: messages of a failed batch will be retried | a later batch marks a higher offset and the commit passes them |
| `graph_write_links` | `graph_write_repository.go:118`: the ids of all the entities involved | an entity inserted meanwhile by another call is not found, and its links are left out |
| `ingest_points` | `README.md:959`: points are deduplicated by a key that has their date | the key has no date: of the points of a series in a batch only the latest is stored |

Further disagreements between code and documents that were met on the way. They need no
search, and the models follow the code:

* `schema.sql:42` makes relationships unique **of the same type**, `README.md:615` has the
  type in the conflict clause; the constraint and the clause of the code have the two
  entities only, so that a link of another type replaces the one that is there.
* `README.md:734` promises a reverse mapping of every cached query; a fill can register
  its query in a registry that an invalidation has read and now deletes, which leaves the
  answer cached and unregistered.
* `domain_event_publisher.go:62` keys events "by entity for ordering", but events of a
  batch are sent from goroutines of their own (`kafka.go:142`) in any order, and entity
  events have another key than those of links and points of the same entity.
* `README.md:996` and `:1287` speak of idempotency by a hash and by the LSN; the hash is of
  the **second** of the change (of an entity), without the other entity (of a link),
  without granularity and time of change (of a point), and the LSN is not used.
* `README.md:928` resolves conflicts by date; across batches the later batch wins.
* `README.md:954` gives a message with granularity `daily`, for which the idempotency key is
  NULL and the whole batch fails.
* `README.md:1300` gives `depth` a default of 3 and a maximum of 10; the code reads
  `depthLimit`, has a default of 5 and no maximum, and a response may nest deeper than
  asked for, because nodes are shared. `startTime` (not `period`) is refused when it is 12
  months before the current month. The route for batches answers 200 with an empty list when the
  query failed.
* A quarter's idempotency key (`temporal_write_repository.go:129`) divides without rounding:
  the three months of a quarter have three keys.

### Bounds, and why they are enough

* `GraphCache`: the races are between one write, one fill and one registry; two
  entities are needed for an answer whose registries differ, two queries for an entity
  that begins to match. Readers are reused, so that any number of fills follow one
  another. Each writer writes once: a second write of one caller is another
  writer. The theorems of section 4 hold for any number of each.
* `KafkaConsumer`: `MaxMessages` lets a batch and a rest exist (4 in `kafka_retry`:
  two batches), `MaxInterruptions` = 2 lets a partition go from one consumer to the
  other and back. Both bound counters that the theorems leave free.
* `GraphWrite`: three calls make a cycle of waiting and a third that meets its
  rollback; the requests include an entity named twice, a link named twice, an
  unknown granularity, and two entities with one reference.
* `CdcPipeline`: 3 messages make a batch and a rest; one interruption lets a process die or
  lose its partition once while the other takes over. Two images of an entity differ in both
  fields, so that an update also takes a field away. Two seconds let keys repeat or differ.
* `Ingest`: the same loop bounds. One interruption is enough for a batch to come again; that an
  evicted process commits under the statement of its successor takes a join, an eviction and
  what they lead to, and has a run of its own with two (`ingest_links`), where the
  links are dropped. The messages include a date left out, two dates of
  two periods, an invalid message, an incomplete edge, two entities of one reference and two
  types of link. `MaxDate` + the place in the batch stands for the clock, which is later than
  all dates of messages.
* `GraphTree`: 3 entities make a chain, a shared node, a self link and a cycle of two with an
  entity below it, and the databases without the third let writes insert it, one under the
  other's statement; depths are -1, 0, 1, 2 and the default 5; `MaxPoints` = 2 cuts 3 points.
* Deadlock checking is off in every run, because each system may stop: all calls are over,
  the producer has reached its bound, or the server is dead after an overflow.

### Fairness

* `GraphCache`: what has begun goes on (commit, replay, the goroutines' commands,
  expiry); no call has to begin and no fault has to happen. While the queries for
  data points keep losing rows, truncated answers may be cached again and again, because
  `rows.Err` of that query is not looked at: `cache_fresh` has no temporal writer.
* `KafkaConsumer`: `Consumer` calls `Consume` in an endless loop, so that a process
  that is out joins again, and one that has crashed is taken to be started again by whoever
  runs it: nothing in the repository does, and without it a group whose processes have
  all died makes no progress; every statement a handler runs has a timeout, so that it
  returns; the timer is reset after each batch. Success of the handler is not assumed.
  `EveryMessageIsTried` begins with the group's first committed offset: before it,
  `OffsetNewest` skips what was produced while the group was away.
* `CdcPipeline`, `Ingest` and `GraphTree` state no fairness: they have safety properties only, and
  the liveness of the loop they share is that of `KafkaConsumer`.
* `GraphWrite`: a statement that can go on goes on, and PostgreSQL cancels a
  call of a deadlock. No call has to begin.

## 4. What is proved

TLAPS checks these for every value of the constants that satisfies the named
assumptions: any entities, queries, readers, writers, requests, consumers, batch size
and bounds. The assumptions are typing and disjointness of sets, such as
`BatchSize \in Nat \ {0}` and `RowAssumption` (the three kinds of row differ).

| Module | Theorem | Property |
|---|---|---|
| `GraphCacheProofs` | `TypeCorrect`, `Inductive`, `Coherence`, `NeverBack` | `TypeOK`, `IInv`, `QuietEntryIsCoherent`, `QuietFillNeverGoesBack` |
| `KafkaConsumerProofs` | `TypeCorrect`, `Inductive`, `NothingIsSkipped` | `TypeOK`, `IInv`, `NeverSkippedUntried` |
| `GraphRowsProofs` | `MergedIsDocument`, `UpsertedIsContent` and lemmas | what the operators return |
| `GraphWriteProofs` | `Inductive`, `WorkIsStored`, `ChangesAreReturned`, `Atomic` | `IInv`, `FoundIsStored`, `ChangeIsReturned`, `CallsAreAtomic` |
| `CdcPipelineProofs` | `PipelineIsALoop`, `Inductive`, `NoChangeIsLost`, `InOrderUnlessDisturbed`, `ReaderFollows` | `LoopIsImplemented`, `IInv`, `PassedIsPublished`, `OrderedUnlessDisturbed`, `ReaderFollowsTheRow` |
| `IngestBatchProofs` | `PropertiesStay`, `PointsStay`, `GraphStays` and lemmas | what the statement of a batch leaves in the tables |
| `IngestProofs` | `IngestIsALoop`, `Inductive`, `NothingHandledIsLost`, `NothingPassedIsLost`, `NewerWins`, `BatchesAreCalls` | `LoopIsImplemented`, `IInv`, `HandledIsStored`, `PassedIsStored`, `NewestWins`, `StoresAreCalls` |
| `GraphTreeProofs` | `Inductive`, `AnswersAreNeighbourhoods`, `MatchesAreShown`, `NewestStay`, `OnlyACycleKills` | `IInv`, `AnswerIsTheNeighbourhood`, `EveryMatchIsShown`, `NewestPointsStay`, `OnlyCyclesKill` |

**The cache.** `QuietEntryIsCoherent` is not inductive: it says nothing while a
write is under way, and what a write leaves behind depends on what its
invalidation was going to do. `IInv` adds it. An entry is *doomed* when an
invalidation that meets it has its key among those it will delete. An undisturbed
entry that some registry does not list is doomed or about to be registered
(`UnregisteredIsDoomed`); so is one whose registry is about to be deleted
(`CollectedIsDoomed`); and one that lacks a commit is doomed, unless that commit's
invalidation has still to read a registry that lists it (`MissedWriteIsDoomed`). The
parts about fills under way (`QuietFillSawItsWrites`, `QuietFillIsRegistered`) carry
these to the moment the entry is written. Once no invalidation is left, nothing is
doomed, and coherence remains.

**The consumer.** What lies behind a slice, a mark or the committed offset has been
given to the handler. All three are needed, because an evicted consumer goes on with
its slice and its mark after the partition has another owner.

**The writes.** A row belongs to nobody and has no draft, or to one running call
(`RowsOK`); what that call has made of it is what its request asks of the committed
row (`DraftsOK`), because nobody else changes a row that is held; and each of its
upserts is done or still to do (`TasksOK`). The commit therefore applies a whole
request to the committed rows: the step of `GraphStore`.

**The pipeline.** Every step of it is a step of the loop or leaves the loop alone, so that it
implements `KafkaConsumer` and what is proved there holds of it. The strengthening says, of a
handler at work, that what it has taken from its batch is in the topic unless an error
says so (`BatchOK`); when it returns, what the loop counts as handled is published
(`HandledIsPublished`), and with the loop's own invariant nothing that is passed is missing.
For the order: an undisturbed handler has one event of a key in its batch, and all older
ones are behind its slice and so published.

For the reader (`ReaderFollowsTheRow`) the log itself has to say something:
`LogTellsTheRows` has each record continue from the one before it of the same row
(`Continues`), and the last of them give the row. An event applied to what the row was
gives what it is (`AppliedIsAfter`); the records of a row become events all or none
(`AllOrNone`), so that the reader is where the change began; and an event that comes again
has a key the reader has seen. The proof attempt found the property false for links as it
was: an update whose record lacks the old row is an event `updated` that cannot tell which
fields became NULL. `Distinct` now supposes the old row of entities and links alike; of a
point such an update is an event `created`, which tells everything.

**The ingestion.** `HandledIsStored` is strengthened to all that was stored, whether the batch
counted as handled or not (`stored`), and the size of what a loop has collected is bounded
(`Bounded`), because a message that gave way to another was in one batch with it. What an
open statement has seen is still there when it commits (`seen`), so that an end of a link is
found unless it was inserted under the statement (`FoundUnlessUnseen`, `NamedAreFound`), and
then the message is `overtaken`. A batch
leaves rows for each of its messages: the one of its key that stays in the map is one of the
latest (`NewestIsLatest`), the entity a reference is given is one of the batch with that
reference (`EntityForFits`), and every upsert leaves its row (`RowsOnlyGrow`, on
`UpsertedIsContent`). Afterwards no statement takes a row away, nor, of the consumer of
properties, a field (`LeftStays`): its documents are never NULL, which would wipe an entity.

What the group has passed it has tried, by the theorem of the loop; so it is handled and
stored, or its handler failed (`PassedIsStored`).

`NewestWins` is inductive beside `IInv`. A batch shows the last of its messages of each
field or series, because with the dates in order the last is the newest (`NewestIsLast`,
`PropertyShown`, `PointShown`), and what it does not bring it leaves as it was
(`PropertyKept`, `PointKept`); what it brings of a place whose newer message is stored
lies before that message, which is `shadowed` from then on. The proof attempts found the
property false as it was, in two ways that TLC confirmed on instances the
run did not have:

* an older batch that is stored a second time shows its values again, and if the batch
  after it now fails, nothing puts the newer ones back. Lateness of a process was not the
  only way to this; any message that a batch stored later lies before is excepted until it is
  stored again;
* points are joined to entities by reference alone, so that of two entities of one reference
  each gets the points of the other: in one batch they meet in one row, and the date decides
  nothing (`NoSharedReference`).

`PeriodAssumption` has periods of different series differ, because key and granularity are
part of the idempotency key (`temporal_write_repository.go:123-130`).

A transaction is a call of the store (`StoresAreCalls`): each row that `Result` changes is
the outcome of one upsert of the statement (`ResultOf`), an entity has one upsert only, and
the others are among the dependent tasks of the request, whatever ids it has found.

**The server.** Rows only grow from what a handler saw to the replica and to the primary, and
what it holds is what the rows it saw give (`ComesFromRows`). The entities that an answer
has and its roots do not come to are a set each of whose members has a parent in it: a
cycle, or what hangs from one. The converse of the same argument makes an endless
unfolding a cycle of links that is still on the primary when the process is dead.
That the recursive query finds the neighbourhood is an argument about walks: what `n`
rounds have reached is where walks of at most `n` links lead (`ReachedFirst`,
`ReachedNext`, `LevelsAreWalks`). Its induction is over a set of numbers, by their
well-foundedness, and so within reach of the provers.

Only model-checked: the liveness properties (`EventuallyUpToDate`,
`EveryMessageIsTried`, `EveryCallEnds`), since the prover has no ENABLED and
no fairness. Every safety invariant and every action property that a run checks is a
theorem. No module has a RECURSIVE operator. TLC checks each proved invariant too, as an
invariant of a run, except the `IInv` of `Ingest`: it holds on the instances of `ingest` and
`ingest_links`, but takes longer, and the runs have `HandledIsStored` and
`PassedIsStored`, which are what it is for. That the two processes are consumer loops
(`LoopIsImplemented`) is a theorem only.

## 5. What is not modelled

* The text of keys: MD5 collisions, formats of dates and periods, the location of a date, the
  separator in the keys of Go maps.
* Partitions of `temporal_properties` and their retention, indexes, connection pools.
* A cache hit in `GraphTree` (it gives what a miss gave before; `GraphCache` has the cache), and
  an EXPIRE that is lost alone in `GraphCache`.
* Writers of other topics, partitions and of the HTTP interface in `Ingest`, and the rows of its
  transactions one by one: that concurrent ones are atomic, and that they lose links to
  entities inserted meanwhile, whoever inserts them, is `GraphWrite`.
* Loss of an acknowledged event by the failure of a broker (`WaitForLocal`), more than one read
  replica, and what starts a dead process again.
* References shared by entities of two types in `GraphTree` (`GraphRows` and `IngestBatch` have
  them).
* Event ids, timestamps and the headers for filters; Kafka's partitioner.
* Code without callers in the program: `ConsumeCDCEvents`, `PublishSingleEvent`,
  `findChangedFields`, `SetKey`, `SetMultiple`, `removeDuplicates`; and what only
  tests use: `WithPrefix`, `FlushByPrefix`, a nil Redis client.
* HTTP decoding and connection timeouts, configuration, data generators, containers.

## 6. Plan

1. `GraphCache`, `KafkaConsumer`, `GraphRows`/`GraphStore`/`GraphWrite` with their
   proofs: done.
2. `CdcTransformer`/`CdcPipeline` with their proofs: done.
3. `IngestBatch`/`Ingest` composed with the consumer loop: done, with the proofs of all
   its properties.
4. `GraphTree` with its proofs: done.
5. `GraphCache` with HSET and EXPIRE as steps of their own.
