----------------------------- MODULE MCGraphTree -----------------------------
(***************************************************************************)
(* Small instances of GraphTree: entities are the numbers 1, 2, ...        *)
(***************************************************************************)
EXTENDS GraphTree

CONSTANTS reader, writer,
          Pairs   \* the links databases may begin with

\* Databases without data points, with all entities or without entity 3, in which entities 2 and
\* 3 may have the searched property.
MCStart ==
  [entities : {Entity}, matching : SUBSET {2, 3}, links : SUBSET Pairs, points : {{}}]
    \cup [entities : {{1, 2}}, matching : SUBSET {2},
          links : SUBSET (Pairs \cap ({1, 2} \X {1, 2})), points : {{}}]

ById(id, depth) == [kind |-> "id", ids |-> <<id>>, depth |-> depth, from |-> Absent]

ByProperty(depth, from) == [kind |-> "property", ids |-> <<>>, depth |-> depth, from |-> from]

Batch(ids, depth) == [kind |-> "batch", ids |-> ids, depth |-> depth, from |-> Absent]

Sync(docs, links) == [kind |-> "sync", docs |-> docs, links |-> links]

Ingest(points) == [kind |-> "ingest", points |-> points]

P(e, month) == [entity |-> e, series |-> 1, month |-> month]

Reads == {ById(1, 2), ById(3, Absent), ById(1, Malformed), ByProperty(1, Absent),
          ByProperty(2, 12), ByProperty(2, 1), ByProperty(0, 14), Batch(<<2, 1>>, 1),
          Batch(<<1, 2, 3>>, 2), Batch(<<>>, 2), ById(2, -1)}

WriteRequests == {Unreadable, Sync(<<>>, {}), Ingest({}),
                  Sync([e \in {3} |-> "other"], {<<1, 3>>}), Sync(<<>>, {<<3, 2>>}),
                  Ingest({P(1, 12), P(1, 13), P(3, 13)})}

\* The client that reads may insert entity 3 under a write of the other.
MCOffered ==
  [c \in Client |-> IF c = reader THEN Reads \cup {Sync([e \in {3} |-> "silent"], {})}
                                 ELSE WriteRequests]

MCPairs == {<<1, 2>>, <<2, 1>>, <<2, 3>>, <<3, 3>>}

=============================================================================
