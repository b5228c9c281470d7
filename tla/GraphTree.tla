------------------------------ MODULE GraphTree ------------------------------
(***************************************************************************)
(* The HTTP server: its three read routes, from the request through the    *)
(* two queries and the tree builder to the nested response, and its two    *)
(* write routes.                                                           *)
(*                                                                         *)
(* A tree of GraphService is made of shared nodes: the trees of a response *)
(* are the unfolding, from each root, of one set of links.  A link's type  *)
(* is carried along and decides nothing; whether an entity has the         *)
(* searched property is all that is told of its properties.                *)
(*                                                                         *)
(* A write has the snapshot its statement began with, takes effect when    *)
(* its transaction commits (GraphWrite has it row by row) and reaches the  *)
(* replica some time later.  No two entities share a reference here.       *)
(* QueryTree stands for a miss of the cache: a hit gives what a miss gave  *)
(* before (GraphCache has the cache).                                      *)
(***************************************************************************)
EXTENDS Integers, Sequences, FiniteSets

CONSTANTS
  Entity, Series,     \* ids of entities and keys of data points: numbers, as answers are sorted
  ThisMonth,          \* the current month; months are numbered
  MaxIds,             \* ids of a batch request: 100 in the code
  MaxPoints,          \* data points of an answer: LIMIT 1000 in the code
  Absent, Malformed,  \* a parameter left out, or one that does not parse
  Client,
  Offered,            \* Offered[c]: the requests client c may send
  Start,              \* databases the system may begin with
  MaxWrites,          \* bound on writes
  Faulty              \* TRUE if queries and commits may fail

Link == Entity \X Entity

Point == [entity : Entity, series : Series, month : Int]

\* Rows: links and points refer to entities that exist.
Database == {d \in [entities : SUBSET Entity, matching : SUBSET Entity,
                    links : SUBSET Link, points : SUBSET Point] :
               /\ d.matching \subseteq d.entities
               /\ \A l \in d.links : l[1] \in d.entities /\ l[2] \in d.entities
               /\ \A p \in d.points : p.entity \in d.entities}

Parameter == Int \cup {Absent, Malformed}

Read == [kind : {"id", "property", "batch"}, ids : Seq(Entity), depth : Parameter, from : Parameter]

\* A document gives the searched property the searched value, or another, or leaves it; an
\* entity without properties loses all it had, which is "other", too.
Doc == {"matching", "other", "silent"}

Write == [kind : {"sync"}, docs : UNION {[E -> Doc] : E \in SUBSET Entity}, links : SUBSET Link]
           \cup [kind : {"ingest"}, points : SUBSET Point]

Unreadable == [kind |-> "unreadable"]

ASSUME IdAssumption == Entity \subseteq Nat /\ Series \subseteq Nat
ASSUME LimitAssumption == MaxIds \in Nat /\ MaxPoints \in Nat /\ MaxWrites \in Nat
ASSUME MonthAssumption == ThisMonth \in Int /\ {Absent, Malformed} \cap Int = {}
ASSUME OfferedAssumption ==
  \A c \in Client : \A r \in Offered[c] : r \in Read \/ r \in Write \/ r = Unreadable
ASSUME StartAssumption == \A d \in Start : d \in Database
ASSUME FaultyAssumption == Faulty \in BOOLEAN

VARIABLES
  primary, replica,   \* the rows on each of the two servers of PostgreSQL
  writes,             \* writes that have begun, for the bound
  known,              \* known[c]: the entities in the snapshot of the statement of c
  up,                 \* FALSE once the process of the server is dead
  st,                 \* where the handler of each client's request is
  request,
  answer,             \* what it has so far
  seen                \* history: the rows its graph query saw

database == <<primary, replica, writes>>
vars == <<primary, replica, writes, known, up, st, request, answer, seen>>

Answer == [status : {0, 200, 202, 400, 404, 500}, nodes : SUBSET Entity, links : SUBSET Link,
           points : SUBSET Point, roots : SUBSET Entity]

NoAnswer == [status |-> 0, nodes |-> {}, links |-> {}, points |-> {}, roots |-> {}]

Status(code) == [NoAnswer EXCEPT !.status = code]

NoRows == [entities |-> {}, matching |-> {}, links |-> {}, points |-> {}]

Init ==
  /\ primary \in Start
  /\ replica = primary
  /\ writes = 0
  /\ known = [c \in Client |-> {}]
  /\ up = TRUE
  /\ st = [c \in Client |-> "idle"]
  /\ request = [c \in Client |-> Unreadable]
  /\ answer = [c \in Client |-> NoAnswer]
  /\ seen = [c \in Client |-> NoRows]

-----------------------------------------------------------------------------
(***************************************************************************)
(* What the handlers check.                                                *)
(***************************************************************************)

Depth(r) == IF r.depth = Absent THEN 5 ELSE r.depth

From(r) == IF r.from = Absent THEN ThisMonth ELSE r.from

\* The first day of the month asked for is compared with now and with now a year ago.
BadPeriod(r) == r.from = Malformed \/ From(r) > ThisMonth \/ From(r) <= ThisMonth - 12

BadRequest(r) ==
  \/ r.kind = "unreadable"
  \/ /\ r.kind \in {"id", "property", "batch"}
     /\ \/ r.depth = Malformed \/ BadPeriod(r)
        \/ r.kind # "property" /\ r.ids = <<>>
        \/ r.kind = "batch" /\ Len(r.ids) > MaxIds

Writes(r) == r.kind \in {"sync", "ingest"}

\* The two write services refuse a request that asks for nothing.
EmptyWrite(r) == \/ r.kind = "sync" /\ r.docs = <<>> /\ r.links = {}
                 \/ r.kind = "ingest" /\ r.points = {}

-----------------------------------------------------------------------------
(***************************************************************************)
(* QueryTree.                                                              *)
(***************************************************************************)

Ids(r) == {r.ids[i] : i \in DOMAIN r.ids}

\* The entities of depth 0.
Matched(r, d) == IF r.kind = "property" THEN d.matching ELSE Ids(r) \cap d.entities

\* entity_graph: the entities its rows have at each depth.
Level(r, d) ==
  LET level[n \in 0..Depth(r)] ==
        IF n = 0 THEN Matched(r, d) ELSE {l[2] : l \in {k \in d.links : k[1] \in level[n - 1]}}
  IN  level

\* Every entity that a row names, joined to the table; a negative depth leaves those of depth 0.
Nodes(r, d) ==
  {e \in d.entities : e \in Matched(r, d) \/ \E n \in 0..Depth(r) : e \in Level(r, d)[n]}

\* Mutant: of the rows of an entity, the one of least depth tells its parents.
Bug_ParentsInfo(r, d) ==
  {l \in d.links : \E n \in 0..(Depth(r) - 1) :
     l[1] \in Level(r, d)[n] /\ \A m \in 0..n : l[2] \notin Level(r, d)[m]}

\* parents_info of all nodes: the links that rows of less than the depth asked for lead to.
ParentsInfo(r, d) == {l \in d.links : \E n \in 0..(Depth(r) - 1) : l[1] \in Level(r, d)[n]}

\* The data points of the nodes from the month asked for to the current one.
PointsOf(r, nodes, d) ==
  {p \in d.points : p.entity \in nodes /\ From(r) <= p.month /\ p.month <= ThisMonth}

\* Mutant: the oldest points come first.
Bug_Before(p, q) ==
  \/ p.entity < q.entity
  \/ p.entity = q.entity /\ p.series < q.series
  \/ p.entity = q.entity /\ p.series = q.series /\ p.month < q.month

\* ORDER BY entity_id, key, reference_date DESC.
Before(p, q) ==
  \/ p.entity < q.entity
  \/ p.entity = q.entity /\ p.series < q.series
  \/ p.entity = q.entity /\ p.series = q.series /\ p.month > q.month

\* What LIMIT leaves of the points P, and any part of it that a connection lost between two
\* rows leaves: rows.Err is not looked at.
Delivered(P) ==
  {Q \in SUBSET P : /\ \A q \in Q : \A p \in P : Before(p, q) => p \in Q
                    /\ Cardinality(Q) <= MaxPoints
                    /\ Faulty \/ Q = P \/ Cardinality(Q) = MaxPoints}

-----------------------------------------------------------------------------
(***************************************************************************)
(* buildNodeTrees and MapDomainToResponse.                                 *)
(***************************************************************************)

\* Mutant: a node without parents and without children is no root.
Bug_NaturalRoots(nodes, links) ==
  {n \in nodes : (\A l \in links : l[2] # n) /\ (\E l \in links : l[1] = n)}

\* The nodes without parents in the answer.
NaturalRoots(nodes, links) == {n \in nodes : \A l \in links : l[2] # n}

\* Mutant: each node is appended to its parent's edges, and the parent to the node's.
Bug_Edges(nodes, links) ==
  {l \in links : l[1] \in nodes} \cup {<<l[2], l[1]>> : l \in {k \in links : k[1] \in nodes}}

\* Each node appended to the edges of those of its parents that the answer has.
Edges(nodes, links) == {l \in links : l[1] \in nodes}

\* The roots of the trees of a response: those asked for, each tree once for each time
\* its id is named, or the natural roots.
Roots(r, nodes, links) ==
  IF r.kind = "property" THEN NaturalRoots(nodes, links) ELSE Ids(r) \cap nodes

Closed(S, links) == \A l \in links : l[1] \in S => l[2] \in S

\* The nodes that the unfolding of the trees of the roots comes to.
Shown(nodes, links, roots) ==
  {n \in nodes : \A S \in SUBSET nodes : roots \subseteq S /\ Closed(S, links) => n \in S}

\* Every member of S has a child in S.
Unending(S, links) == S # {} /\ \A n \in S : \E l \in links : l[1] = n /\ l[2] \in S

\* The recursion of MapDomainToResponse never comes to a leaf.
Endless(nodes, links, roots) ==
  \E S \in SUBSET nodes : Unending(S, links) /\ S \cap Shown(nodes, links, roots) # {}

-----------------------------------------------------------------------------
(***************************************************************************)
(* The steps of a handler.                                                 *)
(***************************************************************************)

Go(c, to) == st' = [st EXCEPT ![c] = to]

Put(c, a) == answer' = [answer EXCEPT ![c] = a]

Ask(c, r) ==
  /\ up
  /\ st[c] = "idle"
  /\ request' = [request EXCEPT ![c] = r]
  /\ IF BadRequest(r)      THEN Go(c, "done") /\ Put(c, Status(400))
     ELSE IF EmptyWrite(r) THEN Go(c, "done") /\ Put(c, Status(500))
     ELSE Go(c, IF Writes(r) THEN "write" ELSE "graph") /\ Put(c, NoAnswer)
  /\ IF Writes(r) THEN writes < MaxWrites /\ writes' = writes + 1 ELSE UNCHANGED writes
  /\ UNCHANGED <<primary, replica, known, up, seen>>

\* An error of QueryTree: the batch route answers with an empty list all the same.
AnswerError(c, code) ==
  Go(c, "done") /\ Put(c, Status(IF request[c].kind = "batch" THEN 200 ELSE code))

\* The graph query: one statement, on the replica.
ReadGraph(c) ==
  /\ st[c] = "graph"
  /\ LET r == request[c] IN
       IF Nodes(r, replica) = {} THEN AnswerError(c, 404)
       ELSE /\ Go(c, "points")
            /\ Put(c, [status |-> 0, nodes |-> Nodes(r, replica), links |-> ParentsInfo(r, replica),
                       points |-> {}, roots |-> {}])
  /\ seen' = [seen EXCEPT ![c] = replica]
  /\ UNCHANGED <<database, known, up, request>>

\* The query for the data points: another statement, later; then the trees are built.
ReadPoints(c) ==
  /\ st[c] = "points"
  /\ LET r == request[c]
         a == answer[c]
     IN  \E P \in Delivered(PointsOf(r, a.nodes, replica)) :
           IF Roots(r, a.nodes, a.links) = {} THEN AnswerError(c, 404)
           ELSE /\ Go(c, "reply")
                /\ Put(c, [status |-> 0, nodes |-> a.nodes, links |-> Edges(a.nodes, a.links),
                           points |-> P, roots |-> Roots(r, a.nodes, a.links)])
  /\ UNCHANGED <<database, known, up, request, seen>>

\* Mutant: every error of the service is told as "not found".
Bug_QueryFails(c) ==
  /\ Faulty
  /\ st[c] \in {"graph", "points"}
  /\ AnswerError(c, 404)
  /\ UNCHANGED <<database, known, up, request, seen>>

QueryFails(c) ==
  /\ Faulty
  /\ st[c] \in {"graph", "points"}
  /\ AnswerError(c, 500)
  /\ UNCHANGED <<database, known, up, request, seen>>

Reply(c) ==
  /\ st[c] = "reply"
  /\ ~Endless(answer[c].nodes, answer[c].links, answer[c].roots)
  /\ Go(c, "done")
  /\ Put(c, [answer[c] EXCEPT !.status = 200])
  /\ UNCHANGED <<database, known, up, request, seen>>

\* The stack of an endless recursion overflows: Go ends the process, with every request and
\* every transaction in it; nothing starts it again.
Overflow(c) ==
  /\ st[c] = "reply"
  /\ Endless(answer[c].nodes, answer[c].links, answer[c].roots)
  /\ up' = FALSE
  /\ st' = [d \in Client |-> IF st[d] \in {"idle", "done"} THEN st[d] ELSE "lost"]
  /\ known' = [d \in Client |-> {}]
  /\ UNCHANGED <<database, request, answer, seen>>

\* The statement of a write begins.
Begin(c) ==
  /\ st[c] = "write"
  /\ Go(c, "store")
  /\ known' = [known EXCEPT ![c] = primary.entities]
  /\ UNCHANGED <<database, up, request, answer, seen>>

NamedBy(r) == IF r.kind = "sync" THEN DOMAIN r.docs ELSE {p.entity : p \in r.points}

With(r, value) == {e \in NamedBy(r) : r.kind = "sync" /\ r.docs[e] = value}

\* The entities another call has inserted since the statement began.
Inserted(r, d, old) == NamedBy(r) \cap (d.entities \ old)

\* Of those, the ones whose row the document does change.
Turned(r, d) == (With(r, "other") \cap d.matching) \cup (With(r, "matching") \ d.matching)

\* entity_ids: what SyncGraph finds of the entities it links, for its upsert may change nothing
\* of an entity that another call has inserted, and then does not return it.
Finds(r, d, old) ==
  {old \cup (NamedBy(r) \ d.entities) \cup S :
     S \in {S \in SUBSET Inserted(r, d, old) : Inserted(r, d, old) \cap Turned(r, d) \subseteq S}}

\* The rows after a write: an entity nobody knew is inserted, with its points, by either; a link
\* is left out unless both ends are found.
Written(r, d, found) ==
  IF r.kind = "ingest"
    THEN [d EXCEPT !.entities = @ \cup NamedBy(r), !.points = @ \cup r.points]
    ELSE [d EXCEPT !.entities = @ \cup NamedBy(r),
                   !.matching = (@ \ With(r, "other")) \cup With(r, "matching"),
                   !.links = @ \cup {l \in r.links : l[1] \in found /\ l[2] \in found}]

\* The transaction of c is over.
Ends(c, code) == Go(c, "done") /\ Put(c, Status(code)) /\ known' = [known EXCEPT ![c] = {}]

\* UpsertDataPoints inserts the unknown entities without ON CONFLICT.
Duplicates(c) == request[c].kind = "ingest" /\ Inserted(request[c], primary, known[c]) # {}

\* The write commits; 500 if the answer to the commit is lost.
Commit(c, code) ==
  /\ st[c] = "store" /\ ~Duplicates(c)
  /\ code = 202 \/ (Faulty /\ code = 500)
  /\ \E found \in Finds(request[c], primary, known[c]) :
       primary' = Written(request[c], primary, found)
  /\ Ends(c, code)
  /\ UNCHANGED <<replica, writes, up, request, seen>>

\* PostgreSQL refuses the statement, or cancels it as it and another wait for each other's rows.
WriteFails(c) ==
  /\ st[c] \in {"write", "store"}
  /\ \/ Faulty
     \/ st[c] = "store" /\ (Duplicates(c) \/ \E d \in Client \ {c} : st[d] = "store")
  /\ Ends(c, 500)
  /\ UNCHANGED <<database, up, request, seen>>

\* The client has its answer, or the end of its connection.
Leave(c) ==
  /\ st[c] \in {"done", "lost"}
  /\ Go(c, "idle")
  /\ request' = [request EXCEPT ![c] = Unreadable]
  /\ Put(c, NoAnswer)
  /\ seen' = [seen EXCEPT ![c] = NoRows]
  /\ UNCHANGED <<database, known, up>>

\* The replica catches up.
Replay ==
  /\ replica # primary
  /\ replica' = primary
  /\ UNCHANGED <<primary, writes, known, up, st, request, answer, seen>>

Next ==
  \/ Replay
  \/ \E c \in Client :
       \/ \E r \in Offered[c] : Ask(c, r)
       \/ ReadGraph(c) \/ ReadPoints(c) \/ QueryFails(c) \/ Reply(c) \/ Overflow(c)
       \/ Begin(c) \/ WriteFails(c)
       \/ \E code \in {202, 500} : Commit(c, code)
       \/ Leave(c)

Spec == Init /\ [][Next]_vars

-----------------------------------------------------------------------------
(***************************************************************************)
(* Properties.                                                             *)
(***************************************************************************)

\* Type invariant of the rows, the handlers and what they have so far.
TypeOK ==
  /\ primary \in Database /\ replica \in Database
  /\ writes \in 0..MaxWrites
  /\ known \in [Client -> SUBSET Entity]
  /\ up \in BOOLEAN
  /\ st \in [Client -> {"idle", "graph", "points", "reply", "write", "store", "done", "lost"}]
  /\ request \in [Client -> Read \cup Write \cup {Unreadable}]
  /\ answer \in [Client -> Answer]
  /\ seen \in [Client -> Database]

\* The handler has built its trees.
HasTrees(c) == st[c] = "reply" \/ (st[c] = "done" /\ answer[c].roots # {})

Contains(d, old) ==
  old.entities \subseteq d.entities /\ old.links \subseteq d.links /\ old.points \subseteq d.points

\* Rows are never removed: what a handler saw is on the replica, and that on the primary; the
\* primary still has what a statement found.
RowsOnlyGrow ==
  /\ Contains(primary, replica)
  /\ \A c \in Client : Contains(replica, seen[c]) /\ known[c] \subseteq primary.entities

\* What a handler has is what the rows it saw give.
ComesFromRows(c) ==
  LET r == request[c]
      a == answer[c]
  IN  /\ st[c] \in {"graph", "points"} \/ HasTrees(c) => r \in Read /\ ~BadRequest(r)
      /\ st[c] \in {"write", "store"} => r \in Write
      /\ st[c] = "points" \/ HasTrees(c) =>
           a.nodes = Nodes(r, seen[c]) /\ a.links = ParentsInfo(r, seen[c])
      /\ HasTrees(c) => a.roots = Roots(r, a.nodes, a.links)
      /\ st[c] = "reply" => a.roots # {}

\* "Not found" for a property is said when no node of the answer is a root.
NotFoundHasNoRoots(c) ==
  LET r == request[c]
  IN  st[c] = "done" /\ r.kind = "property" =>
        /\ answer[c].status = 200 => answer[c].roots # {}
        /\ answer[c].status = 404 =>
             /\ r \in Read /\ ~BadRequest(r)
             /\ answer[c] = Status(404)
             /\ NaturalRoots(Nodes(r, seen[c]), ParentsInfo(r, seen[c])) = {}

\* The points of an answer come before those it lacks.
PointsAreFirst(c) ==
  HasTrees(c) =>
    /\ \A p \in answer[c].points : p.entity \in answer[c].nodes /\ From(request[c]) <= p.month
    /\ \A p \in answer[c].points :
         \A q \in PointsOf(request[c], answer[c].nodes, seen[c]) :
           Before(q, p) => q \in answer[c].points

Deepest(r) == IF Depth(r) < 0 THEN 0 ELSE Depth(r)

\* The entities that at most n links lead to from S.
Within(S, n, links) ==
  {e \in Entity : \E k \in 0..n : \E walk \in [0..k -> Entity] :
     walk[0] \in S /\ walk[k] = e /\ \A i \in 1..k : <<walk[i - 1], walk[i]>> \in links}

\* An answer has the entities that the depth asked for comes to from the ones it begins with,
\* and every link on the way to them, by whatever way it is reached, of one moment's rows.
AnswerIsTheNeighbourhood ==
  \A c \in Client : HasTrees(c) =>
    LET r == request[c]
        S == Matched(r, seen[c])
    IN  /\ answer[c].nodes = Within(S, Deepest(r), seen[c].links)
        /\ answer[c].links =
             {l \in seen[c].links : l[1] \in Within(S, Deepest(r) - 1, seen[c].links)}

\* Every member of S has a parent in S: S is a cycle and what descends from it.
Looped(S, links) == \A n \in S : \E l \in links : l[2] = n /\ l[1] \in S

\* A query by property nests every entity that matched somewhere under its roots, although
\* only those without a parent in the answer are roots; it misses one, and says "not found"
\* when it misses all, only if the entity lies on a cycle or descends from one.
EveryMatchIsShown ==
  \A c \in Client :
    (st[c] = "reply" \/ (st[c] = "done" /\ answer[c].status \in {200, 404}))
      /\ request[c].kind = "property" =>
        \A e \in Matched(request[c], seen[c]) :
          \/ e \in Shown(answer[c].nodes, answer[c].links, answer[c].roots)
          \/ \E S \in SUBSET Entity : e \in S /\ Looped(S, seen[c].links)

\* Wherever the limit or a lost connection cuts the data points, a series keeps its newest:
\* one that is shown has all newer ones beside it that were there when the graph was read.
NewestPointsStay ==
  \A c \in Client : HasTrees(c) =>
    \A p \in answer[c].points : \A q \in seen[c].points :
      q.entity = p.entity /\ q.series = p.series /\ p.month < q.month /\ q.month <= ThisMonth =>
        q \in answer[c].points

\* The process overflows its stack only if there is a cycle of links: entities that several
\* others share, or that several requested trees share, never make a response endless.
OnlyCyclesKill ==
  ~up \/ (\E c \in Client : st[c] = "lost") => \E S \in SUBSET Entity : Unending(S, primary.links)

\* The inductive invariant: what the handlers have, and the rows they saw, in the rows of now.
IInv ==
  /\ TypeOK
  /\ RowsOnlyGrow
  /\ \A c \in Client : ComesFromRows(c) /\ NotFoundHasNoRoots(c) /\ PointsAreFirst(c)
  /\ OnlyCyclesKill

=============================================================================
