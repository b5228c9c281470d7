--------------------------- MODULE GraphTreeProofs ---------------------------
(***************************************************************************)
(* For every graph, limit and set of requests: an answer is the            *)
(* neighbourhood asked for; a query by property nests every entity that    *)
(* matched, but for cycles; the newest data points stay; and only a cycle  *)
(* kills the server.                                                       *)
(***************************************************************************)
EXTENDS GraphTree, WellFoundedInduction, TLAPS

-----------------------------------------------------------------------------
(***************************************************************************)
(* Requests and rows.                                                      *)
(***************************************************************************)

Requests == Read \cup Write \cup {Unreadable}

LEMMA Kinds ==
  ASSUME NEW r \in Requests
  PROVE  /\ r.kind \in {"id", "property", "batch"} <=> r \in Read
         /\ Writes(r) <=> r \in Write
         /\ r.kind = "unreadable" <=> r = Unreadable
<1>1. CASE r \in Read
  <2>1. r.kind \in {"id", "property", "batch"}
    BY <1>1 DEF Read
  <2>2. r \notin Write /\ r # Unreadable
    BY <2>1 DEF Write, Unreadable
  <2> QED
    BY <1>1, <2>1, <2>2 DEF Writes
<1>2. CASE r \in Write
  <2>1. r.kind \in {"sync", "ingest"}
    BY <1>2 DEF Write
  <2>2. r \notin Read /\ r # Unreadable
    BY <2>1 DEF Read, Unreadable
  <2> QED
    BY <1>2, <2>1, <2>2 DEF Writes
<1>3. CASE r = Unreadable
  <2>1. r.kind = "unreadable"
    BY <1>3 DEF Unreadable
  <2>2. r \notin Read /\ r \notin Write
    BY <2>1 DEF Read, Write
  <2> QED
    BY <1>3, <2>1, <2>2 DEF Writes
<1> QED
  BY <1>1, <1>2, <1>3 DEF Requests

LEMMA NoRowsInDatabase == NoRows \in Database
BY DEF NoRows, Database

LEMMA NoAnswerInAnswer == NoAnswer \in Answer
BY DEF NoAnswer, Answer

LEMMA StatusInAnswer ==
  ASSUME NEW code \in {0, 200, 202, 400, 404, 500}
  PROVE  /\ Status(code) \in Answer
         /\ Status(code).status = code /\ Status(code).roots = {}
         /\ Status(code).nodes = {} /\ Status(code).links = {}
BY DEF Status, NoAnswer, Answer

LEMMA ContainsTransitive ==
  ASSUME NEW a, NEW b, NEW c, Contains(a, b), Contains(b, c)
  PROVE  Contains(a, c)
BY DEF Contains

LEMMA NamedFit == ASSUME NEW r \in Write PROVE NamedBy(r) \subseteq Entity
<1>1. CASE r.kind = "sync"
  BY <1>1 DEF Write, NamedBy
<1>2. CASE r.kind = "ingest"
  BY <1>2 DEF Write, NamedBy, Point
<1> QED
  BY <1>1, <1>2 DEF Write

\* What a statement finds is there once it has committed.
LEMMA FoundAreThere ==
  ASSUME NEW r, NEW d, NEW old \in SUBSET d.entities, NEW found \in Finds(r, d, old)
  PROVE  found \subseteq d.entities \cup NamedBy(r)
BY DEF Finds, Inserted

\* A write removes no row, and leaves links and points between the entities there are only.
LEMMA WrittenContains ==
  ASSUME NEW r \in Write, NEW d \in Database, NEW found \in SUBSET (d.entities \cup NamedBy(r))
  PROVE  Written(r, d, found) \in Database /\ Contains(Written(r, d, found), d)
<1>0. /\ d \in [entities : SUBSET Entity, matching : SUBSET Entity,
                links : SUBSET Link, points : SUBSET Point]
      /\ d.matching \subseteq d.entities
      /\ \A l \in d.links : l[1] \in d.entities /\ l[2] \in d.entities
      /\ \A p \in d.points : p.entity \in d.entities
  BY DEF Database
<1> DEFINE ents == d.entities \cup NamedBy(r)
<1>e. ents \in SUBSET Entity /\ d.entities \subseteq ents
  BY <1>0, NamedFit
<1>1. CASE r.kind = "ingest"
  <2>1. r.points \subseteq Point /\ \A p \in r.points : p.entity \in ents
    BY <1>1 DEF Write, NamedBy
  <2>2. Written(r, d, found) = [d EXCEPT !.entities = ents, !.points = d.points \cup r.points]
    BY <1>1 DEF Written
  <2> DEFINE ps == d.points \cup r.points
  <2>3. ps \subseteq Point /\ d.points \subseteq ps
    BY <1>0, <2>1
  <2>4. \A p \in ps : p.entity \in ents
    BY <1>0, <2>1
  <2>5. d.matching \subseteq ents /\ \A l \in d.links : l[1] \in ents /\ l[2] \in ents
    BY <1>0
  <2> HIDE DEF ents, ps
  <2>6. /\ Written(r, d, found).entities = ents /\ Written(r, d, found).matching = d.matching
        /\ Written(r, d, found).links = d.links /\ Written(r, d, found).points = ps
        /\ Written(r, d, found) \in [entities : SUBSET Entity, matching : SUBSET Entity,
                                    links : SUBSET Link, points : SUBSET Point]
    BY <1>0, <1>e, <2>2, <2>3 DEF ps
  <2> QED
    BY <1>e, <2>3, <2>4, <2>5, <2>6 DEF Database, Contains
<1>2. CASE r.kind = "sync"
  <2> DEFINE m == (d.matching \ With(r, "other")) \cup With(r, "matching")
             ls == d.links \cup {l \in r.links : l[1] \in found /\ l[2] \in found}
  <2>1. r.links \subseteq Link /\ With(r, "matching") \subseteq ents
    BY <1>2 DEF Write, With
  <2>2. Written(r, d, found) = [d EXCEPT !.entities = ents, !.matching = m, !.links = ls]
    BY <1>2 DEF Written
  <2>3. /\ m \subseteq ents /\ ls \subseteq Link
        /\ \A l \in ls : l[1] \in ents /\ l[2] \in ents
    BY <1>0, <2>1
  <2>4. d.links \subseteq ls
    OBVIOUS
  <2> HIDE DEF ents, m, ls
  <2>5. /\ Written(r, d, found).entities = ents /\ Written(r, d, found).matching = m
        /\ Written(r, d, found).links = ls /\ Written(r, d, found).points = d.points
        /\ Written(r, d, found) \in [entities : SUBSET Entity, matching : SUBSET Entity,
                                    links : SUBSET Link, points : SUBSET Point]
    BY <1>0, <1>e, <2>2, <2>3
  <2>6. \A p \in d.points : p.entity \in ents
    BY <1>0, <1>e
  <2>7. Written(r, d, found) \in Database
    BY <2>3, <2>5, <2>6 DEF Database
  <2>8. Contains(Written(r, d, found), d)
    BY <1>e, <2>4, <2>5 DEF Contains
  <2> QED
    BY <2>7, <2>8
<1> QED
  BY <1>1, <1>2 DEF Write

-----------------------------------------------------------------------------
(***************************************************************************)
(* What a query and the builder return.                                    *)
(***************************************************************************)

LEMMA QueryOK ==
  ASSUME NEW r \in Read, ~BadRequest(r), NEW d \in Database
  PROVE  /\ Depth(r) \in Int
         /\ Nodes(r, d) \subseteq Entity
         /\ Matched(r, d) \subseteq Nodes(r, d)
         /\ ParentsInfo(r, d) \subseteq d.links /\ ParentsInfo(r, d) \subseteq Link
         /\ \A l \in ParentsInfo(r, d) : l[1] \in Nodes(r, d)
         /\ Edges(Nodes(r, d), ParentsInfo(r, d)) = ParentsInfo(r, d)
         /\ Roots(r, Nodes(r, d), ParentsInfo(r, d)) \subseteq Nodes(r, d)
<1>0. /\ d.entities \subseteq Entity /\ d.links \subseteq Link
      /\ d.matching \subseteq d.entities
      /\ \A l \in d.links : l[1] \in d.entities /\ l[2] \in d.entities
  BY DEF Database
<1>1. Depth(r) \in Int
  <2>1. r.depth \in Parameter /\ r.kind \in {"id", "property", "batch"}
    BY DEF Read
  <2>2. r.depth # Malformed
    BY <2>1 DEF BadRequest
  <2> QED
    BY <2>1, <2>2 DEF Parameter, Depth
<1>2. Matched(r, d) \subseteq d.entities
  BY <1>0 DEF Matched
<1>3. Matched(r, d) \subseteq Nodes(r, d) /\ Nodes(r, d) \subseteq Entity
  BY <1>0, <1>2 DEF Nodes
<1>4. ParentsInfo(r, d) \subseteq d.links
  BY DEF ParentsInfo
<1>5. ASSUME NEW l \in ParentsInfo(r, d) PROVE l[1] \in Nodes(r, d)
  <2>1. PICK n \in 0..(Depth(r) - 1) : l[1] \in Level(r, d)[n]
    BY DEF ParentsInfo
  <2>2. n \in 0..Depth(r)
    BY <1>1, <2>1
  <2> QED
    BY <1>0, <1>4, <1>5, <2>1, <2>2 DEF Nodes
<1>6. Edges(Nodes(r, d), ParentsInfo(r, d)) = ParentsInfo(r, d)
  BY <1>5 DEF Edges
<1>7. Roots(r, Nodes(r, d), ParentsInfo(r, d)) \subseteq Nodes(r, d)
  BY DEF Roots, NaturalRoots
<1> QED
  BY <1>0, <1>1, <1>3, <1>4, <1>5, <1>6, <1>7

-----------------------------------------------------------------------------
(***************************************************************************)
(* The invariant, action by action.                                        *)
(***************************************************************************)

ClientOK(c) == ComesFromRows(c) /\ NotFoundHasNoRoots(c) /\ PointsAreFirst(c)

\* A step of one client leaves what the others have.
Alone(c) == \A e \in Client \ {c} :
  st'[e] = st[e] /\ request'[e] = request[e] /\ answer'[e] = answer[e] /\ seen'[e] = seen[e]

LEMMA Frame ==
  ASSUME NEW c \in Client, IInv, Alone(c), ClientOK(c)'
  PROVE  \A e \in Client : ClientOK(e)'
<1>1. ASSUME NEW e \in Client, e # c PROVE ClientOK(e)'
  <2>1. st'[e] = st[e] /\ request'[e] = request[e] /\ answer'[e] = answer[e] /\ seen'[e] = seen[e]
    BY <1>1 DEF Alone
  <2>2. ClientOK(e)
    BY DEF IInv, ClientOK
  <2> QED
    BY <2>1, <2>2 DEF ClientOK, ComesFromRows, NotFoundHasNoRoots, PointsAreFirst, HasTrees
<1> QED
  BY <1>1

LEMMA KnownStays ==
  ASSUME IInv PROVE \A e \in Client : known[e] \subseteq primary.entities
BY DEF IInv, RowsOnlyGrow

\* A step that changes no rows and kills nothing keeps the rest.
LEMMA RowsFrame ==
  ASSUME NEW c \in Client, IInv, UNCHANGED <<primary, replica, up>>,
         \A e \in Client : known'[e] \subseteq primary.entities,
         seen' = seen \/ \E d \in {replica, NoRows} : seen' = [seen EXCEPT ![c] = d],
         \A e \in Client : st'[e] = "lost" => st[e] = "lost"
  PROVE  RowsOnlyGrow' /\ OnlyCyclesKill'
<1>1. OnlyCyclesKill'
  BY DEF IInv, OnlyCyclesKill
<1>2. Contains(replica, replica) /\ Contains(replica, NoRows)
  BY DEF Contains, NoRows
<1>3. \A e \in Client : seen'[e] \in {seen[e], replica, NoRows}
  BY DEF IInv, TypeOK
<1>4. RowsOnlyGrow'
  BY <1>2, <1>3 DEF IInv, RowsOnlyGrow
<1> QED
  BY <1>1, <1>4

LEMMA InvInit == Init => IInv
<1> SUFFICES ASSUME Init PROVE IInv
  OBVIOUS
<1>1. TypeOK
  BY StartAssumption, LimitAssumption, NoRowsInDatabase, NoAnswerInAnswer DEF Init, TypeOK
<1>2. RowsOnlyGrow
  BY DEF Init, RowsOnlyGrow, Contains, NoRows
<1>3. \A c \in Client : ComesFromRows(c) /\ NotFoundHasNoRoots(c) /\ PointsAreFirst(c)
  BY DEF Init, ComesFromRows, NotFoundHasNoRoots, PointsAreFirst, HasTrees
<1>4. OnlyCyclesKill
  BY DEF Init, OnlyCyclesKill
<1> QED
  BY <1>1, <1>2, <1>3, <1>4 DEF IInv

LEMMA AskInv ==
  ASSUME NEW c \in Client, NEW r \in Offered[c], IInv, Ask(c, r) PROVE IInv'
<1>0. r \in Requests
  BY OfferedAssumption DEF Requests
<1>1. TypeOK'
  BY <1>0, StatusInAnswer, NoAnswerInAnswer, LimitAssumption
     DEF IInv, TypeOK, Ask, Go, Put, Requests
<1>2. Alone(c)
  BY DEF IInv, TypeOK, Ask, Go, Put, Alone
<1>3. RowsOnlyGrow' /\ OnlyCyclesKill'
  <2>1. \A e \in Client : st'[e] = "lost" => st[e] = "lost"
    BY DEF IInv, TypeOK, Ask, Go
  <2> QED
    BY <2>1, KnownStays, RowsFrame DEF Ask
<1>4. ClientOK(c)'
  <2>1. request'[c] = r /\ seen'[c] = seen[c]
    BY DEF IInv, TypeOK, Ask
  <2>2. CASE BadRequest(r)
    <3>1. st'[c] = "done" /\ answer'[c] = Status(400)
      BY <2>2 DEF IInv, TypeOK, Ask, Go, Put
    <3> QED
      BY <2>1, <3>1, StatusInAnswer
         DEF ClientOK, ComesFromRows, NotFoundHasNoRoots, PointsAreFirst, HasTrees
  <2>3. CASE ~BadRequest(r) /\ EmptyWrite(r)
    <3>1. st'[c] = "done" /\ answer'[c] = Status(500)
      BY <2>3 DEF IInv, TypeOK, Ask, Go, Put
    <3> QED
      BY <2>1, <3>1, StatusInAnswer
         DEF ClientOK, ComesFromRows, NotFoundHasNoRoots, PointsAreFirst, HasTrees
  <2>4. CASE ~BadRequest(r) /\ ~EmptyWrite(r)
    <3>1. st'[c] = IF Writes(r) THEN "write" ELSE "graph"
      BY <2>4 DEF IInv, TypeOK, Ask, Go
    <3>2. Writes(r) => r \in Write
      BY <1>0, Kinds
    <3>3. ~Writes(r) => r \in Read
      BY <1>0, <2>4, Kinds DEF Requests, BadRequest
    <3> QED
      BY <2>1, <2>4, <3>1, <3>2, <3>3
         DEF ClientOK, ComesFromRows, NotFoundHasNoRoots, PointsAreFirst, HasTrees
  <2> QED
    BY <2>2, <2>3, <2>4
<1> QED
  BY <1>1, <1>2, <1>3, <1>4, Frame DEF IInv, ClientOK

\* The handler is done, with a status and no trees; 404 is told for its reason.
IsDone(c, code) ==
  /\ st' = [st EXCEPT ![c] = "done"]
  /\ answer' = [answer EXCEPT ![c] = Status(code)]
  /\ request' = request
  /\ seen' = seen \/ seen' = [seen EXCEPT ![c] = replica]
  /\ code = 200 => request[c].kind # "property"
  /\ code = 404 /\ request[c].kind = "property" =>
       /\ request[c] \in Read /\ ~BadRequest(request[c])
       /\ NaturalRoots(Nodes(request[c], seen'[c]), ParentsInfo(request[c], seen'[c])) = {}

LEMMA StatusOK ==
  ASSUME NEW c \in Client, IInv, NEW code \in {0, 200, 202, 400, 404, 500}, IsDone(c, code)
  PROVE  /\ ClientOK(c)' /\ Alone(c)
         /\ st' \in [Client -> {"idle", "graph", "points", "reply", "write", "store", "done", "lost"}]
         /\ answer' \in [Client -> Answer] /\ seen' \in [Client -> Database]
         /\ \A e \in Client : st'[e] = "lost" => st[e] = "lost"
<1>1. /\ st'[c] = "done" /\ answer'[c] = Status(code) /\ request'[c] = request[c]
      /\ Alone(c)
      /\ \A e \in Client : st'[e] = "lost" => st[e] = "lost"
  BY DEF IsDone, IInv, TypeOK, Alone
<1>2. ClientOK(c)'
  BY <1>1, StatusInAnswer
     DEF IsDone, ClientOK, ComesFromRows, NotFoundHasNoRoots, PointsAreFirst, HasTrees
<1>3. /\ st' \in [Client -> {"idle", "graph", "points", "reply", "write", "store", "done", "lost"}]
      /\ answer' \in [Client -> Answer] /\ seen' \in [Client -> Database]
  BY StatusInAnswer DEF IsDone, IInv, TypeOK
<1> QED
  BY <1>1, <1>2, <1>3

LEMMA ReadGraphInv == ASSUME NEW c \in Client, IInv, ReadGraph(c) PROVE IInv'
<1> DEFINE r == request[c]
<1>0. /\ r \in Read /\ ~BadRequest(r) /\ replica \in Database
      /\ seen'[c] = replica /\ seen' = [seen EXCEPT ![c] = replica] /\ request' = request
      /\ UNCHANGED <<primary, replica, writes, known, up>>
  BY DEF IInv, TypeOK, ReadGraph, ComesFromRows, database
<1>1. CASE Nodes(r, replica) = {}
  <2> DEFINE code == IF r.kind = "batch" THEN 200 ELSE 404
  <2>1. st' = [st EXCEPT ![c] = "done"] /\ answer' = [answer EXCEPT ![c] = Status(code)]
    BY <1>1 DEF ReadGraph, AnswerError, Go, Put
  <2>2. NaturalRoots(Nodes(r, seen'[c]), ParentsInfo(r, seen'[c])) = {}
    BY <1>0, <1>1 DEF NaturalRoots
  <2>3. code \in {0, 200, 202, 400, 404, 500} /\ (code = 200 => r.kind # "property")
    OBVIOUS
  <2> HIDE DEF code
  <2>4. /\ ClientOK(c)' /\ Alone(c)
        /\ st' \in [Client -> {"idle", "graph", "points", "reply", "write", "store", "done", "lost"}]
        /\ answer' \in [Client -> Answer] /\ seen' \in [Client -> Database]
        /\ \A e \in Client : st'[e] = "lost" => st[e] = "lost"
    <3>1. IsDone(c, code)
      BY <1>0, <2>1, <2>2, <2>3 DEF IsDone
    <3> QED
      BY <2>3, <3>1, StatusOK
  <2>5. RowsOnlyGrow' /\ OnlyCyclesKill'
    BY <1>0, <2>4, KnownStays, RowsFrame
  <2>6. TypeOK'
    BY <1>0, <2>4 DEF IInv, TypeOK
  <2> QED
    BY <2>4, <2>5, <2>6, Frame DEF IInv, ClientOK
<1>2. CASE Nodes(r, replica) # {}
  <2> DEFINE a == [status |-> 0, nodes |-> Nodes(r, replica), links |-> ParentsInfo(r, replica),
                   points |-> {}, roots |-> {}]
  <2>1. st' = [st EXCEPT ![c] = "points"] /\ answer' = [answer EXCEPT ![c] = a]
    BY <1>2 DEF ReadGraph, Go, Put
  <2>2. /\ a \in Answer /\ a.nodes = Nodes(r, replica) /\ a.links = ParentsInfo(r, replica)
        /\ a.roots = {}
    BY <1>0, QueryOK DEF Answer
  <2> HIDE DEF a
  <2>3. st'[c] = "points" /\ answer'[c] = a /\ request'[c] = r
    BY <1>0, <2>1 DEF IInv, TypeOK
  <2>4. ClientOK(c)'
    BY <1>0, <2>2, <2>3 DEF ClientOK, ComesFromRows, NotFoundHasNoRoots, PointsAreFirst, HasTrees
  <2>5. Alone(c) /\ \A e \in Client : st'[e] = "lost" => st[e] = "lost"
    BY <1>0, <2>1 DEF IInv, TypeOK, Alone
  <2>6. RowsOnlyGrow' /\ OnlyCyclesKill'
    BY <1>0, <2>5, KnownStays, RowsFrame
  <2>7. TypeOK'
    BY <1>0, <2>1, <2>2 DEF IInv, TypeOK
  <2> QED
    BY <2>4, <2>5, <2>6, <2>7, Frame DEF IInv, ClientOK
<1> QED
  BY <1>1, <1>2

LEMMA QueryFailsInv == ASSUME NEW c \in Client, IInv, QueryFails(c) PROVE IInv'
<1> DEFINE code == IF request[c].kind = "batch" THEN 200 ELSE 500
<1>1. /\ st' = [st EXCEPT ![c] = "done"] /\ answer' = [answer EXCEPT ![c] = Status(code)]
      /\ UNCHANGED <<primary, replica, writes, known, up, request, seen>>
  BY DEF QueryFails, AnswerError, Go, Put, database
<1>2. code \in {0, 200, 202, 400, 404, 500} /\ code # 404 /\ (code = 200 => request[c].kind # "property")
  OBVIOUS
<1> HIDE DEF code
<1>3. /\ ClientOK(c)' /\ Alone(c)
      /\ st' \in [Client -> {"idle", "graph", "points", "reply", "write", "store", "done", "lost"}]
      /\ answer' \in [Client -> Answer] /\ seen' \in [Client -> Database]
      /\ \A e \in Client : st'[e] = "lost" => st[e] = "lost"
  <2>1. IsDone(c, code)
    BY <1>1, <1>2 DEF IsDone
  <2> QED
    BY <1>2, <2>1, StatusOK
<1>4. RowsOnlyGrow' /\ OnlyCyclesKill'
  BY <1>1, <1>3, KnownStays, RowsFrame
<1>5. TypeOK'
  BY <1>1, <1>3 DEF IInv, TypeOK
<1> QED
  BY <1>3, <1>4, <1>5, Frame DEF IInv, ClientOK

LEMMA BeginInv == ASSUME NEW c \in Client, IInv, Begin(c) PROVE IInv'
<1>1. /\ st' = [st EXCEPT ![c] = "store"] /\ known' = [known EXCEPT ![c] = primary.entities]
      /\ UNCHANGED <<primary, replica, writes, up, request, answer, seen>>
      /\ request[c] \in Write
  BY DEF Begin, Go, database, IInv, ComesFromRows
<1>2. st'[c] = "store" /\ Alone(c) /\ \A e \in Client : st'[e] = "lost" => st[e] = "lost"
  BY <1>1 DEF IInv, TypeOK, Alone
<1>3. ClientOK(c)'
  BY <1>1, <1>2 DEF ClientOK, ComesFromRows, NotFoundHasNoRoots, PointsAreFirst, HasTrees
<1>4. known' \in [Client -> SUBSET Entity] /\ \A e \in Client : known'[e] \subseteq primary.entities
  BY <1>1, KnownStays DEF IInv, TypeOK, Database
<1>5. RowsOnlyGrow' /\ OnlyCyclesKill'
  BY <1>1, <1>2, <1>4, RowsFrame
<1>6. TypeOK'
  BY <1>1, <1>4 DEF IInv, TypeOK
<1> QED
  BY <1>2, <1>3, <1>5, <1>6, Frame DEF IInv, ClientOK

\* The end of a write, in whatever way.
LEMMA EndsOK ==
  ASSUME NEW c \in Client, IInv, NEW code \in {202, 500}, Ends(c, code), UNCHANGED <<request, seen>>
  PROVE  /\ ClientOK(c)' /\ Alone(c)
         /\ st' \in [Client -> {"idle", "graph", "points", "reply", "write", "store", "done", "lost"}]
         /\ answer' \in [Client -> Answer] /\ seen' \in [Client -> Database]
         /\ known' \in [Client -> SUBSET Entity]
         /\ \A e \in Client : known'[e] \subseteq primary.entities
         /\ \A e \in Client : st'[e] = "lost" => st[e] = "lost"
<1>1. code \in {0, 200, 202, 400, 404, 500} /\ code # 404 /\ code # 200
  OBVIOUS
<1>2. /\ st' = [st EXCEPT ![c] = "done"] /\ answer' = [answer EXCEPT ![c] = Status(code)]
      /\ known' = [known EXCEPT ![c] = {}]
  BY DEF Ends, Go, Put
<1>3. IsDone(c, code)
  BY <1>1, <1>2 DEF IsDone
<1>4. known' \in [Client -> SUBSET Entity] /\ \A e \in Client : known'[e] \subseteq primary.entities
  BY <1>2, KnownStays DEF IInv, TypeOK
<1> QED
  BY <1>1, <1>3, <1>4, StatusOK

\* A write that fails, with the rows as they were.
LEMMA WriteFailsInv == ASSUME NEW c \in Client, IInv, WriteFails(c) PROVE IInv'
<1>1. Ends(c, 500) /\ UNCHANGED <<primary, replica, writes, up, request, seen>>
  BY DEF WriteFails, database
<1>2. /\ ClientOK(c)' /\ Alone(c)
      /\ st' \in [Client -> {"idle", "graph", "points", "reply", "write", "store", "done", "lost"}]
      /\ answer' \in [Client -> Answer] /\ seen' \in [Client -> Database]
      /\ known' \in [Client -> SUBSET Entity]
      /\ \A e \in Client : known'[e] \subseteq primary.entities
      /\ \A e \in Client : st'[e] = "lost" => st[e] = "lost"
  BY <1>1, EndsOK
<1>4. RowsOnlyGrow' /\ OnlyCyclesKill'
  BY <1>1, <1>2, RowsFrame
<1>5. TypeOK'
  BY <1>1, <1>2 DEF IInv, TypeOK
<1> QED
  BY <1>2, <1>4, <1>5, Frame DEF IInv, ClientOK

LEMMA CommitInv ==
  ASSUME NEW c \in Client, NEW code \in {202, 500}, IInv, Commit(c, code) PROVE IInv'
<1>1. Ends(c, code) /\ UNCHANGED <<replica, writes, up, request, seen>>
  BY DEF Commit
<1>2. request[c] \in Write /\ primary \in Database /\ known[c] \subseteq primary.entities
  BY DEF IInv, TypeOK, Commit, ComesFromRows, RowsOnlyGrow
<1>3. primary' \in Database /\ Contains(primary', primary)
  <2>1. PICK found \in Finds(request[c], primary, known[c]) :
          primary' = Written(request[c], primary, found)
    BY DEF Commit
  <2>2. found \subseteq primary.entities \cup NamedBy(request[c])
    BY <1>2, <2>1, FoundAreThere
  <2> QED
    BY <1>2, <2>1, <2>2, WrittenContains
<1>4. /\ ClientOK(c)' /\ Alone(c)
      /\ st' \in [Client -> {"idle", "graph", "points", "reply", "write", "store", "done", "lost"}]
      /\ answer' \in [Client -> Answer] /\ seen' \in [Client -> Database]
      /\ known' \in [Client -> SUBSET Entity]
      /\ \A e \in Client : known'[e] \subseteq primary.entities
      /\ \A e \in Client : st'[e] = "lost" => st[e] = "lost"
  BY <1>1, EndsOK
<1>5. TypeOK'
  BY <1>1, <1>3, <1>4 DEF IInv, TypeOK
<1>6. RowsOnlyGrow'
  <2>1. Contains(primary', replica')
    BY <1>1, <1>3, ContainsTransitive DEF IInv, RowsOnlyGrow
  <2>2. \A e \in Client : Contains(replica', seen'[e])
    BY <1>1 DEF IInv, RowsOnlyGrow
  <2>3. \A e \in Client : known'[e] \subseteq (primary').entities
    BY <1>3, <1>4 DEF Contains
  <2> QED
    BY <2>1, <2>2, <2>3 DEF RowsOnlyGrow
<1>7. OnlyCyclesKill'
  <2>1. ~up' \/ (\E e \in Client : st'[e] = "lost") => ~up \/ \E e \in Client : st[e] = "lost"
    BY <1>1, <1>4
  <2>2. primary.links \subseteq (primary').links
    BY <1>3 DEF Contains
  <2>3. \A S : Unending(S, primary.links) => Unending(S, (primary').links)
    BY <2>2 DEF Unending
  <2> QED
    BY <2>1, <2>3 DEF IInv, OnlyCyclesKill
<1> QED
  BY <1>4, <1>5, <1>6, <1>7, Frame DEF IInv, ClientOK

LEMMA LeaveInv == ASSUME NEW c \in Client, IInv, Leave(c) PROVE IInv'
<1>1. /\ st' = [st EXCEPT ![c] = "idle"] /\ answer' = [answer EXCEPT ![c] = NoAnswer]
      /\ request' = [request EXCEPT ![c] = Unreadable] /\ seen' = [seen EXCEPT ![c] = NoRows]
      /\ UNCHANGED <<primary, replica, writes, known, up>>
  BY DEF Leave, Go, Put, database
<1>2. st'[c] = "idle" /\ Alone(c) /\ \A e \in Client : st'[e] = "lost" => st[e] = "lost"
  BY <1>1 DEF IInv, TypeOK, Alone
<1>3. ClientOK(c)'
  BY <1>2 DEF ClientOK, ComesFromRows, NotFoundHasNoRoots, PointsAreFirst, HasTrees
<1>4. RowsOnlyGrow' /\ OnlyCyclesKill'
  BY <1>1, <1>2, KnownStays, RowsFrame
<1>5. TypeOK'
  BY <1>1, NoRowsInDatabase, NoAnswerInAnswer DEF IInv, TypeOK
<1> QED
  BY <1>2, <1>3, <1>4, <1>5, Frame DEF IInv, ClientOK

LEMMA ReplyInv == ASSUME NEW c \in Client, IInv, Reply(c) PROVE IInv'
<1> DEFINE a == [answer[c] EXCEPT !.status = 200]
<1>1. /\ st[c] = "reply" /\ st' = [st EXCEPT ![c] = "done"] /\ answer' = [answer EXCEPT ![c] = a]
      /\ UNCHANGED <<primary, replica, writes, known, up, request, seen>>
  BY DEF Reply, Go, Put, database
<1>2. answer[c] \in Answer /\ a \in Answer /\ a.nodes = answer[c].nodes /\ a.links = answer[c].links
      /\ a.points = answer[c].points /\ a.roots = answer[c].roots /\ a.status = 200
  BY DEF IInv, TypeOK, Answer
<1> HIDE DEF a
<1>3. st'[c] = "done" /\ answer'[c] = a /\ Alone(c)
      /\ \A e \in Client : st'[e] = "lost" => st[e] = "lost"
  BY <1>1 DEF IInv, TypeOK, Alone
<1>4. ComesFromRows(c) /\ PointsAreFirst(c) /\ HasTrees(c)
  BY <1>1 DEF IInv, HasTrees
<1>5. ClientOK(c)'
  BY <1>1, <1>2, <1>3, <1>4
     DEF ClientOK, ComesFromRows, NotFoundHasNoRoots, PointsAreFirst, HasTrees
<1>6. RowsOnlyGrow' /\ OnlyCyclesKill'
  BY <1>1, <1>3, KnownStays, RowsFrame
<1>7. TypeOK'
  BY <1>1, <1>2 DEF IInv, TypeOK
<1> QED
  BY <1>3, <1>5, <1>6, <1>7, Frame DEF IInv, ClientOK

\* The points a query delivers come first among those of any older rows, too.
LEMMA DeliveredOK ==
  ASSUME NEW r \in Read, NEW N, NEW d \in Database, NEW old \in Database, Contains(d, old),
         NEW P \in Delivered(PointsOf(r, N, d))
  PROVE  /\ P \subseteq Point
         /\ \A p \in P : p.entity \in N /\ From(r) <= p.month
         /\ \A p \in P : \A q \in PointsOf(r, N, old) : Before(q, p) => q \in P
<1>1. P \subseteq PointsOf(r, N, d) /\ d.points \subseteq Point /\ old.points \subseteq d.points
  BY DEF Delivered, Database, Contains
<1>2. PointsOf(r, N, old) \subseteq PointsOf(r, N, d)
  BY <1>1 DEF PointsOf
<1>3. \A p \in P : \A q \in PointsOf(r, N, d) : Before(q, p) => q \in P
  BY DEF Delivered
<1> QED
  BY <1>1, <1>2, <1>3 DEF PointsOf

LEMMA ReadPointsInv == ASSUME NEW c \in Client, IInv, ReadPoints(c) PROVE IInv'
<1> DEFINE r == request[c]
           a == answer[c]
<1>0. /\ r \in Read /\ ~BadRequest(r) /\ replica \in Database /\ seen[c] \in Database
      /\ Contains(replica, seen[c]) /\ a \in Answer
      /\ a.nodes = Nodes(r, seen[c]) /\ a.links = ParentsInfo(r, seen[c])
      /\ UNCHANGED <<primary, replica, writes, known, up, request, seen>>
  BY DEF IInv, TypeOK, ReadPoints, ComesFromRows, RowsOnlyGrow, database
<1>1. CASE Roots(r, a.nodes, a.links) = {}
  <2> DEFINE code == IF r.kind = "batch" THEN 200 ELSE 404
  <2>1. st' = [st EXCEPT ![c] = "done"] /\ answer' = [answer EXCEPT ![c] = Status(code)]
    BY <1>1 DEF ReadPoints, AnswerError, Go, Put
  <2>2. /\ code \in {0, 200, 202, 400, 404, 500} /\ (code = 200 => r.kind # "property")
    OBVIOUS
  <2> HIDE DEF code
  <2>3. r.kind = "property" => NaturalRoots(Nodes(r, seen'[c]), ParentsInfo(r, seen'[c])) = {}
    BY <1>0, <1>1 DEF Roots
  <2>5. IsDone(c, code)
    BY <1>0, <2>1, <2>2, <2>3 DEF IsDone
  <2>6. /\ ClientOK(c)' /\ Alone(c)
        /\ st' \in [Client -> {"idle", "graph", "points", "reply", "write", "store", "done", "lost"}]
        /\ answer' \in [Client -> Answer] /\ seen' \in [Client -> Database]
        /\ \A e \in Client : st'[e] = "lost" => st[e] = "lost"
    BY <2>2, <2>5, StatusOK
  <2>7. RowsOnlyGrow' /\ OnlyCyclesKill'
    BY <1>0, <2>6, KnownStays, RowsFrame
  <2>8. TypeOK'
    BY <1>0, <2>6 DEF IInv, TypeOK
  <2> QED
    BY <2>6, <2>7, <2>8, Frame DEF IInv, ClientOK
<1>2. CASE Roots(r, a.nodes, a.links) # {}
  <2>1. PICK P \in Delivered(PointsOf(r, a.nodes, replica)) :
          /\ Go(c, "reply")
          /\ Put(c, [status |-> 0, nodes |-> a.nodes, links |-> Edges(a.nodes, a.links),
                     points |-> P, roots |-> Roots(r, a.nodes, a.links)])
    BY <1>2 DEF ReadPoints
  <2> DEFINE b == [status |-> 0, nodes |-> a.nodes, links |-> a.links,
                   points |-> P, roots |-> Roots(r, a.nodes, a.links)]
  <2>2. Edges(a.nodes, a.links) = a.links /\ Roots(r, a.nodes, a.links) \subseteq a.nodes
    BY <1>0, QueryOK
  <2>3. st' = [st EXCEPT ![c] = "reply"] /\ answer' = [answer EXCEPT ![c] = b]
    BY <2>1, <2>2 DEF Go, Put
  <2>4. /\ P \subseteq Point
        /\ \A p \in P : p.entity \in a.nodes /\ From(r) <= p.month
        /\ \A p \in P : \A q \in PointsOf(r, a.nodes, seen[c]) : Before(q, p) => q \in P
    BY <1>0, DeliveredOK
  <2>5. /\ b \in Answer /\ b.nodes = a.nodes /\ b.links = a.links /\ b.points = P
        /\ b.roots = Roots(r, b.nodes, b.links) /\ b.roots # {}
    BY <1>0, <1>2, <2>2, <2>4 DEF Answer
  <2> HIDE DEF b
  <2>6. st'[c] = "reply" /\ answer'[c] = b /\ request'[c] = r /\ seen'[c] = seen[c]
    BY <1>0, <2>3 DEF IInv, TypeOK
  <2>7. ComesFromRows(c)' /\ NotFoundHasNoRoots(c)'
    BY <1>0, <2>5, <2>6 DEF ComesFromRows, NotFoundHasNoRoots, HasTrees
  <2>8. PointsAreFirst(c)'
    BY <2>4, <2>5, <2>6 DEF PointsAreFirst
  <2>9. Alone(c) /\ \A e \in Client : st'[e] = "lost" => st[e] = "lost"
    BY <1>0, <2>3 DEF IInv, TypeOK, Alone
  <2>10. RowsOnlyGrow' /\ OnlyCyclesKill'
    BY <1>0, <2>9, KnownStays, RowsFrame
  <2>11. TypeOK'
    BY <1>0, <2>3, <2>5 DEF IInv, TypeOK
  <2> QED
    BY <2>7, <2>8, <2>9, <2>10, <2>11, Frame DEF IInv, ClientOK
<1> QED
  BY <1>1, <1>2

\* The links of an answer are still on the primary: a cycle of the one is a cycle of the other.
LEMMA OverflowInv == ASSUME NEW c \in Client, IInv, Overflow(c) PROVE IInv'
<1> DEFINE a == answer[c]
<1>0. /\ st[c] = "reply" /\ Endless(a.nodes, a.links, a.roots)
      /\ st' = [d \in Client |-> IF st[d] \in {"idle", "done"} THEN st[d] ELSE "lost"]
      /\ up' = FALSE /\ known' = [d \in Client |-> {}]
      /\ UNCHANGED <<primary, replica, writes, request, answer, seen>>
  BY DEF Overflow, database
<1>1. TypeOK'
  BY <1>0 DEF IInv, TypeOK
<1>2. RowsOnlyGrow'
  BY <1>0 DEF IInv, RowsOnlyGrow
<1>3. \A e \in Client : st'[e] \in {st[e], "lost"}
  BY <1>0
<1>4. ASSUME NEW e \in Client PROVE ClientOK(e)'
  <2>1. ClientOK(e)
    BY DEF IInv, ClientOK
  <2> QED
    BY <1>0, <1>3, <2>1
       DEF ClientOK, ComesFromRows, NotFoundHasNoRoots, PointsAreFirst, HasTrees
<1>5. OnlyCyclesKill'
  <2>1. PICK S \in SUBSET a.nodes : Unending(S, a.links)
    BY <1>0 DEF Endless
  <2>2. /\ request[c] \in Read /\ ~BadRequest(request[c]) /\ seen[c] \in Database
        /\ a.nodes = Nodes(request[c], seen[c]) /\ a.links = ParentsInfo(request[c], seen[c])
    BY <1>0 DEF IInv, TypeOK, ComesFromRows, HasTrees
  <2>3. a.nodes \subseteq Entity /\ a.links \subseteq seen[c].links
    BY <2>2, QueryOK
  <2>4. seen[c].links \subseteq primary.links
    BY DEF IInv, RowsOnlyGrow, Contains
  <2>5. S \in SUBSET Entity /\ Unending(S, primary.links)
    BY <2>1, <2>3, <2>4 DEF Unending
  <2> QED
    BY <1>0, <2>5 DEF OnlyCyclesKill
<1> QED
  BY <1>1, <1>2, <1>4, <1>5 DEF IInv, ClientOK

LEMMA ReplayInv == ASSUME IInv, Replay PROVE IInv'
<1>0. replica' = primary /\ UNCHANGED <<primary, writes, known, up, st, request, answer, seen>>
  BY DEF Replay
<1>1. TypeOK'
  BY <1>0 DEF IInv, TypeOK
<1>2. RowsOnlyGrow'
  <2>1. Contains(primary, primary)
    BY DEF Contains
  <2> QED
    BY <1>0, <2>1, ContainsTransitive DEF IInv, RowsOnlyGrow
<1>3. \A c \in Client : ClientOK(c)'
  BY <1>0 DEF IInv, ClientOK, ComesFromRows, NotFoundHasNoRoots, PointsAreFirst, HasTrees
<1>4. OnlyCyclesKill'
  BY <1>0 DEF IInv, OnlyCyclesKill
<1> QED
  BY <1>1, <1>2, <1>3, <1>4 DEF IInv, ClientOK

LEMMA StutterInv == ASSUME IInv, UNCHANGED vars PROVE IInv'
<1>0. UNCHANGED <<primary, replica, writes, known, up, st, request, answer, seen>>
  BY DEF vars
<1>1. TypeOK' /\ RowsOnlyGrow'
  BY <1>0 DEF IInv, TypeOK, RowsOnlyGrow
<1>2. \A c \in Client : ClientOK(c)'
  BY <1>0 DEF IInv, ClientOK, ComesFromRows, NotFoundHasNoRoots, PointsAreFirst, HasTrees
<1>3. OnlyCyclesKill'
  BY <1>0 DEF IInv, OnlyCyclesKill
<1> QED
  BY <1>1, <1>2, <1>3 DEF IInv, ClientOK

LEMMA InvStep == IInv /\ [Next]_vars => IInv'
<1> SUFFICES ASSUME IInv, [Next]_vars PROVE IInv'
  OBVIOUS
<1>1. CASE Replay
  BY <1>1, ReplayInv
<1>2. ASSUME NEW c \in Client, Begin(c) PROVE IInv'
  BY <1>2, BeginInv
<1>3. ASSUME NEW c \in Client, NEW r \in Offered[c], Ask(c, r) PROVE IInv'
  BY <1>3, AskInv
<1>4. ASSUME NEW c \in Client, ReadGraph(c) PROVE IInv'
  BY <1>4, ReadGraphInv
<1>5. ASSUME NEW c \in Client, ReadPoints(c) PROVE IInv'
  BY <1>5, ReadPointsInv
<1>6. ASSUME NEW c \in Client, QueryFails(c) PROVE IInv'
  BY <1>6, QueryFailsInv
<1>7. ASSUME NEW c \in Client, Reply(c) PROVE IInv'
  BY <1>7, ReplyInv
<1>8. ASSUME NEW c \in Client, Overflow(c) PROVE IInv'
  BY <1>8, OverflowInv
<1>9. ASSUME NEW c \in Client, NEW code \in {202, 500}, Commit(c, code) PROVE IInv'
  BY <1>9, CommitInv
<1>10. ASSUME NEW c \in Client, WriteFails(c) PROVE IInv'
  BY <1>10, WriteFailsInv
<1>11. ASSUME NEW c \in Client, Leave(c) PROVE IInv'
  BY <1>11, LeaveInv
<1>12. CASE UNCHANGED vars
  BY <1>12, StutterInv
<1> QED
  BY <1>1, <1>2, <1>3, <1>4, <1>5, <1>6, <1>7, <1>8, <1>9, <1>10, <1>11, <1>12 DEF Next

\* IInv is an inductive invariant of the HTTP server: what each handler has is what the rows it
\* saw give, and those rows are still in the tables.
THEOREM Inductive == Spec => []IInv
BY InvInit, InvStep, PTL DEF Spec

-----------------------------------------------------------------------------
(***************************************************************************)
(* What follows from the invariant.                                        *)
(***************************************************************************)

\* The nodes the trees do not come to have each a parent among them.
LEMMA HiddenAreLooped ==
  ASSUME NEW r \in Read, r.kind = "property", ~BadRequest(r), NEW d \in Database
  PROVE  LET N == Nodes(r, d)
             L == ParentsInfo(r, d)
             H == {n \in N : n \notin Shown(N, L, NaturalRoots(N, L))}
         IN  H \subseteq Entity /\ Looped(H, d.links)
<1> DEFINE N == Nodes(r, d)
           L == ParentsInfo(r, d)
           R == NaturalRoots(N, L)
           H == {n \in N : n \notin Shown(N, L, R)}
<1>1. N \subseteq Entity /\ L \subseteq d.links /\ \A l \in L : l[1] \in N
  BY QueryOK
<1>2. ASSUME NEW n \in H PROVE \E l \in L : l[2] = n /\ l[1] \in H
  <2>1. PICK S \in SUBSET N : R \subseteq S /\ Closed(S, L) /\ n \notin S
    BY DEF Shown
  <2>2. n \notin R
    BY <2>1
  <2>3. PICK l \in L : l[2] = n
    BY <2>2 DEF NaturalRoots
  <2>4. l[1] \notin S
    BY <2>1, <2>3 DEF Closed
  <2>5. l[1] \in N /\ l[1] \notin Shown(N, L, R)
    BY <1>1, <2>1, <2>4 DEF Shown
  <2> QED
    BY <2>3, <2>5
<1>3. Looped(H, d.links)
  BY <1>1, <1>2 DEF Looped
<1> QED
  BY <1>1, <1>3

LEMMA IInvShows == IInv => EveryMatchIsShown
<1> SUFFICES ASSUME IInv, NEW c \in Client, request[c].kind = "property",
                    st[c] = "reply" \/ (st[c] = "done" /\ answer[c].status \in {200, 404}),
                    NEW e \in Matched(request[c], seen[c]),
                    e \notin Shown(answer[c].nodes, answer[c].links, answer[c].roots)
             PROVE  \E S \in SUBSET Entity : e \in S /\ Looped(S, seen[c].links)
  BY DEF EveryMatchIsShown
<1> DEFINE r == request[c]
           N == Nodes(r, seen[c])
           L == ParentsInfo(r, seen[c])
           H == {n \in N : n \notin Shown(N, L, NaturalRoots(N, L))}
<1>1. CASE HasTrees(c)
  <2>0. /\ r \in Read /\ ~BadRequest(r) /\ seen[c] \in Database
        /\ answer[c].nodes = N /\ answer[c].links = L
        /\ answer[c].roots = Roots(r, answer[c].nodes, answer[c].links)
    BY <1>1 DEF IInv, TypeOK, ComesFromRows
  <2>1. /\ r \in Read /\ ~BadRequest(r) /\ seen[c] \in Database
        /\ answer[c].nodes = N /\ answer[c].links = L /\ answer[c].roots = NaturalRoots(N, L)
    BY <2>0 DEF Roots
  <2>2. e \in N
    BY <2>1, QueryOK
  <2>3. e \in H
    BY <2>1, <2>2
  <2>4. H \in SUBSET Entity /\ Looped(H, seen[c].links)
    BY <2>1, HiddenAreLooped
  <2> QED
    BY <2>3, <2>4
<1>2. CASE ~HasTrees(c)
  <2>1. st[c] = "done" /\ answer[c].status = 404
    BY <1>2 DEF HasTrees, IInv, NotFoundHasNoRoots
  <2>2. r \in Read /\ ~BadRequest(r) /\ seen[c] \in Database
    BY <2>1 DEF IInv, TypeOK, NotFoundHasNoRoots
  <2>6. NaturalRoots(N, L) = {}
    BY <2>1 DEF IInv, NotFoundHasNoRoots
  <2>3. e \in N /\ N \subseteq Entity
    BY <2>2, QueryOK
  <2>4. H \in SUBSET Entity /\ Looped(H, seen[c].links)
    <3>1. r.kind = "property"
      OBVIOUS
    <3> HIDE DEF r
    <3> QED
      BY <2>2, <3>1, HiddenAreLooped
  <2>5. Shown(N, L, {}) = {}
    <3>1. Closed({}, L) /\ {} \in SUBSET N
      BY DEF Closed
    <3> QED
      BY <3>1 DEF Shown
  <2> QED
    BY <2>3, <2>4, <2>5, <2>6
<1> QED
  BY <1>1, <1>2

LEMMA IInvKeepsNewest == IInv => NewestPointsStay
<1> SUFFICES ASSUME IInv, NEW c \in Client, HasTrees(c),
                    NEW p \in answer[c].points, NEW q \in seen[c].points,
                    q.entity = p.entity, q.series = p.series, p.month < q.month,
                    q.month <= ThisMonth
             PROVE  q \in answer[c].points
  BY DEF NewestPointsStay
<1>1. /\ p.entity \in answer[c].nodes /\ From(request[c]) <= p.month
      /\ \A t \in PointsOf(request[c], answer[c].nodes, seen[c]) :
           Before(t, p) => t \in answer[c].points
  BY DEF IInv, PointsAreFirst
<1>2. p \in Point /\ q \in Point
  BY DEF IInv, TypeOK, Answer, Database
<1>3. From(request[c]) \in Int
  <2>1. request[c] \in Read /\ ~BadRequest(request[c])
    BY DEF IInv, ComesFromRows
  <2>2. request[c].from \in Parameter /\ request[c].kind \in {"id", "property", "batch"}
    BY <2>1 DEF Read
  <2>3. request[c].from # Malformed
    BY <2>1, <2>2 DEF BadRequest, BadPeriod
  <2> QED
    BY <2>2, <2>3, MonthAssumption DEF Parameter, From
<1>4. q \in PointsOf(request[c], answer[c].nodes, seen[c])
  BY <1>1, <1>2, <1>3 DEF PointsOf, Point
<1>5. Before(q, p)
  BY DEF Before
<1> QED
  BY <1>1, <1>4, <1>5

-----------------------------------------------------------------------------
(***************************************************************************)
(* The levels of entity_graph and the walks along links.                   *)
(***************************************************************************)

\* The entities that n links lead to from S.
Reached(S, n, links) ==
  {e \in Entity : \E walk \in [0..n -> Entity] :
     walk[0] \in S /\ walk[n] = e /\ \A i \in 1..n : <<walk[i - 1], walk[i]>> \in links}

\* The ends of the links that begin in S.
Children(S, links) == {l[2] : l \in {k \in links : k[1] \in S}}

LEMMA ReachedFirst ==
  ASSUME NEW S \in SUBSET Entity, NEW links
  PROVE  Reached(S, 0, links) = S
<1>1. ASSUME NEW e \in S PROVE e \in Reached(S, 0, links)
  <2> DEFINE walk == [i \in 0..0 |-> e]
  <2>1. walk \in [0..0 -> Entity] /\ walk[0] = e
    OBVIOUS
  <2>2. \A i \in 1..0 : <<walk[i - 1], walk[i]>> \in links
    OBVIOUS
  <2> QED
    BY <2>1, <2>2 DEF Reached
<1>2. Reached(S, 0, links) \subseteq S
  BY DEF Reached
<1> QED
  BY <1>1, <1>2

LEMMA ReachedNext ==
  ASSUME NEW S \in SUBSET Entity, NEW links \in SUBSET Link, NEW n \in Nat, n > 0
  PROVE  Reached(S, n, links) = Children(Reached(S, n - 1, links), links)
<1>1. ASSUME NEW e \in Reached(S, n, links)
      PROVE  e \in Children(Reached(S, n - 1, links), links)
  <2>1. PICK walk \in [0..n -> Entity] :
          walk[0] \in S /\ walk[n] = e /\ \A i \in 1..n : <<walk[i - 1], walk[i]>> \in links
    BY <1>1 DEF Reached
  <2> DEFINE start == [i \in 0..(n - 1) |-> walk[i]]
  <2>2. /\ start \in [0..(n - 1) -> Entity] /\ start[0] \in S
        /\ \A i \in 1..(n - 1) : <<start[i - 1], start[i]>> \in links
    BY <2>1
  <2>3. start[n - 1] \in Reached(S, n - 1, links)
    <3>1. start[n - 1] \in Entity
      BY <2>2
    <3> HIDE DEF start
    <3> QED
      BY <2>2, <3>1 DEF Reached
  <2>4. <<start[n - 1], e>> \in links
    BY <2>1
  <2> QED
    BY <2>3, <2>4 DEF Children
<1>2. ASSUME NEW e \in Children(Reached(S, n - 1, links), links)
      PROVE  e \in Reached(S, n, links)
  <2>1. PICK l \in links : l[1] \in Reached(S, n - 1, links) /\ l[2] = e
    BY <1>2 DEF Children
  <2>2. PICK start \in [0..(n - 1) -> Entity] :
          /\ start[0] \in S /\ start[n - 1] = l[1]
          /\ \A i \in 1..(n - 1) : <<start[i - 1], start[i]>> \in links
    BY <2>1 DEF Reached
  <2>3. l = <<l[1], e>> /\ e \in Entity
    BY <2>1 DEF Link
  <2> DEFINE walk == [i \in 0..n |-> IF i = n THEN e ELSE start[i]]
  <2>4. walk \in [0..n -> Entity] /\ walk[0] \in S /\ walk[n] = e
    BY <2>2, <2>3
  <2>5. ASSUME NEW i \in 1..n PROVE <<walk[i - 1], walk[i]>> \in links
    <3>1. CASE i = n
      <4>1. walk[i - 1] = l[1] /\ walk[i] = e
        BY <2>2, <3>1
      <4> QED
        BY <2>3, <4>1
    <3>2. CASE i # n
      <4>1. i \in 1..(n - 1) /\ walk[i - 1] = start[i - 1] /\ walk[i] = start[i]
        BY <3>2
      <4> QED
        BY <2>2, <4>1
    <3> QED
      BY <3>1, <3>2
  <2> QED
    BY <2>3, <2>4, <2>5 DEF Reached
<1> QED
  BY <1>1, <1>2

\* The recursion of entity_graph is well-founded: the levels satisfy their equation.
LEMMA LevelDef ==
  ASSUME NEW r, Depth(r) \in Int, NEW d \in Database, Matched(r, d) \subseteq Entity
  PROVE  Level(r, d) = [n \in 0..Depth(r) |->
           IF n = 0 THEN Matched(r, d) ELSE Children(Level(r, d)[n - 1], d.links)]
<1> DEFINE D == 0..Depth(r)
           M == Matched(r, d)
           R == [n \in D |-> Reached(M, n, d.links)]
<1>1. R = [n \in D |-> IF n = 0 THEN M ELSE Children(R[n - 1], d.links)]
  <2>1. ASSUME NEW n \in D
        PROVE  R[n] = IF n = 0 THEN M ELSE Children(R[n - 1], d.links)
    <3>0. d.links \in SUBSET Link
      BY DEF Database
    <3>1. CASE n = 0
      BY <3>1, ReachedFirst
    <3>2. CASE n # 0
      <4>1. n \in Nat /\ n > 0 /\ n - 1 \in D
        BY <3>2
      <4>2. Reached(M, n, d.links) = Children(Reached(M, n - 1, d.links), d.links)
        BY <3>0, <4>1, ReachedNext
      <4> QED
        BY <3>2, <4>1, <4>2
    <3> QED
      BY <3>1, <3>2
  <2> QED
    BY <2>1
<1>2. \E g : g = [n \in D |-> IF n = 0 THEN M ELSE Children(g[n - 1], d.links)]
  BY <1>1
<1>3. Level(r, d) =
        CHOOSE g : g = [n \in D |-> IF n = 0 THEN M ELSE Children(g[n - 1], d.links)]
  BY DEF Level, Children
<1> HIDE DEF D, M
<1>4. Level(r, d) = [n \in D |-> IF n = 0 THEN M ELSE Children(Level(r, d)[n - 1], d.links)]
  BY <1>2, <1>3
<1> QED
  BY <1>4 DEF D, M

\* The level of depth n has the entities that n links lead to.
LEMMA LevelsAreWalks ==
  ASSUME NEW r, Depth(r) \in Int, NEW d \in Database, Matched(r, d) \subseteq Entity
  PROVE  \A n \in 0..Depth(r) : Level(r, d)[n] = Reached(Matched(r, d), n, d.links)
<1> DEFINE Less == {ss \in Nat \X Nat : ss[1] < ss[2]}
           M == Matched(r, d)
           Bad == {n \in 0..Depth(r) : Level(r, d)[n] # Reached(M, n, d.links)}
<1>1. SUFFICES ASSUME Bad # {} PROVE FALSE
  OBVIOUS
<1>2. IsWellFoundedOn(Less, Nat)
  BY NatLessThanWellFounded DEF OpToRel
<1>3. PICK n \in Bad : \A m \in Bad : ~(<<m, n>> \in Less)
  <2>1. Bad \in SUBSET Nat
    OBVIOUS
  <2> HIDE DEF Less, Bad
  <2> QED
    BY <1>1, <1>2, <2>1, WFMin
<1>4. n \in 0..Depth(r) /\ Level(r, d)[n] # Reached(M, n, d.links)
  OBVIOUS
<1>5. Level(r, d)[n] = IF n = 0 THEN M ELSE Children(Level(r, d)[n - 1], d.links)
  <2> HIDE DEF M
  <2>1. Level(r, d) = [i \in 0..Depth(r) |->
           IF i = 0 THEN M ELSE Children(Level(r, d)[i - 1], d.links)]
    BY LevelDef DEF M
  <2> QED
    BY <1>4, <2>1
<1>6. n # 0
  BY <1>4, <1>5, ReachedFirst
<1>7. n - 1 \in 0..Depth(r) /\ <<n - 1, n>> \in Less /\ n \in Nat /\ n > 0
  BY <1>4, <1>6
<1>8. Level(r, d)[n - 1] = Reached(M, n - 1, d.links)
  BY <1>3, <1>7
<1>9. Reached(M, n, d.links) = Children(Reached(M, n - 1, d.links), d.links)
  <2>1. d.links \in SUBSET Link
    BY DEF Database
  <2> QED
    BY <1>7, <2>1, ReachedNext
<1> QED
  BY <1>4, <1>5, <1>6, <1>8, <1>9

LEMMA IInvAnswers == IInv => AnswerIsTheNeighbourhood
<1> SUFFICES ASSUME IInv, NEW c \in Client, HasTrees(c)
             PROVE  LET r == request[c]
                        S == Matched(r, seen[c])
                    IN  /\ answer[c].nodes = Within(S, Deepest(r), seen[c].links)
                        /\ answer[c].links =
                             {l \in seen[c].links :
                                l[1] \in Within(S, Deepest(r) - 1, seen[c].links)}
  BY DEF AnswerIsTheNeighbourhood
<1> DEFINE r == request[c]
           d == seen[c]
           S == Matched(r, d)
<1>1. /\ r \in Read /\ ~BadRequest(r) /\ d \in Database
      /\ answer[c].nodes = Nodes(r, d) /\ answer[c].links = ParentsInfo(r, d)
  BY DEF IInv, TypeOK, ComesFromRows
<1> HIDE DEF r, d
<1>2. Depth(r) \in Int /\ S \subseteq Entity /\ S \subseteq Nodes(r, d)
  BY <1>1, QueryOK
<1>3. \A n \in 0..Depth(r) : Level(r, d)[n] = Reached(S, n, d.links)
  BY <1>1, <1>2, LevelsAreWalks
<1>4. \A n \in Int : Within(S, n, d.links) = UNION {Reached(S, k, d.links) : k \in 0..n}
  BY DEF Within, Reached
<1>5. Reached(S, 0, d.links) = S
  BY <1>2, ReachedFirst
<1>6. ASSUME NEW n \in Nat PROVE Reached(S, n, d.links) \subseteq d.entities
  <2>0. S \subseteq d.entities /\ d.links \in SUBSET Link /\ \A l \in d.links : l[2] \in d.entities
    BY <1>1 DEF Database, Matched
  <2>1. CASE n = 0
    BY <1>5, <2>0, <2>1
  <2>2. CASE n > 0
    BY <1>2, <2>0, <2>2, ReachedNext DEF Children
  <2> QED
    BY <2>1, <2>2
<1>7. Nodes(r, d) = Within(S, Deepest(r), d.links)
  <2> HIDE DEF S
  <2>1. CASE Depth(r) < 0
    <3>1. Nodes(r, d) = S
      BY <1>2, <2>1 DEF Nodes, S
    <3>2. Deepest(r) = 0 /\ 0..0 = {0}
      BY <2>1 DEF Deepest
    <3> QED
      BY <1>4, <1>5, <3>1, <3>2
  <2>2. CASE Depth(r) >= 0
    <3>1. Deepest(r) = Depth(r) /\ 0 \in 0..Depth(r)
      BY <1>2, <2>2 DEF Deepest
    <3>2. Nodes(r, d) = {e \in d.entities : e \in S \/ \E n \in 0..Depth(r) : e \in Level(r, d)[n]}
      BY DEF Nodes, S
    <3>3. Nodes(r, d) = {e \in d.entities : \E n \in 0..Depth(r) : e \in Reached(S, n, d.links)}
      BY <1>3, <1>5, <3>1, <3>2
    <3>4. Nodes(r, d) = UNION {Reached(S, k, d.links) : k \in 0..Depth(r)}
      BY <1>6, <3>3
    <3> QED
      BY <1>2, <1>4, <3>1, <3>4
  <2> QED
    BY <1>2, <2>1, <2>2
<1>8. ParentsInfo(r, d) = {l \in d.links : l[1] \in Within(S, Deepest(r) - 1, d.links)}
  <2>1. 0..(Deepest(r) - 1) = 0..(Depth(r) - 1) /\ Deepest(r) - 1 \in Int
    BY <1>2 DEF Deepest
  <2>2. Within(S, Deepest(r) - 1, d.links) =
          UNION {Level(r, d)[k] : k \in 0..(Depth(r) - 1)}
    <3>1. \A k \in 0..(Depth(r) - 1) : Level(r, d)[k] = Reached(S, k, d.links)
      BY <1>2, <1>3
    <3> HIDE DEF S
    <3>2. Within(S, Deepest(r) - 1, d.links) =
            UNION {Reached(S, k, d.links) : k \in 0..(Depth(r) - 1)}
      BY <1>4, <2>1
    <3> QED
      BY <3>1, <3>2
  <2> QED
    BY <2>2 DEF ParentsInfo
<1> QED
  BY <1>1, <1>7, <1>8 DEF r, d

\* An answer has exactly the entities within the depth asked for, and the links on the way.
THEOREM AnswersAreNeighbourhoods == Spec => []AnswerIsTheNeighbourhood
BY Inductive, IInvAnswers, PTL

\* A query by property shows every entity that matched, unless the entity lies on a cycle of
\* links or descends from one.
THEOREM MatchesAreShown == Spec => []EveryMatchIsShown
BY Inductive, IInvShows, PTL

\* However the data points are cut, each series keeps its newest.
THEOREM NewestStay == Spec => []NewestPointsStay
BY Inductive, IInvKeepsNewest, PTL

\* The process of the server dies of a response only if the links have a cycle.
THEOREM OnlyACycleKills == Spec => []OnlyCyclesKill
<1>1. IInv => OnlyCyclesKill
  BY DEF IInv
<1> QED
  BY <1>1, Inductive, PTL

=============================================================================
