----------------------------- MODULE GraphCache -----------------------------
(***************************************************************************)
(* The read path and the write path of the profile store around its cache. *)
(*                                                                         *)
(*   - CachedGraphRepository.QueryTree answers from Redis or, on a miss,   *)
(*     from the PostgreSQL read replica, and then fills the cache in a     *)
(*     goroutine;                                                          *)
(*   - SyncGraph and UpsertDataPoints write to the primary and start, in   *)
(*     another goroutine, the invalidation of every cached query that is   *)
(*     registered under one of the entities of the write.                  *)
(*                                                                         *)
(* Redis is a cluster: the commands of one pipeline go to several nodes,   *)
(* so that each command is a step of its own and the steps come in any     *)
(* order.  The replica replays the commits of the primary in their order   *)
(* and with a delay.                                                       *)
(*                                                                         *)
(* A database state is the set of writers whose commits it contains: a     *)
(* writer is one call of SyncGraph (GraphWriter) or of UpsertDataPoints    *)
(* (TemporalWriter), and a row of an entity is told from another by the    *)
(* writers that changed it.                                                *)
(***************************************************************************)
EXTENDS Naturals, Sequences

CONSTANTS
  Entity,          \* entity ids; an id also names the Redis set registry:entity:<id>
  Query,           \* cache keys graph:tree:<md5 of the parameters>
  Reader,          \* slots for calls of QueryTree, reused once a call is over
  GraphWriter,     \* calls of SyncGraph
  TemporalWriter,  \* calls of UpsertDataPoints
  Members,         \* Members[q][S]: ids in the answer to q once the rows S have changed
  Faulty           \* TRUE if commands and queries may fail or come late and processes may die

Writer == GraphWriter \cup TemporalWriter

Key == Query \cup Entity

ASSUME QueryAssumption == Query # {} /\ Query \cap Entity = {}
ASSUME WriterAssumption == GraphWriter \cap TemporalWriter = {}
ASSUME MembersAssumption == Members \in [Query -> [SUBSET Entity -> SUBSET Entity]]
ASSUME FaultyAssumption == Faulty \in BOOLEAN

VARIABLES
  tx,        \* state of each writer's transaction on the primary
  touched,   \* affectedIDs: what the statement of the writer returned
  changed,   \* the entities whose rows, edges or data points it really changed
  wal,       \* commits the replica has not replayed yet, oldest first
  replayed,  \* commits the replica answers from
  inv,       \* the invalidation goroutine of each writer
  req,       \* each call of QueryTree, with the goroutine that fills the cache
  cache,     \* Redis: the hash of each query
  registry   \* Redis: the set of cached queries of each entity

vars == <<tx, touched, changed, wal, replayed, inv, req, cache, registry>>

database == <<tx, touched, changed, wal, replayed>>

(***************************************************************************)
(* A cached answer: the entities it holds, the commits its two queries     *)
(* saw, and the history field "disturbed", which no guard reads: it tells  *)
(* whether a write, a failed command or a dead goroutine interfered with   *)
(* the fill or with the removal of this entry.                             *)
(***************************************************************************)
Entry == [ids : SUBSET Entity, graph : SUBSET Writer, temporal : SUBSET Writer,
          disturbed : BOOLEAN]

\* An answer without entities is ErrEntityNotFound and is never cached.
NoEntry == [ids |-> {}, graph |-> {}, temporal |-> {}, disturbed |-> FALSE]

Present(q) == cache[q].ids # {}

Idle == [st |-> "idle", query |-> CHOOSE q \in Query : TRUE, entry |-> NoEntry, todo |-> {}]

NotStarted == [st |-> "none", ents |-> {}, keys |-> {}]

Finished == [st |-> "over", ents |-> {}, keys |-> {}]

Init ==
  /\ tx = [w \in Writer |-> "idle"]
  /\ touched = [w \in Writer |-> {}]
  /\ changed = [w \in Writer |-> {}]
  /\ wal = <<>>
  /\ replayed = {}
  /\ inv = [w \in Writer |-> NotStarted]
  /\ req = [r \in Reader |-> Idle]
  /\ cache = [q \in Query |-> NoEntry]
  /\ registry = [e \in Entity |-> {}]

-----------------------------------------------------------------------------
(***************************************************************************)
(* Helpers.                                                                *)
(***************************************************************************)

Busy(w) == inv[w].st \in {"reading", "deleting"}

Pending(w) == \E i \in DOMAIN wal : wal[i] = w

\* From the statement of w to the last of its commit, its replay and its invalidation.
InFlight(w) == tx[w] = "open" \/ Busy(w) \/ Pending(w)

\* The ids the recursive query returns on the database state made by the commits S.
Answer(q, S) == Members[q][UNION {changed[w] : w \in S \cap GraphWriter}]

\* History: the entries marked when something goes wrong for the queries Q.
Disturb(Q) ==
  cache' = [q \in Query |->
              IF q \in Q /\ Present(q) THEN [cache[q] EXCEPT !.disturbed = TRUE] ELSE cache[q]]

Meets(entry, ids) == entry.ids \cap ids # {}

-----------------------------------------------------------------------------
(***************************************************************************)
(* The write path.                                                         *)
(***************************************************************************)

\* The statement has run in the open transaction of w: it returned the ids and changed
\* the rows of some of them.  The invalidation goroutine starts here, before the commit.
\* History: the write disturbs the fills that are under way for one of the ids.
Execute(w, ids, rows) ==
  /\ tx[w] = "idle"
  /\ tx' = [tx EXCEPT ![w] = "open"]
  /\ touched' = [touched EXCEPT ![w] = ids]
  /\ changed' = [changed EXCEPT ![w] = rows]
  /\ inv' = [inv EXCEPT ![w] =
               IF ids = {} THEN Finished ELSE [st |-> "reading", ents |-> ids, keys |-> {}]]
  /\ req' = [r \in Reader |-> IF Meets(req[r].entry, ids)
                                THEN [req[r] EXCEPT !.entry.disturbed = TRUE] ELSE req[r]]
  /\ Disturb({req[r].query : r \in {s \in Reader : Meets(req[s].entry, ids)}})
  /\ UNCHANGED <<wal, replayed, registry>>

SyncGraph(w) ==
  w \in GraphWriter /\ \E ids \in SUBSET Entity : \E rows \in SUBSET ids : Execute(w, ids, rows)

UpsertDataPoints(w) ==
  w \in TemporalWriter /\ \E ids \in SUBSET Entity : \E rows \in SUBSET ids : Execute(w, ids, rows)

Commit(w) ==
  /\ tx[w] = "open"
  /\ tx' = [tx EXCEPT ![w] = "committed"]
  /\ wal' = Append(wal, w)
  /\ UNCHANGED <<touched, changed, replayed, inv, req, cache, registry>>

\* The commit fails; the invalidation that was started goes on.
Rollback(w) ==
  /\ Faulty
  /\ tx[w] = "open"
  /\ tx' = [tx EXCEPT ![w] = "aborted"]
  /\ UNCHANGED <<touched, changed, wal, replayed, inv, req, cache, registry>>

Replay ==
  /\ wal # <<>>
  /\ replayed' = replayed \cup {Head(wal)}
  /\ wal' = Tail(wal)
  /\ UNCHANGED <<tx, touched, changed, inv, req, cache, registry>>

\* The process of w dies: an open transaction is rolled back, the goroutine is lost.
Crash(w) ==
  /\ Faulty
  /\ tx[w] = "open" \/ Busy(w)
  /\ tx' = [tx EXCEPT ![w] = IF @ = "open" THEN "aborted" ELSE @]
  /\ inv' = [inv EXCEPT ![w] = Finished]
  /\ Disturb({q \in Query : Busy(w) /\ Meets(cache[q], touched[w])})
  /\ UNCHANGED <<touched, changed, wal, replayed, req, registry>>

-----------------------------------------------------------------------------
(***************************************************************************)
(* InvalidateByEntityIDs: one SMEMBERS for each entity, then one DEL for   *)
(* each registry and for each query that was found, in any order.          *)
(***************************************************************************)

\* Mutant: the registries are deleted but not the queries they list.
Bug_ReadRegistryForgetsQueries(w, e) ==
  /\ inv[w].st = "reading"
  /\ e \in inv[w].ents
  /\ inv' = [inv EXCEPT ![w] =
               [st   |-> IF @.ents = {e} THEN "deleting" ELSE "reading",
                ents |-> @.ents \ {e},
                keys |-> @.keys \cup {e}]]
  /\ UNCHANGED <<database, req, cache, registry>>

ReadRegistry(w, e) ==
  /\ inv[w].st = "reading"
  /\ e \in inv[w].ents
  /\ inv' = [inv EXCEPT ![w] =
               [st   |-> IF @.ents = {e} THEN "deleting" ELSE "reading",
                ents |-> @.ents \ {e},
                keys |-> @.keys \cup registry[e] \cup {e}]]
  /\ UNCHANGED <<database, req, cache, registry>>

\* An error of the pipeline ends the invalidation before it has deleted anything.
ReadRegistryFails(w) ==
  /\ Faulty
  /\ inv[w].st = "reading"
  /\ inv' = [inv EXCEPT ![w] = Finished]
  /\ Disturb({q \in Query : Meets(cache[q], touched[w])})
  /\ UNCHANGED <<database, req, registry>>

Without(i, k) == IF i.keys = {k} THEN Finished ELSE [i EXCEPT !.keys = @ \ {k}]

DeleteKey(w, k) ==
  /\ inv[w].st = "deleting"
  /\ k \in inv[w].keys
  /\ inv' = [inv EXCEPT ![w] = Without(@, k)]
  /\ cache' = [q \in Query |-> IF q = k THEN NoEntry ELSE cache[q]]
  /\ registry' = [e \in Entity |-> IF e = k THEN {} ELSE registry[e]]
  /\ UNCHANGED <<database, req>>

\* The error of one DEL is collected and the loop goes on with the next key.
DeleteKeyFails(w, k) ==
  /\ Faulty
  /\ inv[w].st = "deleting"
  /\ k \in inv[w].keys
  /\ inv' = [inv EXCEPT ![w] = Without(@, k)]
  /\ Disturb({k})
  /\ UNCHANGED <<database, req, registry>>

-----------------------------------------------------------------------------
(***************************************************************************)
(* QueryTree.  A hit changes nothing and is no action; an error of the     *)
(* lookup is treated as a miss.                                            *)
(***************************************************************************)

Lookup(r, q) ==
  /\ req[r].st = "idle"
  /\ Present(q) => Faulty
  /\ req' = [req EXCEPT ![r] = [Idle EXCEPT !.st = "miss", !.query = q]]
  /\ UNCHANGED <<database, inv, cache, registry>>

\* Mutant: the query goes to any of several replicas, one of which lags behind another.
Bug_ReadGraphFromAnyReplica(r) ==
  \E seen \in {replayed, {}} :
    LET ids == Answer(req[r].query, seen)
    IN  /\ req[r].st = "miss"
        /\ ids # {}
        /\ req' = [req EXCEPT ![r] =
                     [@ EXCEPT !.st = "graph",
                               !.entry = [ids |-> ids, graph |-> seen, temporal |-> {},
                                          disturbed |-> \E w \in Writer :
                                            InFlight(w) /\ touched[w] \cap ids # {}]]]
        /\ UNCHANGED <<database, inv, cache, registry>>

\* The first query: the tree.  History: a write in flight may be missing from it.
ReadGraph(r) ==
  LET ids == Answer(req[r].query, replayed)
  IN  /\ req[r].st = "miss"
      /\ req' = [req EXCEPT ![r] =
                   IF ids = {} THEN Idle
                   ELSE [@ EXCEPT !.st = "graph",
                                  !.entry = [ids |-> ids, graph |-> replayed, temporal |-> {},
                                             disturbed |-> \E w \in Writer :
                                               InFlight(w) /\ touched[w] \cap ids # {}]]]
      /\ UNCHANGED <<database, inv, cache, registry>>

\* Mutant: only one entity of the answer gets the query into its registry.
Bug_Answered(call, lost) ==
  [st    |-> "fill",
   query |-> call.query,
   entry |-> [ids       |-> call.entry.ids,
              graph     |-> call.entry.graph,
              temporal  |-> IF lost THEN {} ELSE replayed,
              disturbed |-> call.entry.disturbed \/ lost],
   todo  |-> {call.query, CHOOSE e \in call.entry.ids : TRUE}]

\* The call with its answer, all of whose entities are to be registered.
Answered(call, lost) ==
  [st    |-> "fill",
   query |-> call.query,
   entry |-> [ids       |-> call.entry.ids,
              graph     |-> call.entry.graph,
              temporal  |-> IF lost THEN {} ELSE replayed,
              disturbed |-> call.entry.disturbed \/ lost],
   todo  |-> {call.query} \cup call.entry.ids]

\* The second query, on a snapshot of its own: the data points of the ids of the first.
\* An error between its rows is not looked at, and what came before it is the answer.
\* The answer goes to the caller and the goroutine that caches it starts.
ReadTemporal(r) ==
  \E lost \in {FALSE, Faulty} :
    /\ req[r].st = "graph"
    /\ req' = [req EXCEPT ![r] = Answered(@, lost)]
    /\ UNCHANGED <<database, inv, cache, registry>>

QueryFails(r) ==
  /\ Faulty
  /\ req[r].st \in {"miss", "graph"}
  /\ req' = [req EXCEPT ![r] = Idle]
  /\ UNCHANGED <<database, inv, cache, registry>>

After(call, k) == IF call.todo = {k} THEN Idle ELSE [call EXCEPT !.todo = @ \ {k}]

\* Mutant: SADD is given the name of the set instead of the key to list.
Bug_FillCommandListsItself(r, k) ==
  /\ req[r].st = "fill"
  /\ k \in req[r].todo
  /\ req' = [req EXCEPT ![r] = After(@, k)]
  /\ cache' = [q \in Query |-> IF q = k THEN req[r].entry ELSE cache[q]]
  /\ registry' = [e \in Entity |-> IF e = k THEN registry[e] \cup {k} ELSE registry[e]]
  /\ UNCHANGED <<database, inv>>

\* SetWithRegistry: HSET and EXPIRE of the query's own key, SADD and EXPIRE of the
\* registry of each entity of the answer.
FillCommand(r, k) ==
  /\ req[r].st = "fill"
  /\ k \in req[r].todo
  /\ req' = [req EXCEPT ![r] = After(@, k)]
  /\ cache' = [q \in Query |-> IF q = k THEN req[r].entry ELSE cache[q]]
  /\ registry' = [e \in Entity |->
                    IF e = k THEN registry[e] \cup {req[r].query} ELSE registry[e]]
  /\ UNCHANGED <<database, inv>>

\* A command is lost: its node fails, the 30 seconds are over or the process dies.
FillCommandFails(r, k) ==
  LET call == After(req[r], k)
  IN  /\ Faulty
      /\ req[r].st = "fill"
      /\ k \in req[r].todo
      /\ req' = [req EXCEPT ![r] =
                   IF call = Idle THEN Idle ELSE [call EXCEPT !.entry.disturbed = TRUE]]
      /\ Disturb({req[r].query} \ req[r].todo)
      /\ UNCHANGED <<database, inv, registry>>

-----------------------------------------------------------------------------
(***************************************************************************)
(* Redis drops a key when its time to live is over.  Every SADD renews the *)
(* registry with the time to live of the entry it lists (120 seconds       *)
(* unless configured), and the commands of a fill take at most 30: only if *)
(* they come far apart does a registry end before what it lists.           *)
(***************************************************************************)

\* Mutant: EXPIRE is sent for the registries only.
Bug_ExpireNever(q) == Present(q) /\ FALSE /\ UNCHANGED vars

Expire(q) ==
  /\ Present(q)
  /\ cache' = [cache EXCEPT ![q] = NoEntry]
  /\ UNCHANGED <<database, inv, req, registry>>

\* A fill that has been at the registry of e has just renewed it.
\* History: a registry that ends too early disturbs the entries it lists.
ExpireRegistry(e) ==
  /\ registry[e] # {}
  /\ \A q \in registry[e] :
       /\ Present(q) => Faulty
       /\ \A r \in Reader : req[r].st = "fill" /\ req[r].query = q => e \in req[r].todo
  /\ registry' = [registry EXCEPT ![e] = {}]
  /\ Disturb(registry[e])
  /\ UNCHANGED <<database, inv, req>>

-----------------------------------------------------------------------------
Next ==
  \/ \E w \in Writer : SyncGraph(w) \/ UpsertDataPoints(w)
  \/ \E w \in Writer : Commit(w) \/ Rollback(w) \/ Crash(w)
  \/ Replay
  \/ \E w \in Writer, e \in Entity : ReadRegistry(w, e)
  \/ \E w \in Writer : ReadRegistryFails(w)
  \/ \E w \in Writer, k \in Key : DeleteKey(w, k) \/ DeleteKeyFails(w, k)
  \/ \E r \in Reader, q \in Query : Lookup(r, q)
  \/ \E r \in Reader : ReadGraph(r) \/ ReadTemporal(r) \/ QueryFails(r)
  \/ \E r \in Reader, k \in Key : FillCommand(r, k) \/ FillCommandFails(r, k)
  \/ \E q \in Query : Expire(q)
  \/ \E e \in Entity : ExpireRegistry(e)

Spec == Init /\ [][Next]_vars

(***************************************************************************)
(* What has begun goes on: transactions end, the replica keeps up, the     *)
(* goroutines run to their end, and Redis drops what has expired.  Nothing *)
(* makes a new call start.                                                 *)
(***************************************************************************)
Fairness ==
  /\ WF_vars(Replay)
  /\ \A w \in Writer : /\ WF_vars(Commit(w))
                       /\ WF_vars(\E e \in Entity : ReadRegistry(w, e))
                       /\ WF_vars(\E k \in Key : DeleteKey(w, k))
  /\ \A r \in Reader : /\ WF_vars(ReadGraph(r))
                       /\ WF_vars(ReadTemporal(r))
                       /\ WF_vars(\E k \in Key : FillCommand(r, k))
  /\ \A q \in Query : WF_vars(Expire(q))

FairSpec == Spec /\ Fairness

-----------------------------------------------------------------------------
(***************************************************************************)
(* Properties.                                                             *)
(***************************************************************************)

CallType == [st : {"idle", "miss", "graph", "fill"}, query : Query, entry : Entry,
             todo : SUBSET Key]

InvType == [st : {"none", "reading", "deleting", "over"}, ents : SUBSET Entity,
            keys : SUBSET Key]

\* Type invariant of the write path, the replica, the calls and Redis.
TypeOK ==
  /\ tx \in [Writer -> {"idle", "open", "committed", "aborted"}]
  /\ touched \in [Writer -> SUBSET Entity]
  /\ changed \in [Writer -> SUBSET Entity]
  /\ wal \in Seq(Writer)
  /\ replayed \in SUBSET Writer
  /\ inv \in [Writer -> InvType]
  /\ req \in [Reader -> CallType]
  /\ cache \in [Query -> Entry]
  /\ registry \in [Entity -> SUBSET Query]

\* The commits the cached answer to q contains, for the table that w writes.
Seen(q, w) == IF w \in GraphWriter THEN cache[q].graph ELSE cache[q].temporal

\* A committed change of e is missing from the cached answer to q.
Stale(q, e) == \E w \in Writer : tx[w] = "committed" /\ e \in changed[w] /\ w \notin Seen(q, w)

\* A fill that has stored an answer to q is still going to list q in the registry of e.
Registering(q, e) == \E r \in Reader : /\ req[r].st = "fill"
                                        /\ req[r].query = q
                                        /\ q \notin req[r].todo
                                        /\ e \in req[r].todo
                                        /\ ~req[r].entry.disturbed

\* The invalidation of w is going to remove the cached answer to q: it has found its key,
\* or will find it in a registry it has not read yet.
WillDelete(w, q) ==
  \/ Busy(w) /\ q \in inv[w].keys
  \/ \E e \in inv[w].ents \cap cache[q].ids : q \in registry[e]

\* An answer whose fill no write of its entities overlapped, and for which no command was
\* lost, is up to date on every entity it holds and registered under each of them, or an
\* invalidation that removes it is running: all that selective invalidation can promise.
QuietEntryIsCoherent ==
  \A q \in Query : \A e \in cache[q].ids :
    ~cache[q].disturbed /\ (Stale(q, e) \/ (q \notin registry[e] /\ ~Registering(q, e)))
      => \E w \in Writer : WillDelete(w, q)

\* The inductive invariant behind it, part by part.  First the bookkeeping of a write.
WriteOK(w) ==
  /\ tx[w] = "idle" => touched[w] = {} /\ inv[w] = NotStarted
  /\ tx[w] = "committed" <=> Pending(w) \/ w \in replayed
  /\ changed[w] \subseteq touched[w]
  /\ inv[w].ents \subseteq touched[w]
  /\ inv[w].keys \cap Entity \subseteq touched[w]
  /\ inv[w].ents # {} => inv[w].st = "reading"
  /\ inv[w].keys # {} => Busy(w)

WritesOK == \A w \in Writer : WriteOK(w)

\* The stages of a call of QueryTree.
CallOK(r) ==
  /\ req[r].st \in {"idle", "miss"} => req[r].entry = NoEntry
  /\ req[r].st \in {"graph", "fill"} => req[r].entry.ids # {}
  /\ req[r].st # "fill" => req[r].todo = {}
  /\ req[r].st = "fill" => req[r].todo \subseteq {req[r].query} \cup req[r].entry.ids

CallsOK == \A r \in Reader : CallOK(r)

\* An answer holds nothing but what the replica has replayed.
SeenIsReplayed ==
  /\ \A r \in Reader : req[r].entry.graph \cup req[r].entry.temporal \subseteq replayed
  /\ \A q \in Query : cache[q].graph \cup cache[q].temporal \subseteq replayed

\* The writes an undisturbed fill meets were over when it began, and it saw their commits.
QuietFillSawItsWrites ==
  \A r \in Reader : \A w \in Writer :
    /\ ~req[r].entry.disturbed
    /\ Meets(req[r].entry, touched[w])
    => /\ ~InFlight(w)
       /\ tx[w] = "committed" => w \in req[r].entry.graph
       /\ tx[w] = "committed" /\ req[r].st = "fill" => w \in req[r].entry.temporal

\* What an undisturbed fill has registered stays registered while it runs.
QuietFillIsRegistered ==
  \A r \in Reader :
    req[r].st = "fill" /\ ~req[r].entry.disturbed =>
      \A e \in req[r].entry.ids \ req[r].todo : req[r].query \in registry[e]

\* An invalidation that meets the cached answer to q has q among the keys it deletes.
Doomed(q) == \E w \in Writer : q \in inv[w].keys /\ Meets(cache[q], touched[w])

\* An undisturbed answer that a registry does not list is about to be deleted,
UnregisteredIsDoomed ==
  \A q \in Query : ~cache[q].disturbed =>
    \A e \in cache[q].ids : q \in registry[e] \/ Registering(q, e) \/ Doomed(q)

\* and so is one whose registry an invalidation has read,
CollectedIsDoomed ==
  \A q \in Query : ~cache[q].disturbed =>
    \A w \in Writer : cache[q].ids \cap inv[w].keys # {} => Doomed(q)

\* and one that lacks a write, unless that write's invalidation has not come to it yet.
MissedWriteIsDoomed ==
  \A q \in Query : ~cache[q].disturbed =>
    \A w \in Writer : \A e \in cache[q].ids \cap touched[w] :
      tx[w] = "open" \/ (tx[w] = "committed" /\ w \notin Seen(q, w))
        => e \in inv[w].ents \/ Doomed(q)

IInv ==
  /\ TypeOK
  /\ WritesOK
  /\ CallsOK
  /\ SeenIsReplayed
  /\ QuietFillSawItsWrites
  /\ QuietFillIsRegistered
  /\ UnregisteredIsDoomed
  /\ CollectedIsDoomed
  /\ MissedWriteIsDoomed

\* A fill that nothing disturbed never takes a cached answer back: whatever commit to one
\* of its entities the replaced answer contained, the new one contains.
QuietFillNeverGoesBack ==
  [][\A q \in Query : Present(q) /\ ~cache'[q].disturbed =>
       \A w \in Writer : w \in Seen(q, w) /\ changed[w] \cap cache'[q].ids # {} => w \in Seen(q, w)']_cache

\* Once writes stop, every cached answer is, for good, what the database would answer: the
\* time to live bounds what the invalidation missed.
UpToDate(q) == Present(q) => /\ cache[q].ids = Answer(q, replayed)
                             /\ \A e \in cache[q].ids : ~Stale(q, e)

EventuallyUpToDate == <>[](\A q \in Query : UpToDate(q))

Quiet == /\ \A w \in Writer : ~InFlight(w)
         /\ \A r \in Reader : req[r].st = "idle"

\* What the documentation promises of selective invalidation: once every write, replay,
\* invalidation and fill is over, no cached answer lacks a change of an entity it holds.
ChangeInvalidatesItsQueries ==
  Quiet => \A q \in Query : \A e \in cache[q].ids : ~Stale(q, e)

=============================================================================
