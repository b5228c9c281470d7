------------------------------ MODULE GraphWrite ------------------------------
(***************************************************************************)
(* Concurrent calls of SyncGraph and UpsertDataPoints on the primary.      *)
(*                                                                         *)
(* Each is one transaction that copies its request to a temporary table    *)
(* and runs one statement.  The statement reads the tables as they are     *)
(* committed when it starts; its upserts read, lock and change each row as *)
(* it is when they come to it, and the locks last to the end of the        *)
(* transaction.  Rows are upserted in no particular order: the entities    *)
(* come out of a Go map.                                                   *)
(***************************************************************************)
EXTENDS GraphRows

CONSTANTS
  Writer,     \* the calls
  Requests,   \* Requests[w]: what w may be asked
  Faulty      \* TRUE if connections may be lost

ASSUME RequestsAssumption == Requests \in [Writer -> SUBSET Request]
ASSUME FaultyAssumption == Faulty \in BOOLEAN

VARIABLES
  table,   \* the committed rows
  draft,   \* the rows with the changes of the transactions under way
  lock,    \* lock[row]: {w} if w holds the row, {} if nobody does
  st,      \* the stage of each call
  req,     \* its request
  snap,    \* the entities in the snapshot of its statement
  todo,    \* the upserts its statement has still to do in this stage
  want,    \* the upsert that waits for a lock, in a set
  wrote    \* the rows its statement has inserted or updated

vars == <<table, draft, lock, st, req, snap, todo, want, wrote>>

Init ==
  /\ table = [row \in Row |-> NoRow]
  /\ draft = table
  /\ lock = [row \in Row |-> {}]
  /\ st = [w \in Writer |-> "idle"]
  /\ req \in {r \in [Writer -> UNION {Requests[w] : w \in Writer}] : \A w \in Writer : r[w] \in Requests[w]}
  /\ snap = [w \in Writer |-> {}]
  /\ todo = [w \in Writer |-> {}]
  /\ want = [w \in Writer |-> {}]
  /\ wrote = [w \in Writer |-> {}]

Running(w) == st[w] \in {"entities", "dependents"}

\* entity_ids: what the statement sees of the snapshot and of the rows it has written itself.
Found(w) == Resolved(req[w], snap[w] \cup (wrote[w] \cap Entity))

\* Mutant: only the entities that were inserted or updated are returned.
Bug_Returned(w) == wrote[w] \cap Entity

\* The ids the statement returns, for the invalidation of the cache.
Returned(w) == Found(w)

-----------------------------------------------------------------------------
\* The statement starts: BEGIN, CREATE TEMP TABLE and COPY concern nobody else.
Start(w) ==
  LET known == {e \in Entity : table[e] # NoRow}
  IN  /\ st[w] = "idle"
      /\ st' = [st EXCEPT ![w] = "entities"]
      /\ snap' = [snap EXCEPT ![w] = known]
      /\ todo' = [todo EXCEPT ![w] = EntityTasks(req[w], known)]
      /\ UNCHANGED <<table, draft, lock, req, want, wrote>>

\* t is the next upsert of w: any that is left, or the one that has waited.
Turn(w, t) == Running(w) /\ t \in todo[w] /\ (want[w] = {} \/ want[w] = {t})

Free(w, row) == lock[row] \subseteq {w}

\* The upsert meets a row this statement has changed already, an entity that was inserted
\* since its NOT EXISTS looked, or an idempotency key that is NULL.
Refused(w, t) ==
  \/ t.row \in wrote[w]
  \/ t.row \in Entity /\ ~IsSync(req[w]) /\ draft[t.row] # NoRow
  \/ t.row \in Point /\ t.row[2] = NoPeriod

\* Mutant: the upsert does not wait for the transaction that holds the row and merges into
\* the committed row.
Bug_Upsert(w, t) ==
  LET new == Upserted(t.row, table[t.row], t.new)
  IN  /\ Turn(w, t)
      /\ ~Refused(w, t)
      /\ draft' = [draft EXCEPT ![t.row] = new]
      /\ lock' = [lock EXCEPT ![t.row] = {w}]
      /\ wrote' = [wrote EXCEPT ![w] = IF new = table[t.row] THEN @ ELSE @ \cup {t.row}]
      /\ todo' = [todo EXCEPT ![w] = @ \ {t}]
      /\ want' = [want EXCEPT ![w] = {}]
      /\ UNCHANGED <<table, st, req, snap>>

\* One INSERT ... ON CONFLICT of the statement.  The row stays locked even if the upsert
\* changes nothing, but RETURNING gives only the rows that were inserted or updated.
Upsert(w, t) ==
  LET new == Upserted(t.row, draft[t.row], t.new)
  IN  /\ Turn(w, t)
      /\ Free(w, t.row)
      /\ ~Refused(w, t)
      /\ draft' = [draft EXCEPT ![t.row] = new]
      /\ lock' = [lock EXCEPT ![t.row] = {w}]
      /\ wrote' = [wrote EXCEPT ![w] = IF new = draft[t.row] THEN @ ELSE @ \cup {t.row}]
      /\ todo' = [todo EXCEPT ![w] = @ \ {t}]
      /\ want' = [want EXCEPT ![w] = {}]
      /\ UNCHANGED <<table, st, req, snap>>

\* Another transaction holds the row: wait for its end.
Wait(w, t) ==
  /\ Turn(w, t)
  /\ want[w] = {}
  /\ ~Free(w, t.row)
  /\ want' = [want EXCEPT ![w] = {t}]
  /\ UNCHANGED <<table, draft, lock, st, req, snap, todo, wrote>>

\* Mutant: an entity named by a link must have been changed by the statement.
Bug_Resolve(w) ==
  /\ st[w] = "entities"
  /\ todo[w] = {}
  /\ st' = [st EXCEPT ![w] = "dependents"]
  /\ todo' = [todo EXCEPT ![w] = DependentTasks(req[w], wrote[w] \cap Entity)]
  /\ UNCHANGED <<table, draft, lock, req, snap, want, wrote>>

\* The entities are done: links and points are joined to ids.
Resolve(w) ==
  /\ st[w] = "entities"
  /\ todo[w] = {}
  /\ st' = [st EXCEPT ![w] = "dependents"]
  /\ todo' = [todo EXCEPT ![w] = DependentTasks(req[w], Found(w))]
  /\ UNCHANGED <<table, draft, lock, req, snap, want, wrote>>

\* The locks of w are gone, and its changes have become what "rows" says.
Release(w) == lock' = [row \in Row |-> lock[row] \ {w}]

Commit(w) ==
  /\ st[w] = "dependents"
  /\ todo[w] = {}
  /\ st' = [st EXCEPT ![w] = "committed"]
  /\ table' = [row \in Row |-> IF lock[row] = {w} THEN draft[row] ELSE table[row]]
  /\ Release(w)
  /\ UNCHANGED <<draft, req, snap, todo, want, wrote>>

\* Mutant: the transaction is not rolled back when its statement has failed.
Bug_Rollback(w) ==
  /\ st' = [st EXCEPT ![w] = "failed"]
  /\ UNCHANGED <<table, draft, lock, req, snap, todo, want, wrote>>

\* The transaction is rolled back and the call returns an error.
Rollback(w) ==
  /\ st' = [st EXCEPT ![w] = "failed"]
  /\ draft' = [row \in Row |-> IF lock[row] = {w} THEN table[row] ELSE draft[row]]
  /\ Release(w)
  /\ UNCHANGED <<table, req, snap, todo, want, wrote>>

\* The statement fails: the constraint it violates decides.
Refuse(w, t) == Turn(w, t) /\ Free(w, t.row) /\ Refused(w, t) /\ Rollback(w)

\* w waits for a row that only calls waiting like itself can free.
Deadlocked(w) ==
  \E W \in SUBSET Writer :
    /\ w \in W
    /\ \A v \in W : \E t \in want[v] : ~Free(v, t.row) /\ lock[t.row] \subseteq W

\* PostgreSQL cancels one of the calls of a deadlock.
Cancel(w) == Running(w) /\ Deadlocked(w) /\ Rollback(w)

\* The connection or the process is lost, or statement_timeout or lock_timeout is over.
Lose(w) == Faulty /\ Running(w) /\ Rollback(w)

-----------------------------------------------------------------------------
Step(w, t) == Upsert(w, t) \/ Wait(w, t) \/ Refuse(w, t)

Next ==
  \E w \in Writer :
    \/ Start(w) \/ Resolve(w) \/ Commit(w) \/ Cancel(w) \/ Lose(w)
    \/ \E t \in todo[w] : Step(w, t)

Spec == Init /\ [][Next]_vars

(***************************************************************************)
(* A statement that can go on goes on, and deadlocks are detected.         *)
(***************************************************************************)
Fairness ==
  \A w \in Writer :
    /\ WF_vars(\E t \in todo[w] : Step(w, t))
    /\ WF_vars(Resolve(w))
    /\ WF_vars(Commit(w))
    /\ WF_vars(Cancel(w))

FairSpec == Spec /\ Fairness

-----------------------------------------------------------------------------
(***************************************************************************)
(* Properties.                                                             *)
(***************************************************************************)

\* Type invariant of the tables and the calls.
TypeOK ==
  /\ DOMAIN table = Row /\ DOMAIN draft = Row
  /\ \A row \in Row : {table[row], draft[row]} \subseteq Content(row) \cup {NoRow}
  /\ lock \in [Row -> SUBSET Writer]
  /\ st \in [Writer -> {"idle", "entities", "dependents", "committed", "failed"}]
  /\ DOMAIN req = Writer /\ \A w \in Writer : req[w] \in Requests[w]
  /\ snap \in [Writer -> SUBSET Entity]
  /\ DOMAIN todo = Writer /\ \A w \in Writer : \A t \in todo[w] : t \in Task /\ t.new \in Content(t.row)
  /\ DOMAIN want = Writer /\ \A w \in Writer : want[w] \subseteq todo[w]
  /\ wrote \in [Writer -> SUBSET Row]

\* The inductive invariant, part by part.  A row belongs to nobody, and has no draft, or to
\* one call that is running and that upserts it once.
RowOK(row) ==
  \/ lock[row] = {} /\ draft[row] = table[row]
  \/ \E w \in Writer : /\ lock[row] = {w} /\ Running(w)
                        /\ (row \in wrote[w] \/ draft[row] = table[row])

RowsOK == \A row \in Row : RowOK(row)

\* What a running call has made of a row is what its request asks for.
DraftOK(w, row) ==
  IF row \in Entity
    THEN /\ row \in Named(req[w])
         /\ IF IsSync(req[w]) THEN draft[row] = Upserted(row, table[row], Merged(req[w], row))
                              ELSE table[row] = NoRow /\ draft[row] = Null
    ELSE /\ st[w] = "dependents"
         /\ \E t \in DependentTasks(req[w], Found(w)) :
              t.row = row /\ draft[row] \in {table[row], Upserted(row, table[row], t.new)}

DraftsOK ==
  \A w \in Writer : \A row \in Row : Running(w) /\ lock[row] = {w} => DraftOK(w, row)

\* The upserts of a running call are done, or still to do: none is forgotten.
TaskOK(w) ==
  /\ \A t \in EntityTasks(req[w], snap[w]) : t \in todo[w] \/ lock[t.row] = {w}
  /\ IF st[w] = "entities"
       THEN todo[w] \subseteq EntityTasks(req[w], snap[w])
       ELSE /\ todo[w] \subseteq DependentTasks(req[w], Found(w))
            /\ \A t \in DependentTasks(req[w], Found(w)) :
                 t \in todo[w] \/ (lock[t.row] = {w} /\ draft[t.row] # NoRow)

TasksOK == \A w \in Writer : Running(w) => TaskOK(w)

\* What a statement has seen or written is there: the entities of its snapshot, and its own
\* rows as long as it holds them.
SightOK(w) ==
  /\ st[w] = "idle" => wrote[w] = {} /\ want[w] = {}
  /\ \A e \in snap[w] : table[e] # NoRow
  /\ Running(w) => \A row \in wrote[w] : lock[row] = {w} /\ draft[row] # NoRow

SightsOK == \A w \in Writer : SightOK(w)

\* A call that returned without error has stored every link and point between entities it
\* found, and no other call has undone it.
Stored(w) == \A t \in DependentTasks(req[w], Found(w)) : table[t.row] # NoRow

FoundIsStored == \A w \in Writer : st[w] = "committed" => Stored(w)

IInv ==
  /\ TypeOK
  /\ RowsOK
  /\ DraftsOK
  /\ TasksOK
  /\ SightsOK
  /\ FoundIsStored

\* A commit changes nothing but rows of entities whose ids the statement has returned, so
\* that the invalidation, which has begun by then, reaches every cached answer it changes.
ChangeIsReturned ==
  [][\A row \in Row : table'[row] # table[row] =>
       \E w \in Writer : /\ st[w] # "committed" /\ st'[w] = "committed"
                         /\ Owners(row) \subseteq Returned(w)]_vars

\* The calls together implement the store: each takes effect at once, on the rows as they
\* are at that moment, or not at all.
Store == INSTANCE GraphStore WITH done <- {w \in Writer : st[w] = "committed"}

CallsAreAtomic == Store!Spec

\* Every call comes to its end: no deadlock is left standing.
EveryCallEnds == \A w \in Writer : Running(w) ~> ~Running(w)

\* What the comment on entity_ids says: the ids of all the entities of the request.
AllInvolvedAreFound ==
  \A w \in Writer : st[w] = "committed" => Named(req[w]) \subseteq Found(w)

=============================================================================
