------------------------------ MODULE GraphStore ------------------------------
(***************************************************************************)
(* What a call of SyncGraph or UpsertDataPoints promises: it takes effect  *)
(* at once and as a whole, or not at all.  Every entity of the request is  *)
(* merged into its row as the row is at that moment; an edge or a point    *)
(* is upserted or, where the call did not see an entity that another call  *)
(* was inserting, left out.                                                *)
(***************************************************************************)
EXTENDS GraphRows

CONSTANTS Writer, Requests   \* the calls, and Requests[w]: what w may be asked

VARIABLES table, done        \* the rows; the calls that returned without an error

\* What the request q may make of a row.
Outcomes(q, row, old) ==
  IF row \notin Entity
    THEN {old} \cup {Upserted(row, old, t.new) :
                       t \in {t \in DependentTasks(q, Entity) : t.row = row}}
  ELSE IF row \notin Named(q) THEN {old}
  ELSE IF IsSync(q) THEN {Upserted(row, old, Merged(q, row))}
  ELSE {IF old = NoRow THEN Null ELSE old}

Init == table = [row \in Row |-> NoRow] /\ done = {}

Apply(w, q) ==
  /\ w \notin done
  /\ done' = done \cup {w}
  /\ table' = [row \in Row |-> table'[row]]
  /\ \A row \in Row : table'[row] \in Outcomes(q, row, table[row])

Next == \E w \in Writer : \E q \in Requests[w] : Apply(w, q)

Spec == Init /\ [][Next]_<<table, done>>

=============================================================================
