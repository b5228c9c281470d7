------------------------------- MODULE MCIngest -------------------------------
(***************************************************************************)
(* Small instances of Ingest: two entities of one reference, a1 and a2,    *)
(* and one of another, b; a field, a series.                               *)
(***************************************************************************)
EXTENDS Ingest, TLC

CONSTANTS a1, a2, b, A, B, f, tpv, jan, feb, v, w, knows, owns, c1, c2

MCRefOf == [e \in {a1, a2, b} |-> IF e = b THEN B ELSE A]

MCValue == {v, w} \cup ({v, w} \X (0..3))

MCPeriodOf == [s \in {tpv} |-> [d \in 0..1 |-> IF d = 0 THEN jan ELSE feb]]

Property(e, x, val, d) == [entity |-> e, field |-> x, value |-> val, date |-> d]

Reading1(e, s, val, d) == [entity |-> e, series |-> s, value |-> val, date |-> d]

Node(e, edges) == [entity |-> e, edges |-> edges]

To(e, type) == [to |-> e, type |-> type]

Properties == {Property(a1, f, v, 0), Property(a1, f, w, NoDate)}

Points == {Reading1(a1, tpv, v, 0), Reading1(a1, tpv, w, 1), Invalid}

\* Of two of these, each names an entity that the other inserts, or one of its reference.
Nodes == {Node(a1, <<To(b, knows)>>), Node(a2, <<Incomplete, To(b, owns)>>),
          Node(b, <<To(a2, owns)>>), Invalid}

\* The topics of values, and that of links.
MCOffered == [t \in {"entity-properties", "temporal-data"} |->
                IF t = "temporal-data" THEN Points ELSE Properties]

MCOfferedNodes == [t \in {"entities-edges"} |-> Nodes]

ConsumerSymmetry == Permutations(Consumer)

=============================================================================
