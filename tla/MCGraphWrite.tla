----------------------------- MODULE MCGraphWrite -----------------------------
(***************************************************************************)
(* Entities a1 (reference A), b1 and b2 (reference B, of two types); calls *)
(* of the three consumers that meet in them.                               *)
(***************************************************************************)
EXTENDS GraphWrite

CONSTANTS a1, b1, b2, A, B, f, one, two, knows, owns, jan, w1, w2, w3

MCRefOf == [e \in {a1, b1, b2} |-> IF e = a1 THEN A ELSE B]

Doc(v) == [x \in {f} |-> v]

Named2(e, d, e2, d2) == <<[entity |-> e, doc |-> d], [entity |-> e2, doc |-> d2]>>

Link(type) == [from |-> A, to |-> B, type |-> type]

\* The entities-edges consumer: no properties, the second request with the link twice.
Linking == {[entities |-> Named2(a1, Null, b1, Null), links |-> <<Link(knows)>>],
            [entities |-> Named2(b1, Null, b2, Null), links |-> <<Link(owns), Link(owns)>>]}

\* The entity-properties consumer, the HTTP interface with an entity named twice.
Describing == {[entities |-> Named2(b1, Doc(one), a1, Doc(two)), links |-> <<>>],
               [entities |-> Named2(b1, Doc(two), b1, Null), links |-> <<Link(owns)>>]}

At(e, p, v) == [entity |-> e, period |-> p, reading |-> [value |-> v, date |-> 0]]

\* The temporal-data consumer: points of both entities of one reference; a granularity
\* nobody knows.
Measuring == {[points |-> <<At(b1, jan, one)>>],
              [points |-> <<At(a1, jan, one), At(b2, jan, two)>>],
              [points |-> <<At(a1, NoPeriod, one)>>]}

MCRequests ==
  [w \in {w1, w2, w3} |->
     IF w = w1 THEN Linking ELSE IF w = w2 THEN Linking \cup Describing ELSE Measuring]

=============================================================================
