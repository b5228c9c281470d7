---------------------------- MODULE MCCdcPipeline ----------------------------
(* Small instances of CdcPipeline: an entity and a data point of it. *)
EXTENDS CdcPipeline, TLC

CONSTANTS u, v, w, d1, d2, c1, c2

User == [ref |-> "user", type |-> "person"]
Reading == [id |-> 1, key |-> "tpv", granularity |-> "day", period |-> 1]

JustUser == {User}
JustReading == {Reading}

Only(field, value) == [f \in Field |-> IF f = field THEN value ELSE Null]

Dated(value, date) == [Only("value", value) EXCEPT !["reference_date"] = date]

\* An update of an entity replaces a property by another, that of a data point its value and,
\* if the newer value is of another day of the period, its date.
MCImages == [s \in Subject |-> IF s \in Points THEN {Dated(x, d) : x \in {v, w}, d \in {d1, d2}}
                               ELSE {Only("name", u), Only("value", u)}]

\* Which consumer is which tells nothing, nor which value or date a data point has.
Symmetry == Permutations(Consumer) \cup Permutations({v, w}) \cup Permutations({d1, d2})

=============================================================================
