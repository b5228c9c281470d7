---------------------------- MODULE MCGraphCache ----------------------------
(***************************************************************************)
(* A small store: entities e1 and e2; the query byId is the tree of e1,    *)
(* which holds e2 once a write has linked it; the query byProperty finds   *)
(* the entities a write has given the property.                            *)
(***************************************************************************)
EXTENDS GraphCache

CONSTANTS e1, e2, byId, byProperty

MCMembers ==
  [q \in Query |->
    [S \in SUBSET {e1, e2} |->
      IF q = byProperty THEN S ELSE IF e2 \in S THEN {e1, e2} ELSE {e1}]]

=============================================================================
