---------------------------- MODULE MCAuditChain ----------------------------
(* Instances of AuditChain for TLC: an entry whose JSON columns are empty, *)
(* one with the same columns apart from a separator that moved, one that   *)
(* carries a change, as Go marshals it and as JSONB serialises it.         *)
EXTENDS AuditChain

Texts4 == {"empty", "moved", "marshalled", "serialised"}
JsonbStore == [t \in Texts4 |-> IF t = "marshalled" THEN "serialised" ELSE t]
JoinedColumns == [t \in Texts4 |-> IF t = "moved" THEN "empty" ELSE t]
=============================================================================
