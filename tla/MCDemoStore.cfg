SPECIFICATION Spec
CONSTANT Scopes <- MCScopes
CHECK_DEADLOCK FALSE
INVARIANTS StoreIsConsistent DiffersExactlyWhereListed
PROPERTIES FinalStaysFinal TxIsAllOrNothing
