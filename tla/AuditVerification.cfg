SPECIFICATION ChainSpec
CONSTANTS
    Writers = {w1, w2}
    Texts <- Texts4
    Empty = "empty"
    Stored <- JsonbStore
    Joined <- JoinedColumns
    MaxRows = 3
INVARIANTS ChainVerifies
