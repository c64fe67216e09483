SPECIFICATION Spec
CONSTANTS
    Kept <- MCKept
    Companies = {c1}
    Contacts = {p1}
    AICalls = {a1}
    User = user
    Null = null
    MaxWrites = 2
    MaxFaults = 1
    MaxOps = 2
CHECK_DEADLOCK FALSE
INVARIANTS Consistent ReportsAreTrue QuietExportRestores
PROPERTIES WritesStayInBounds RequestsEnd
