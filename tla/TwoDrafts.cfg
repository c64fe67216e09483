SPECIFICATION RunsSpec
CONSTANTS
    Steps <- AllWorkflows
    Active = {"lead", "won", "inactive"}
    Runs = {run1}
    Actors = {a1, a2}
    MaxInterrupts = 2
CHECK_DEADLOCK FALSE
INVARIANTS DraftsAreApproved
