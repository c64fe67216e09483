SPECIFICATION Spec
CONSTANTS
    GuiJobs = {g}
    CliJobs = {c}
    MaxSeconds = 2
    MaxWrites = 1
    MaxFaults = 1
    MaxOps = 2
CHECK_DEADLOCK FALSE
INVARIANTS LauncherIsWhole BackupsAreKept PasswordOpensVolume
PROPERTIES RestoreImportsTheFile JobsEnd
