SPECIFICATION WorkspacesSpec
CONSTANTS
    MaxChildren = 1
    Slots = 1
    Files = {f1}
    BeforeGit = {}
    IsRepo = TRUE
    MaxDirs = 4
    MaxEdits = 1
    MaxRuns = 2
    MaxJobs = 1
INVARIANT EditsReachUser
CHECK_DEADLOCK FALSE
