SPECIFICATION Spec
CONSTANTS
    \* logins
    web = web
    cli = cli
    openai = openai
    a1 = a1
    a2 = a2
    Managed = {web}
    Interactive = {cli}
    LoginProviders = {openai}
    Served = {openai}
    Accounts = {a1, a2}
    Savers <- AllSavers
    Of <- OfOpenai
    MaxCallbacks = 1
    MaxGrants = 3
    MaxCrashes = 1
    \* workspaces: a lead with two children
    MaxChildren = 2
    Slots = 1
    Files = {f1, f2}
    BeforeGit = {f1}
    IsRepo = TRUE
    MaxDirs = 6
    MaxEdits = 1
    MaxRuns = 2
    MaxJobs = 1
    \* event streams
    Runs = {r1, r2}
    Clients = {c1}
    Cap = 2
    Final = 3
    \* two background tasks
    InRepo = TRUE
    Tasks = {"t", "u"}
    Listers = {"l"}
    Session = "session"
INVARIANTS
    LoginsHold CredentialsKept
    ChildrenApart NothingLeft
    EndedIsWhole
    TasksApart
PROPERTY ServicesEnd
CHECK_DEADLOCK FALSE
