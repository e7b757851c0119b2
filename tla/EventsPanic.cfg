CONSTANTS
    Runs = {r1}
    Clients = {c1}
    Cap = 2
    Final = 3
SPECIFICATION EventsSpec
INVARIANTS ClientsCannotStopRuns
CHECK_DEADLOCK FALSE
