CONSTANTS
    TaskIds <- OneTask
    MaxSteps = 1
    Runners = {r1}
SPECIFICATION Uninterrupted
PROPERTIES CancelledStays
