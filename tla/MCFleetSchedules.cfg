CONSTANTS
    Schedules = {s1}
    Runs = {r1, r2}
    Interval = 1
    CronTimes = {1, 4}
    CronWindow = 2
    Limits = {0, 2}
    MaxTotal = 3
    MaxTime = 3
    MaxCrashes = 2
SPECIFICATION FairSpec
INVARIANTS
    ActiveIsPlanned
    ForbidExcludes
PROPERTIES
    FinishedStaysFinished
    SkipAtMostOnce
    DueIsServed
