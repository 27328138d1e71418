\* Two processes of one release, of which nothing but handlers fails.
CONSTANTS
    s1 = s1
    s2 = s2
    cleanup = cleanup
    often = often
    never = never
    Schedulers = {s1, s2}
    Jobs = {cleanup, often}
    CleanupJob = cleanup
    Known <- SameRelease
    NextOccurrence <- MCNextOccurrence
    BatchSize = 2
    Retention = 1
    Faults = {}
    MaxTime = 4
SPECIFICATION FairSpec
PROPERTIES ProcessesDueWork RunsSettle
\* When the clock has reached its bound, nothing is due any more.
CHECK_DEADLOCK FALSE
