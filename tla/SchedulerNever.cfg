\* The same with a job that is never to run: "0 0 30 2 *" is a valid cron expression.
CONSTANTS
    s1 = s1
    s2 = s2
    cleanup = cleanup
    often = often
    never = never
    Schedulers = {s1}
    Jobs = {cleanup, often, never}
    CleanupJob = cleanup
    Known <- SameRelease
    NextOccurrence <- MCNextOccurrence
    BatchSize = 2
    Retention = 1
    Faults = {}
    MaxTime = 3
SPECIFICATION FairSpec
PROPERTY ProcessesDueWork
\* When the clock has reached its bound, nothing is due any more.
CHECK_DEADLOCK FALSE
