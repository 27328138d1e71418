\* Two releases share the database; statements and commits fail, processes
\* are stopped, crash and are started again at any moment.
CONSTANTS
    s1 = s1
    s2 = s2
    cleanup = cleanup
    often = often
    never = never
    Schedulers = {s1, s2}
    Jobs = {cleanup, often}
    CleanupJob = cleanup
    Known <- TwoReleases
    NextOccurrence <- MCNextOccurrence
    BatchSize = 2
    Retention = 1
    Faults = {"db", "commit", "cancel", "crash"}
    MaxTime = 5
SPECIFICATION Spec
INVARIANTS TypeOK RunsInThePast HeldRunHasRow
PROPERTIES PerformedOnce ImplementsOccurrences
