\* Polls, dumps and sends fail; one crash.  A backup is the third sender of
\* messages; web requests, and handlers whose statements fail, are in run
\* pipeline_live.  After code 429 the sender's two messages just fit into the
\* channel, so it goes on; with a smaller one it would wait for itself.
CONSTANTS
    r1 = r1
    b1 = b1
    b2 = b2
    Requests = {}
    Backups = {b1, b2}
    UpdatesCap = 1
    MessagesCap = 2
    MaxReplies = 1
    Faults = {"poll", "dump", "refused", "429", "crash"}
    MaxUpdates = 3
    MaxCrashes = 1
SYMMETRY Symmetry
SPECIFICATION Spec
INVARIANTS TypeOK UpdatesInOrder MessagesOnce BackupExclusive TempFilesRemoved
PROPERTY ImplementsDelivery
\* The bot is idle when all updates are handled, and it can stop for good (run pipeline_stuck).
CHECK_DEADLOCK FALSE
