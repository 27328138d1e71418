\* Backups and statements of handlers fail; small channels, more messages than they hold.
CONSTANTS
    r1 = r1
    b1 = b1
    b2 = b2
    Requests = {r1}
    Backups = {b1}
    UpdatesCap = 1
    MessagesCap = 1
    MaxReplies = 1
    Faults = {"db", "dump"}
    MaxUpdates = 3
    MaxCrashes = 0
SPECIFICATION FairSpec
PROPERTIES UpdatesHandled MessagesDelivered BackupAnswered BackupAvailable
\* The bot is idle when all updates are handled.
CHECK_DEADLOCK FALSE
