\* Telegram answers 429 until messagesChan is full.
CONSTANTS
    r1 = r1
    b1 = b1
    b2 = b2
    Requests = {r1}
    Backups = {b1, b2}
    UpdatesCap = 1
    MessagesCap = 3
    MaxReplies = 1
    Faults = {"429"}
    MaxUpdates = 1
    MaxCrashes = 0
SPECIFICATION FairSpec
PROPERTY SenderWakesUp
\* The sender waits for itself: that is the violation.
CHECK_DEADLOCK FALSE
