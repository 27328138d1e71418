\* No statement is lost, messages are put off: one person in two chats, two requests at the same time.
CONSTANTS
    u1 = u1
    u2 = u2
    main = main
    other = other
    Users = {u1}
    NoUser = NoUser
    Groups = {main, other}
    MainGroup = main
    Private = Private
    Founders <- NobodyYet
    Requests = {r1, r2}
    Faults = {"429"}
    Acts = {"write", "join", "leave"}
    MaxEvents = 3
    MaxForms = 2
    MaxCrashes = 0
SPECIFICATION Spec
INVARIANTS LeaverNotActive IndexAgreesWithInfo
\* Every bound on events, forms and crashes may be reached: then nothing is left to do.
CHECK_DEADLOCK FALSE
