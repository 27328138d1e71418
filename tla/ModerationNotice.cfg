\* The post to the chat fails, the notice says it succeeded.
CONSTANTS
    u1 = u1
    u2 = u2
    main = main
    other = other
    Users = {u1}
    NoUser = NoUser
    Groups = {main}
    MainGroup = main
    Private = Private
    Founders <- NobodyYet
    Requests = {r1}
    Faults = {"groupSend"}
    Acts = {"write", "pressForm"}
    MaxEvents = 3
    MaxForms = 1
    MaxCrashes = 0
SPECIFICATION Spec
INVARIANT AcceptNoticeTruthful
\* Every bound on events, forms and crashes may be reached: then nothing is left to do.
CHECK_DEADLOCK FALSE
