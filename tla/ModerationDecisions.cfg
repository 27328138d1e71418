\* All decisions about one applicant; statements and posts to the chat fail.
CONSTANTS
    u1 = u1
    u2 = u2
    main = main
    other = other
    Users = {u1}
    NoUser = NoUser
    Groups = {main}
    MainGroup = main
    Private = Private
    Founders <- NobodyYet
    Requests = {r1}
    Faults = {"db", "groupSend"}
    Acts = {"write", "join", "leave", "pressForm", "pressPoll"}
    MaxEvents = 5
    MaxForms = 1
    MaxCrashes = 0
SPECIFICATION FairSpec
INVARIANTS PendingFormHasButtons AuthorInformed NewcomerHasPoll
PROPERTIES FormReachesModerator DecisionReachesAuthor
\* Every bound on events, forms and crashes may be reached: then nothing is left to do.
CHECK_DEADLOCK FALSE
