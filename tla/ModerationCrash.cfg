\* One applicant, from the first message to the request to join; a crash at
\* any moment, statements and posts that fail or lose their answer, and the
\* chat joined and left meanwhile.
CONSTANTS
    u1 = u1
    u2 = u2
    main = main
    other = other
    Users = {u1}
    NoUser = NoUser
    Groups = {main}
    MainGroup = main
    Private = Private
    Founders <- NobodyYet
    Requests = {r1}
    Faults = {"db", "dbAnswer", "groupSend", "groupAnswer", "crash"}
    Acts = {"write", "join", "leave", "ask", "pressForm", "pressPoll"}
    MaxEvents = 4
    MaxForms = 1
    MaxCrashes = 1
SPECIFICATION Spec
INVARIANTS TypeOK Vouched PublicFormJustified ApprovalJustified
\* Every bound on events, forms and crashes may be reached: then nothing is left to do.
CHECK_DEADLOCK FALSE
