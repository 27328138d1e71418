\* Two people and one tab; one failure of any kind, one change of a row by other updates.
CONSTANTS
    u1 = u1
    u2 = u2
    Nobody = Nobody
    Users = {u1, u2}
    Faults = {"db", "send", "429", "crash"}
    MaxAsks = 2
    MaxFaults = 1
    MaxChanges = 1
SPECIFICATION FairSpec
INVARIANTS TypeOK IndexForKnownPeople
PROPERTIES DeadLinksStayDead VisitsEnd LinkArrives
