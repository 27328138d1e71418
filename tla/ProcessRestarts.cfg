\* A server and a process that only migrates find any database; three failures or
\* deaths, two signals; a later release may come at any time.
CONSTANTS
    p1 = p1
    p2 = p2
    Nobody = Nobody
    Ghost = Ghost
    Processes = {p1, p2}
    InitialDatabases <- AllDatabases
    Migrators = {p2}
    MaxRequests = 2
    MaxFaults = 3
    MaxSignals = 2
SPECIFICATION FairSpec
INVARIANTS TypeOK NoConflict StartsOnCurrentSchema PoolOutlivesUsers
PROPERTIES UpgradeAtOnce SignalEnds ServesAtLast
