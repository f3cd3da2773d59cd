SPECIFICATION MCSpec
CONSTANTS
    t1 = t1
    t2 = t2
    t3 = t3
    c1 = c1
    c2 = c2
    a1 = a1
    open = open
    blocked = blocked
    done = done
    Keys <- MCThree
    Clients <- MCClients
    Nobody = Nobody
    Agents <- MCAgents
    None = None
    NoTask = NoTask
    Keep = Keep
    Live <- MCLive
    Closed <- MCClosed
    Blocked = blocked
    Requests <- MCRequests
    MaxWrites = 5
SYMMETRY MCSymmetry
INVARIANTS TypeOK Forest TreeAgrees
PROPERTIES NoLostUpdate
