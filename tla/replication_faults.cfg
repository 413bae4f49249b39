SPECIFICATION ApartSpec
CONSTANTS
    t1 = t1
    t2 = t2
    u1 = u1
    u2 = u2
    g1 = g1
    f1 = f1
    m1 = m1
    p1 = p1
    p2 = p2
    NoUser = NoUser
    NoPassword = NoPassword
    NoMeta = NoMeta
    NoRecords = NoRecords
    Offline = Offline
    Dash = Dash
    Trackers <- TwoTrackers
    Peer <- EachOther
    Users = {u1, u2}
    Groups = {g1}
    Names = {f1}
    Metas = {m1}
    Passwords = {p1, p2}
    Addrs = {a1}
    Verbs <- FaultVerbs
    MaxWrites = 2
    MaxDrops = 1
    MaxEnds = 2
    MaxSaves = 1
    MaxEvents = 2
    Overlap = FALSE
INVARIANTS TypeOK IntegrityInv PushedMeansDelivered
PROPERTIES OwnerKept SavedStaysSaved AccountsReplicate FilesReplicate
