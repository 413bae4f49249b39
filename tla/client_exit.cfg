SPECIFICATION FairSpec
CONSTANTS
    c1 = c1
    c2 = c2
    w1 = w1
    w2 = w2
    b1 = b1
    d1 = d1
    NoConn = NoConn
    NoTab = NoTab
    NoThread = NoThread
    Conns <- TwoPeers
    Pool <- TwoWorkers
    Tabs = {b1}
    Downloads = {d1}
    MaxErrors = 1
INVARIANTS TypeOK OneHolder ListenerOutlivesAcceptor PoolDrained DisconnectedAlone
PROPERTIES ExitReturns PeersAnswered
