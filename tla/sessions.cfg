SPECIFICATION FairSpec
CONSTANTS
    c1 = c1
    c2 = c2
    u1 = u1
    u2 = u2
    NoUser = NoUser
    Offline = Offline
    NoMsg = NoMsg
    Conns <- TwoClients
    Users <- Everyone
    Threads = {"repl"}
    Holdings <- SharedOrOwn
    MaxLogins = 3
    MaxExpiries = 1
    MaxDry = 1
INVARIANTS TypeOK TokensRevoked ClientAgrees Listed LiveAddresses
PROPERTIES GoneIsUnlisted
