SPECIFICATION Spec
CONSTANTS
    c1 = c1
    c2 = c2
    u1 = u1
    u2 = u2
    NoUser = NoUser
    Offline = Offline
    NoMsg = NoMsg
    Conns <- TwoClients
    Users <- Everyone
    Threads = {"repl"}
    Holdings <- Own
    MaxLogins = 2
    MaxExpiries = 1
    MaxDry = 0
INVARIANTS NoDeadAddress
