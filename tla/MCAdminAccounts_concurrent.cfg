SPECIFICATION FairSpec
CONSTANTS
    a1 = a1
    a2 = a2
    a3 = a3
    s1 = s1
    s2 = s2
    admin = admin
    bob = bob
    p1 = p1
    p2 = p2
    w1 = w1
    w2 = w2
    Account = {a1, a2}
    Session = {s1}
    Username = {admin, bob}
    Password = {p1, p2}
    Worker = {w1, w2}
    MaxFailed = 2
    CountBound = 3
    SeedName = admin
    SeedPassword = p1
    NoAccount = NoAccount
    NoPassword = NoPassword
INVARIANTS TypeOK LockoutComplete
PROPERTIES LockLiftedByAnother LockoutSettles
