SPECIFICATION Spec
CONSTANTS
    a = a
    b = b
    Account = {a, b}
    None = None
    MaxSessions = 2
    MaxLoads = 2
    MaxCalls = 2
INVARIANTS TypeOK SignedInAs
PROPERTIES LogoutLeaves NavigationEnds
