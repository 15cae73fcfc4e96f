CONSTANTS
    a = a
    b = b
    r1 = r1
    r2 = r2
    Founders = {a, b}
    FounderRole <- MCFounderRole
    Invites = {}
    Challenges = {}
    Requests = {r1, r2}
    GrantedRoles = {"admin"}
    None = None
SPECIFICATION Spec
INVARIANT SomeoneOwns
