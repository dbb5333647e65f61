CONSTANTS
    Users = {u1}
    Grants = {g1, g2, g3}
    Requests = {r1, r2, r3}
    Ops = {"page", "home", "login", "logout"}
    Reuse = {g1, g2, g3}
    Faulty = {}
    None = None
    Keep = Keep
    Clear = Clear
SPECIFICATION Spec
SYMMETRY Symmetry
CHECK_DEADLOCK FALSE
INVARIANTS
    LogoutSticks
