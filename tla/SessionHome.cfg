CONSTANTS
    Users = {u1}
    Grants = {g1, g2}
    Requests = {r1, r2}
    Ops = {"page", "home", "login", "logout"}
    Reuse = {g1, g2}
    Faulty = {}
    None = None
    Keep = Keep
    Clear = Clear
SPECIFICATION Spec
SYMMETRY Symmetry
CHECK_DEADLOCK FALSE
INVARIANTS
    HomeIsPersonal
