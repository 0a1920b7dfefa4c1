\* Two requests at a time, no store access fails.
SPECIFICATION Spec
CONSTANTS
    u1 = u1  u2 = u2  u3 = u3  a = a  b = b
    UserIDs = {u1, u2}
    Absent = Absent
    Handlers = {a, b}
    StoreFails = FALSE
INVARIANT AdminRemains
