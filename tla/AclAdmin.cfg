\* Two administrators, every operation.
SPECIFICATION Spec
CONSTANTS
    h1 = h1  h2 = h2
    GroupIDs = {1}
    ItemIDs = {11}
    AssignIDs = {21}
    ProxyIDs = {p1}
    Values = {v, w}
    Modes = {any}
    Absent = Absent
    Admins = {h1, h2}
    Kinds <- Everything
    DbFails = TRUE
INVARIANTS ATypeOK EditsSynced
SYMMETRY AdminSymmetry
