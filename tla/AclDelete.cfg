\* A group is deleted while another administrator assigns it.
SPECIFICATION Spec
CONSTANTS
    h1 = h1  h2 = h2
    GroupIDs = {1}
    ItemIDs = {11}
    AssignIDs = {21}
    ProxyIDs = {p1}
    Values = {v}
    Modes = {any}
    Absent = Absent
    Admins = {h1, h2}
    Kinds = {"createGroup", "assign", "deleteGroup"}
    DbFails = FALSE
INVARIANT RemovalsSynced
