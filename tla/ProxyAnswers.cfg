\* Two requests at a time, three keys, two hostnames; any repository call or
\* sync may fail, and the backend may restart.
SPECIFICATION Spec
CONSTANTS
    p1 = p1  p2 = p2  p3 = p3  h1 = h1  h2 = h2  x = x  a = a  b = b
    ProxyIDs = {p1, p2, p3}
    Hosts = {h1, h2}
    Bodies = {x}
    Absent = Absent
    Handlers = {a, b}
    DbFails = TRUE
SYMMETRY Symmetry
INVARIANTS PTypeOK HostnamesUnique AnswerMatchesTable
