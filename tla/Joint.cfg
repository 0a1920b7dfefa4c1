\* Requests beside the ticker; reads that fail, answers that come too late,
\* restarts, settings that change.
SPECIFICATION FairJointSpec
CONSTANTS
    p1 = p1  p2 = p2  h1 = h1  h2 = h2  good = good  bad = bad  s0 = s0  s1 = s1  a = a  b = b
    ProxyIDs = {p1}
    Hosts = {h1}
    Bodies = {good}
    Unbuildable = {}
    BadBodies = {}
    Sides = {s0, s1}
    MultiSides = {}
    DefaultSide = s0
    Absent = Absent
    NoConfig = NoConfig
    Periodic = Periodic
    Triggers = {}
    Handlers = {a}
    Faults = {"db", "side", "compare", "timeout", "crash"}
    DbFails = TRUE
PROPERTIES SyncImplemented RequestsEnd Converges SyncEnds
