\* A delete beside another request, no fault.
SPECIFICATION JointSpec
CONSTANTS
    p1 = p1  p2 = p2  h1 = h1  h2 = h2  good = good  bad = bad  s0 = s0  s1 = s1  a = a  b = b
    ProxyIDs = {p1}
    Hosts = {h1}
    Bodies = {good}
    Unbuildable = {}
    BadBodies = {}
    Sides = {s0}
    MultiSides = {}
    DefaultSide = s0
    Absent = Absent
    NoConfig = NoConfig
    Periodic = Periodic
    Triggers = {}
    Handlers = {a, b}
    Faults = {}
    DbFails = FALSE
INVARIANT DeletedNotServed
