\* One lost POST /load is never made good.
SPECIFICATION FairSpec
CONSTANTS
    p1 = p1  h1 = h1  good = good  bad = bad  none = none  s0 = s0  s1 = s1
    a = a  b = b  t = t
    ProxyIDs = {p1}
    Hosts = {h1}
    Bodies = {good}
    Unbuildable = {}
    BadBodies = {}
    Sides = {s0}
    MultiSides = {}
    DefaultSide = s0
    Absent = Absent
    NoConfig = NoConfig
    Periodic = Periodic
    Triggers = {}
    Handlers = {}
    Faults = {"lost"}
PROPERTY PeriodicReconciles
