\* Every kind of fault; the ticker, a manual trigger and a request handler; a
\* body that Caddy refuses and one that cannot be built; settings with an
\* ambiguous order.
SPECIFICATION Spec
CONSTANTS
    p1 = p1  h1 = h1  good = good  bad = bad  none = none  s0 = s0  s1 = s1
    a = a  b = b  t = t
    ProxyIDs = {p1}
    Hosts = {h1}
    Bodies = {bad, none}
    Unbuildable = {none}
    BadBodies = {bad}
    Sides = {s0, s1}
    MultiSides = {s1}
    DefaultSide = s0
    Absent = Absent
    NoConfig = NoConfig
    Periodic = Periodic
    Triggers = {t}
    Handlers = {a}
    Faults = {"db", "side", "compare", "write", "exec", "lost", "timeout", "crash"}
INVARIANTS TypeOK FileReachesCaddy FullSyncExclusive
