\* The log: three lines, a rotation.  The configuration: two proxies, two
\* groups, one layer-4 endpoint.
SPECIFICATION CaddyViews
CONSTANTS
    p = p  q = q  l = l  g1 = g1  g2 = g2  x = x  y = y  asset = asset
    i1 = i1  i2 = i2  t1 = t1
    MaxLines = 3
    MaxRotations = 1
    Backfill = 1
    ChanCap = 1
    Hosts = {p, q, l}
    ProxyHosts = {p, q}
    GroupIds = {g1, g2}
    Paths = {x, y, asset}
    Assets = {asset}
    Ips = {i1, i2}
    L4Ports = {t1}
    Unbuilt = Unbuilt
    ProxyRows <- SomeProxies
    GroupRows <- SomeGroups
    AssignSets <- SomeAssigns
    L4Tables <- SomeTables
    SettingRows <- SomeSettings
    RequestKinds <- SomeKinds
CHECK_DEADLOCK FALSE
INVARIANTS SentInOrder StreamIsLog
     HostsIsolated TerminatedHasCertificate
PROPERTIES LinesArrive NoLeak
