\* The file: two versions, two syncs at a time, three seconds, one crash or failing
\* removal.  Traffic: three requests, a restart, three scrapes.
SPECIFICATION StoresSpec
CONSTANTS
    x = x  y = y  p = p  q = q
    Versions = {x, y}
    Syncs = {p, q}
    Gone = Gone
    Retention = 1
    MaxSecond = 2
    MaxFaults = 1
    Codes = {200, 503}
    Les <- Buckets
    Ranges <- Windows
    KeepFor = 2
    MaxRequests = 3
    MaxRestarts = 1
    MaxTime = 3
SYMMETRY Alike
CHECK_DEADLOCK FALSE
INVARIANTS StoreTypes ReplacedIsBackedUp
     QuantilesOrdered
PROPERTY FileIsAtomic
